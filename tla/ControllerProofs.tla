--------------------------- MODULE ControllerProofs ---------------------------
(***************************************************************************)
(* Type correctness of the reconcile loop, that it never deploys a version *)
(* whose migration has not completed, and that the current hash of the     *)
(* status is of such a migration: for every update graph, set of specs and *)
(* secrets, and any number of edits, faults and failures.                  *)
(***************************************************************************)
EXTENDS Controller, UpdateGraphProofs

(* Most leaves are first-order; the ones that are not cite SMT.            *)
USE Zenon

----------------------------------------------------------------------------
(* Types *)

(* The hash of no config and the annotation of skipped migrations.         *)
LEMMA HashesTyped == NoHash \in HashType /\ Skipped \in HashType
BY NoneTyped DEF NoHash, Skipped, HashType, Str

(* The status of a new cluster.                                            *)
LEMMA NoStatusTyped == NoStatus \in StatusType
BY HashesTyped, NoneTyped DEF NoStatus, StatusType, NoFailure, FailureType, Str

(* No cluster in hand.                                                     *)
LEMMA NoClusterTyped == NoCluster \in ClusterType
<1>1. NoSpec \in SpecType
  BY DEF NoSpec, SpecType, Str
<1> QED BY <1>1, NoStatusTyped DEF NoCluster, ClusterType

(* No deployment.                                                          *)
LEMMA NoDepTyped == NoDep \in DepType
BY HashesTyped, NoneTyped DEF NoDep, DepType, Str

(* The context boxes at the start of a reconcile.                          *)
LEMMA NoCtxTyped == NoCtx \in CtxType
BY NoDepTyped DEF NoCtx, CtxType, Str

(* The fields that the handlers read.                                      *)
LEMMA ObjTyped ==
    ASSUME WorkOK
    PROVE  /\ obj.gen \in Nat /\ obj.spec \in SpecType
           /\ obj.paused \in BOOLEAN /\ obj.status \in StatusType
           /\ obj.status.target \in HashType /\ obj.status.version \in VersionType
           /\ ctx.secret \in Str /\ ctx.jobs \in SUBSET JobType
           /\ ctx.pods \in SUBSET HashType /\ ctx.dep \in DepType
<1>1. obj \in ClusterType /\ ctx \in CtxType
  BY DEF WorkOK
<1>2. obj.status \in StatusType
  BY <1>1 DEF ClusterType
<1> QED BY <1>1, <1>2 DEF ClusterType, CtxType, StatusType

Ends == {"done", "requeue"}

(* Types are inductive together with what ComputeTarget keeps: the version *)
(* of every copy of the status carries the migration attribute.            *)
IsCluster(c) == c \in ClusterType /\ Marked(c.status.version)

WorkInv == WorkOK /\ IsCluster(obj)
TypeInv == TypeOK /\ WorkInv /\ IsCluster(cluster) /\ IsCluster(cache)

(* What a step of a handler has to establish.                              *)
StepInv == ApiOK /\ IsCluster(cluster) /\ cacheFresh \in BOOLEAN /\ WorkInv /\ left \in LeftType

(* No cluster in hand has no version, so nothing to mark.                  *)
LEMMA NoClusterMarked == IsCluster(NoCluster)
BY NoClusterTyped DEF IsCluster, Marked, NoCluster, NoStatus

(* Going on with a handler or ending the reconcile keeps the types of the  *)
(* work in progress.                                                       *)
LEMMA GotoTyped ==
    ASSUME WorkInv, NEW next \in Handlers \cup Ends, NEW o, IsCluster(o),
           NEW fresh \in BOOLEAN, NEW c \in CtxType, Goto(next, o, fresh, c)
    PROVE  WorkInv'
<1>1. CASE next \in Ends
  <2>1. queued' \in BOOLEAN /\ objFresh' \in BOOLEAN
    BY <1>1 DEF Goto, Ends
  <2>2. pc' \in Handlers /\ IsCluster(obj)' /\ ctx' \in CtxType
    BY <1>1, NoClusterMarked, NoCtxTyped DEF Goto, Ends, Handlers, IsCluster
  <2> QED BY <2>1, <2>2 DEF WorkInv, WorkOK, IsCluster
<1>2. CASE next \notin Ends
  BY <1>2 DEF Goto, WorkInv, WorkOK, Ends, IsCluster
<1> QED BY <1>1, <1>2

(* So does going on with what is in hand.                                  *)
LEMMA ContinueTyped ==
    ASSUME WorkInv, NEW next \in Handlers \cup Ends, Continue(next)
    PROVE  WorkInv'
BY GotoTyped DEF Continue, WorkInv, WorkOK

(* A handler that makes no API call only has to keep the types of its own  *)
(* state.                                                                  *)
LEMMA NoCallTyped ==
    ASSUME TypeInv, NoCall, WorkInv'
    PROVE  StepInv'
BY DEF TypeInv, TypeOK, NoCall, StepInv, ApiOK, SeenOK, IsCluster, api

(* A failing call keeps the types.                                         *)
LEMMA CallFailsTyped ==
    ASSUME TypeInv, CallFails
    PROVE  StepInv'
<1>1. WorkInv'
  BY ContinueTyped DEF CallFails, TypeInv, Ends
<1>2. left' \in LeftType
  BY SMT DEF CallFails, TypeInv, TypeOK, LeftType
<1>3. ApiOK' /\ cacheFresh' \in BOOLEAN /\ IsCluster(cluster)'
  BY DEF CallFails, TypeInv, TypeOK, ApiOK, SeenOK, IsCluster, api
<1> QED BY <1>1, <1>2, <1>3 DEF StepInv

(* PatchStatus keeps the types if the status it is given has its type,     *)
(* with a marked version.                                                  *)
LEMMA PatchStatusTyped ==
    ASSUME TypeInv, NEW status \in StatusType, Marked(status.version), NEW generation \in Nat,
           NEW versioned \in BOOLEAN, NEW next \in Handlers \cup Ends,
           PatchStatus(status, generation, versioned, next)
    PROVE  StepInv'
<1> DEFINE new == [status EXCEPT !.observed = generation]
           fresh == objFresh /\ new = cluster.status
<1>1. new \in StatusType /\ new.version = status.version
  BY DEF StatusType
<1> HIDE DEF new
<1>2. CASE /\ cluster' = [cluster EXCEPT !.status = new]
           /\ cacheFresh' = (cacheFresh /\ new = cluster.status)
           /\ Goto(next, [obj EXCEPT !.status = new], fresh, ctx)
           /\ UNCHANGED <<secret, adopted, jobs, pods, dep, left>>
  <2>1. cluster' \in ClusterType /\ cluster'.status = new
    BY <1>1, <1>2 DEF TypeInv, TypeOK, ApiOK, ClusterType
  <2>2. [obj EXCEPT !.status = new] \in ClusterType /\ [obj EXCEPT !.status = new].status = new
    BY <1>1 DEF TypeInv, TypeOK, WorkOK, ClusterType
  <2>3. IsCluster(cluster)' /\ IsCluster([obj EXCEPT !.status = new])
    BY <1>1, <2>1, <2>2 DEF IsCluster
  <2>4. cacheFresh' \in BOOLEAN /\ fresh \in BOOLEAN
    BY <1>2
  <2> HIDE DEF fresh
  <2>5. WorkInv'
    BY <1>2, <2>3, <2>4, GotoTyped DEF TypeInv, TypeOK, WorkOK
  <2> QED BY <1>2, <2>1, <2>3, <2>4, <2>5 DEF StepInv, TypeInv, TypeOK, ApiOK
<1>3. CASE Continue("requeue") /\ UNCHANGED <<api, cacheFresh, left>>
  <2>1. WorkInv'
    BY <1>3, ContinueTyped DEF TypeInv, Ends
  <2> QED BY <1>3, <2>1, NoCallTyped DEF NoCall
<1>4. CASE CallFails
  BY <1>4, CallFailsTyped
<1> QED BY <1>2, <1>3, <1>4 DEF PatchStatus, new

(* Every handler leaves the caches and the history alone; adopting a       *)
(* secret makes an event of it due.                                        *)
LEMMA HandlerTyped ==
    ASSUME TypeInv, StepInv', secretFresh' \in BOOLEAN,
           UNCHANGED <<cache, seenSecret, seenJobs, seenPods, seenDep, migrated>>
    PROVE  TypeInv'
BY DEF TypeInv, TypeOK, StepInv, WorkInv, SeenOK, IsCluster

(* The deployment made from the config in hand.                            *)
LEMMA DeploymentTyped ==
    ASSUME WorkOK
    PROVE  Deployment(obj, ctx.secret) \in DepType
<1>1. obj.status.target.conf \in Str /\ obj.status.target.state \in StateType
  BY ObjTyped DEF HashType
<1>2. (IF obj.spec.skip THEN Skipped ELSE obj.status.target) \in HashType
  BY ObjTyped, HashesTyped
<1> QED BY <1>1, <1>2, ObjTyped DEF Deployment, DepType

(* What validateConfig computes.                                           *)
LEMMA ConfigTyped ==
    ASSUME WorkInv
    PROVE  /\ TargetOf(obj).target \in VersionType
           /\ Marked(TargetOf(obj).target)
           /\ MigrationConfig(obj, ctx.secret, TargetOf(obj)) \in HashType
<1> DEFINE req == [image |-> obj.spec.image, base |-> TRUE, version |-> obj.spec.version,
                   channel |-> obj.spec.channel, engine |-> Engine]
<1>1. IsRequest(req)
  BY ObjTyped DEF IsRequest, SpecType, WorkInv
<1> HIDE DEF req
<1>2. IsTarget(TargetOf(obj)) /\ Marked(TargetOf(obj).target)
  BY <1>1, ObjTyped, ConstantsAssumption, ComputeTargetIsTarget
  DEF TargetOf, req, WorkInv, IsCluster
<1>3. obj.spec.conf \in Str
  BY ObjTyped DEF SpecType, WorkInv
<1>4. (IF Engine = "memory" THEN "" ELSE ctx.secret) \in Str
  BY ObjTyped DEF WorkInv, Str
<1> QED BY <1>2, <1>3, <1>4 DEF IsTarget, MigrationConfig, HashType

(* A handler that patches fields of the status in hand other than its      *)
(* version, and goes on.                                                   *)
LEMMA PatchTyped ==
    ASSUME TypeInv, NEW status \in StatusType, status.version = obj.status.version,
           NEW generation \in {0, obj.gen}, NEW versioned \in BOOLEAN,
           NEW next \in Handlers \cup Ends,
           PatchStatus(status, generation, versioned, next)
    PROVE  StepInv'
<1>1. Marked(status.version) /\ generation \in Nat
  BY ObjTyped, SMT DEF TypeInv, WorkInv, IsCluster
<1> QED BY <1>1, PatchStatusTyped

(* A handler that goes on without a call keeps the types.                  *)
LEMMA StayTyped ==
    ASSUME TypeInv, NEW next \in Handlers \cup Ends, Continue(next), NoCall
    PROVE  StepInv'
BY ContinueTyped, NoCallTyped DEF TypeInv

(* Reporting an invalid spec or config keeps the types.                    *)
LEMMA RejectTyped ==
    ASSUME TypeInv, NEW failed \in FailureType, Reject(failed)
    PROVE  StepInv'
<1> DEFINE status == [obj.status EXCEPT !.validating = FALSE, !.failed = failed]
<1>1. CASE Continue("done") /\ NoCall
  BY <1>1, StayTyped DEF Ends
<1>2. CASE PatchStatus(status, obj.gen, TRUE, "done")
  <2>1. status \in StatusType /\ status.version = obj.status.version
    BY ObjTyped DEF TypeInv, WorkInv, StatusType
  <2> HIDE DEF status
  <2> QED BY <1>2, <2>1, PatchTyped DEF Ends
<1> QED BY <1>1, <1>2 DEF Reject

----------------------------------------------------------------------------
(* The handlers keep the types *)

(* syncOwnedResource starts a reconcile with the cached cluster.           *)
LEMMA StartTyped ==
    ASSUME TypeInv, syncOwnedResource
    PROVE  StepInv'
<1>1. WorkInv'
  BY NoCtxTyped DEF syncOwnedResource, TypeInv, WorkInv, WorkOK, TypeOK, SeenOK, IsCluster, Handlers
<1> QED BY <1>1, NoCallTyped DEF syncOwnedResource

(* pauseCluster only sets the Paused condition.                            *)
LEMMA PauseTyped ==
    ASSUME TypeInv, pauseCluster
    PROVE  StepInv'
<1> DEFINE status == [obj.status EXCEPT !.paused = obj.paused]
           next == IF obj.paused THEN "done" ELSE "spec"
<1>1. next \in Handlers \cup Ends
  BY DEF Handlers, Ends
<1>2. status \in StatusType /\ status.version = obj.status.version
  BY ObjTyped DEF TypeInv, WorkInv, StatusType
<1>3. (Continue(next) /\ NoCall) \/ PatchStatus(status, obj.gen, TRUE, next)
  BY DEF pauseCluster
<1> HIDE DEF status, next
<1> QED BY <1>1, <1>2, <1>3, PatchTyped, StayTyped

(* validateSpec only reports an invalid spec.                              *)
LEMMA SpecTyped ==
    ASSUME TypeInv, validateSpec
    PROVE  StepInv'
<1>1. CASE Continue("adopt") /\ NoCall
  BY <1>1, StayTyped DEF Handlers
<1>2. CASE Reject(InvalidConfig("", {"spec"}))
  <2>1. InvalidConfig("", {"spec"}) \in FailureType
    BY DEF InvalidConfig, FailureType, Str
  <2> QED BY <1>2, <2>1, RejectTyped
<1> QED BY <1>1, <1>2 DEF validateSpec

(* secretAdopter labels the secret or goes on to report it missing.        *)
LEMMA AdopterTyped ==
    ASSUME TypeInv, secretAdopter
    PROVE  StepInv'
<1>1. CASE (Continue("collect") \/ Continue("missing")) /\ NoCall
  BY <1>1, StayTyped DEF Handlers
<1>2. CASE /\ adopted' = TRUE
           /\ Continue("collect")
           /\ UNCHANGED <<cluster, secret, jobs, pods, dep, cacheFresh, left>>
  <2>1. WorkInv'
    BY <1>2, ContinueTyped DEF TypeInv, Handlers
  <2> QED BY <1>2, <2>1 DEF StepInv, TypeInv, TypeOK, ApiOK, SeenOK, IsCluster
<1>3. CASE CallFails
  BY <1>3, CallFailsTyped
<1>4. CASE /\ left.faults > 0
           /\ left' = [left EXCEPT !.faults = @ - 1]
           /\ Continue("missing")
           /\ UNCHANGED <<api, cacheFresh>>
  <2>1. WorkInv'
    BY <1>4, ContinueTyped DEF TypeInv, Handlers
  <2>2. left' \in LeftType
    BY <1>4, SMT DEF TypeInv, TypeOK, LeftType
  <2> QED BY <1>4, <2>1, <2>2 DEF StepInv, TypeInv, TypeOK, ApiOK, SeenOK, IsCluster, api
<1> QED BY <1>1, <1>2, <1>3, <1>4 DEF secretAdopter

(* The report of a missing secret keeps the types.                         *)
LEMMA MissingTyped ==
    ASSUME TypeInv, reportMissingSecret
    PROVE  StepInv'
<1> DEFINE status == [obj.status EXCEPT !.missing = TRUE]
<1>1. status \in StatusType /\ status.version = obj.status.version
  BY ObjTyped DEF TypeInv, WorkInv, StatusType
<1>2. PatchStatus(status, 0, FALSE, "requeue")
  BY DEF reportMissingSecret
<1> HIDE DEF status
<1> QED BY <1>1, <1>2, PatchTyped DEF Ends

(* collectSecrets puts the cached secret into the context.                 *)
LEMMA CollectTyped ==
    ASSUME TypeInv, collectSecrets
    PROVE  StepInv'
<1> DEFINE c == [ctx EXCEPT !.secret = seenSecret]
<1>1. c \in CtxType
  BY DEF TypeInv, TypeOK, WorkOK, SeenOK, CtxType
<1>2. Goto("changed", obj, objFresh, c)
  BY DEF collectSecrets
<1> HIDE DEF c
<1>3. WorkInv'
  BY <1>1, <1>2, GotoTyped DEF TypeInv, WorkInv, WorkOK, Handlers
<1> QED BY <1>3, NoCallTyped DEF collectSecrets

(* checkConfigChanged records the secret and the generation.               *)
LEMMA ChangedTyped ==
    ASSUME TypeInv, checkConfigChanged
    PROVE  StepInv'
<1> DEFINE status == [obj.status EXCEPT !.secret = ctx.secret, !.missing = FALSE,
                                        !.validating = TRUE]
<1>1. status \in StatusType /\ status.version = obj.status.version
  BY ObjTyped DEF TypeInv, WorkInv, StatusType
<1>2. (Continue("config") /\ NoCall) \/ PatchStatus(status, obj.gen, FALSE, "config")
  BY DEF checkConfigChanged
<1> HIDE DEF status
<1> QED BY <1>1, <1>2, PatchTyped, StayTyped DEF Handlers

(* validateConfig writes the target that ComputeTarget picks: this is the  *)
(* step that needs the marked versions.                                    *)
LEMMA ConfigStepTyped ==
    ASSUME TypeInv, validateConfig
    PROVE  StepInv'
<1> DEFINE target == TargetOf(obj)
           errs == ConfigErrors(obj, ctx.secret, target)
           hash == MigrationConfig(obj, ctx.secret, target)
           computed == [obj.status EXCEPT !.observed = obj.gen, !.target = hash,
                                          !.version = target.target,
                                          !.validating = FALSE, !.failed = NoFailure]
<1>1. \/ Reject(InvalidConfig(ctx.secret, errs))
      \/ Continue("migrations") /\ NoCall
      \/ PatchStatus(computed, obj.gen, TRUE, "migrations")
  BY DEF validateConfig
<1>2. InvalidConfig(ctx.secret, errs) \in FailureType
  BY ObjTyped DEF TypeInv, WorkInv, InvalidConfig, FailureType, ConfigErrors
<1>3. /\ hash \in HashType /\ target.target \in VersionType
      /\ Marked(target.target)
  BY ConfigTyped DEF TypeInv
<1> HIDE DEF target, errs, hash
<1>4. NoFailure \in FailureType
  BY DEF NoFailure, FailureType, Str
<1>5. computed \in StatusType /\ computed.version = target.target
  BY <1>3, <1>4, ObjTyped DEF TypeInv, WorkInv, StatusType
<1> HIDE DEF computed
<1>6. obj.gen \in Nat
  BY ObjTyped DEF TypeInv, WorkInv
<1> QED BY <1>1, <1>2, <1>3, <1>5, <1>6, RejectTyped, StayTyped, PatchStatusTyped DEF Handlers

(* checkMigrations leads to a handler of the chain.                        *)
LEMMA CheckTyped ==
    ASSUME TypeInv, checkMigrations
    PROVE  StepInv'
<1> DEFINE c == [ctx EXCEPT !.dep = seenDep, !.jobs = seenJobs]
           next == AfterCheck(obj, seenDep, seenJobs)
<1>1. CASE Goto(next, obj, objFresh, c) /\ NoCall
  <2>1. c \in CtxType
    BY DEF TypeInv, TypeOK, WorkOK, SeenOK, CtxType
  <2>2. next \in Handlers
    BY DEF AfterCheck, Handlers
  <2> HIDE DEF c, next
  <2>3. WorkInv'
    BY <1>1, <2>1, <2>2, GotoTyped DEF TypeInv, WorkInv, WorkOK
  <2> QED BY <1>1, <2>3, NoCallTyped
<1>2. CASE CallFails
  BY <1>2, CallFailsTyped
<1> QED BY <1>1, <1>2 DEF checkMigrations

(* The handlers that only set conditions.                                  *)
LEMMA ConditionsTyped ==
    ASSUME TypeInv, \/ runMigration \/ selfPauseCluster \/ ensureDeployment
                    \/ reportApplyFailed \/ clearApplyFailed \/ waitForRollout
    PROVE  StepInv'
<1> DEFINE st == obj.status
           Statuses == {[st EXCEPT !.migrating = "true"],
                        [st EXCEPT !.paused = TRUE],
                        [st EXCEPT !.migrating = "no", !.current = st.target, !.rolling = TRUE],
                        [st EXCEPT !.error = "apply"],
                        [st EXCEPT !.error = "no"],
                        [st EXCEPT !.error = "pod"],
                        [st EXCEPT !.rolling = TRUE],
                        [st EXCEPT !.rolling = FALSE, !.error = "no"]}
           Nexts == {"job", "label", "apply", "requeue", "cleanup"}
<1>1. ASSUME NEW status \in Statuses
      PROVE  status \in StatusType /\ status.version = obj.status.version
  BY ObjTyped DEF TypeInv, WorkInv, StatusType
<1>2. Nexts \subseteq Handlers \cup Ends
  BY DEF Handlers, Ends
<1>3. \/ \E next \in Nexts : Continue(next) /\ NoCall
      \/ \E status \in Statuses, next \in Nexts : PatchStatus(status, obj.gen, TRUE, next)
  <2>1. ASSUME runMigration PROVE <1>3!2
    BY <2>1 DEF runMigration
  <2>2. ASSUME selfPauseCluster PROVE <1>3!2
    BY <2>2 DEF selfPauseCluster
  <2>3. ASSUME ensureDeployment PROVE <1>3
    BY <2>3 DEF ensureDeployment
  <2>4. ASSUME reportApplyFailed PROVE <1>3!2
    BY <2>4 DEF reportApplyFailed
  <2>5. ASSUME clearApplyFailed PROVE <1>3!2
    BY <2>5 DEF clearApplyFailed
  <2>6. ASSUME waitForRollout PROVE <1>3
    BY <2>6 DEF waitForRollout
  <2> QED BY <2>1, <2>2, <2>3, <2>4, <2>5, <2>6
<1> HIDE DEF Statuses, Nexts
<1> QED BY <1>1, <1>2, <1>3, PatchTyped, StayTyped

(* The job of runMigration carries the target hash.                        *)
LEMMA ApplyJobTyped ==
    ASSUME TypeInv, applyJob
    PROVE  StepInv'
<1>1. CASE CallFails
  BY <1>1, CallFailsTyped
<1>2. CASE ~CallFails
  <2>1. WorkInv' /\ UNCHANGED <<cluster, secret, adopted, dep, cacheFresh, left>>
    BY <1>2, ContinueTyped DEF applyJob, TypeInv, Handlers
  <2>2. MigrationJob(obj.status.target) \in JobType
    BY ObjTyped DEF TypeInv, WorkInv, JobType, MigrationJob
  <2>3. jobs' \in SUBSET JobType /\ pods' \in SUBSET HashType
    BY <1>2, <2>2, ObjTyped DEF applyJob, TypeInv, WorkInv, TypeOK, ApiOK
  <2> QED BY <2>1, <2>3 DEF StepInv, TypeInv, TypeOK, ApiOK, SeenOK, IsCluster
<1> QED BY <1>1, <1>2

(* Deleting the other jobs keeps the types.                                *)
LEMMA ExtrasTyped ==
    ASSUME TypeInv, deleteExtraJobs
    PROVE  StepInv'
<1>1. CASE Continue("requeue") /\ NoCall
  BY <1>1, StayTyped DEF Ends
<1>2. CASE CallFails
  BY <1>2, CallFailsTyped
<1>3. ASSUME NEW extra \in ctx.jobs,
             jobs' = {j \in jobs : j.hash # extra.hash},
             Goto("extras", obj, objFresh, [ctx EXCEPT !.jobs = @ \ {extra}]),
             UNCHANGED <<cluster, secret, adopted, pods, dep, cacheFresh, left>>
      PROVE  StepInv'
  <2> DEFINE c == [ctx EXCEPT !.jobs = @ \ {extra}]
  <2>1. c \in CtxType
    BY DEF TypeInv, TypeOK, WorkOK, CtxType
  <2>2. Goto("extras", obj, objFresh, c)
    BY <1>3
  <2> HIDE DEF c
  <2>3. WorkInv'
    BY <2>1, <2>2, GotoTyped DEF TypeInv, WorkInv, WorkOK, Handlers
  <2> QED BY <1>3, <2>3 DEF StepInv, TypeInv, TypeOK, ApiOK, SeenOK, IsCluster
<1> QED BY <1>1, <1>2, <1>3 DEF deleteExtraJobs

(* waitForMigrations goes on with the object in hand.                      *)
LEMMA WaitTyped ==
    ASSUME TypeInv, waitForMigrations
    PROVE  StepInv'
<1> DEFINE o == [obj EXCEPT !.status.migrating = "false"]
<1>1. o \in ClusterType /\ o.status.version = obj.status.version
  <2>1. o.status = [obj.status EXCEPT !.migrating = "false"]
    BY ObjTyped DEF TypeInv, WorkInv, WorkOK, ClusterType
  <2>2. [obj.status EXCEPT !.migrating = "false"] \in StatusType
    BY ObjTyped DEF TypeInv, WorkInv, StatusType
  <2> QED BY <2>1, <2>2, ObjTyped DEF TypeInv, WorkInv, WorkOK, ClusterType, StatusType
<1>2. \/ Goto("selfpause", o, objFresh, ctx)
      \/ Continue("deploy") \/ Continue("requeue")
  BY DEF waitForMigrations
<1> HIDE DEF o
<1>3. IsCluster(o)
  BY <1>1 DEF TypeInv, WorkInv, IsCluster
<1>4. WorkInv'
  BY <1>2, <1>3, GotoTyped, ContinueTyped DEF TypeInv, WorkInv, WorkOK, Handlers, Ends
<1> QED BY <1>4, NoCallTyped DEF waitForMigrations

(* What applying a copy makes of a spec is a spec, and skips migrations    *)
(* only if one of the two does.                                            *)
LEMMA AppliedTyped ==
    ASSUME NEW copy \in SpecType, NEW old \in SpecType, NEW spec \in Applied(copy, old)
    PROVE  spec \in SpecType /\ (spec.skip => copy.skip \/ old.skip)
<1>1. CASE copy = old
  BY <1>1 DEF Applied
<1>2. CASE copy # old
  <2>1. /\ {copy.conf, old.conf} \subseteq Str
        /\ {copy.skip, copy.skip \/ old.skip} \subseteq BOOLEAN
        /\ AppliedField(copy.image, old.image) \subseteq Str
        /\ AppliedField(copy.version, old.version) \subseteq Str
        /\ AppliedField(copy.channel, old.channel) \subseteq Str
    BY DEF AppliedField, SpecType
  <2>2. spec \in [valid : BOOLEAN, conf : {copy.conf, old.conf},
                  skip : {copy.skip, copy.skip \/ old.skip},
                  image : AppliedField(copy.image, old.image),
                  version : AppliedField(copy.version, old.version),
                  channel : AppliedField(copy.channel, old.channel)]
    BY <1>2 DEF Applied
  <2>3. spec \in SpecType
    BY <2>1, <2>2 DEF SpecType
  <2>4. spec.skip \in {copy.skip, copy.skip \/ old.skip}
    BY <2>2
  <2> QED BY <2>3, <2>4
<1> QED BY <1>1, <1>2

(* Patch applies the spec in hand and may raise the generation.            *)
LEMMA LabelTyped ==
    ASSUME TypeInv, Patch
    PROVE  StepInv'
<1>1. CASE CallFails
  BY <1>1, CallFailsTyped
<1>2. CASE ~CallFails
  <2>1. WorkInv' /\ UNCHANGED <<secret, adopted, jobs, pods, dep, left>>
    BY <1>2, ContinueTyped DEF Patch, TypeInv, Ends
  <2>2. cacheFresh' \in BOOLEAN
    BY <1>2 DEF Patch
  <2>3. cluster' \in ClusterType /\ cluster'.status = cluster.status
    <3>1. cluster.gen \in Nat /\ cluster.gen + 1 \in Nat
      BY SMT DEF TypeInv, TypeOK, ApiOK, ClusterType
    <3>2. PICK spec \in Applied(obj.spec, cluster.spec), g \in Nat :
              cluster' = [cluster EXCEPT !.paused = TRUE, !.spec = spec, !.gen = g]
      BY <1>2, <3>1 DEF Patch
    <3>3. obj.spec \in SpecType /\ cluster.spec \in SpecType
      BY DEF TypeInv, WorkInv, TypeOK, ApiOK, WorkOK, ClusterType
    <3>4. spec \in SpecType
      BY <3>3, AppliedTyped
    <3> QED BY <3>2, <3>4 DEF TypeInv, TypeOK, ApiOK, ClusterType
  <2> QED BY <2>1, <2>2, <2>3 DEF StepInv, TypeInv, TypeOK, ApiOK, IsCluster
<1> QED BY <1>1, <1>2

(* The deployment applied is that of the config in hand.                   *)
LEMMA ApplyTyped ==
    ASSUME TypeInv, applyDeployment
    PROVE  StepInv'
<1> DEFINE new == Deployment(obj, ctx.secret)
           next == IF obj.status.error = "apply" THEN "clear" ELSE "requeue"
<1>1. new \in DepType
  BY DeploymentTyped DEF TypeInv, WorkInv
<1> HIDE DEF new
<1>2. CASE Continue("rollout") /\ NoCall
  BY <1>2, StayTyped DEF Handlers
<1>3. CASE /\ dep' = IF dep.exists /\ Template(dep) = Template(new)
                     THEN [dep EXCEPT !.annotation = new.annotation]
                     ELSE new
           /\ Continue(next)
           /\ UNCHANGED <<cluster, secret, adopted, jobs, pods, cacheFresh, left>>
  <2>1. [dep EXCEPT !.annotation = new.annotation] \in DepType
    BY <1>1 DEF TypeInv, TypeOK, ApiOK, DepType
  <2>2. dep' \in DepType
    BY <1>1, <1>3, <2>1
  <2>3. next \in Handlers \cup Ends
    BY DEF Handlers, Ends
  <2> HIDE DEF next
  <2>4. WorkInv'
    BY <1>3, <2>3, ContinueTyped DEF TypeInv
  <2> QED BY <1>3, <2>2, <2>4 DEF StepInv, TypeInv, TypeOK, ApiOK, SeenOK, IsCluster
<1>4. CASE /\ left.faults > 0
           /\ left' = [left EXCEPT !.faults = @ - 1]
           /\ Continue("report")
           /\ UNCHANGED <<api, cacheFresh>>
  <2>1. WorkInv'
    BY <1>4, ContinueTyped DEF TypeInv, Handlers
  <2>2. left' \in LeftType
    BY <1>4, SMT DEF TypeInv, TypeOK, LeftType
  <2> QED BY <1>4, <2>1, <2>2 DEF StepInv, TypeInv, TypeOK, ApiOK, SeenOK, IsCluster, api
<1> QED BY <1>2, <1>3, <1>4 DEF applyDeployment, new

(* cleanupJob deletes a job and lists the rest.                            *)
LEMMA CleanupTyped ==
    ASSUME TypeInv, cleanupJob
    PROVE  StepInv'
<1> DEFINE c == [ctx EXCEPT !.jobs = seenJobs, !.pods = seenPods]
<1>1. c \in CtxType
  BY DEF TypeInv, TypeOK, WorkOK, SeenOK, CtxType
<1>2. \/ (Continue("done") \/ Continue("requeue")) /\ NoCall
      \/ CallFails
      \/ /\ Goto("pods", obj, objFresh, c)
         /\ jobs' \subseteq jobs
         /\ UNCHANGED <<cluster, secret, adopted, pods, dep, cacheFresh, left>>
  BY DEF cleanupJob, NoCall, api
<1> HIDE DEF c
<1>3. CASE <1>2!1
  BY <1>3, StayTyped DEF Ends
<1>4. CASE CallFails
  BY <1>4, CallFailsTyped
<1>5. CASE <1>2!3
  <2>1. WorkInv'
    BY <1>1, <1>5, GotoTyped DEF TypeInv, WorkInv, WorkOK, Handlers
  <2> QED BY <1>5, <2>1 DEF StepInv, TypeInv, TypeOK, ApiOK, SeenOK, IsCluster
<1> QED BY <1>2, <1>3, <1>4, <1>5

(* Deleting the pods keeps the types.                                      *)
LEMMA PodsTyped ==
    ASSUME TypeInv, cleanupPods
    PROVE  StepInv'
<1>1. CASE (Continue("done") \/ Continue("requeue")) /\ NoCall
  BY <1>1, StayTyped DEF Ends
<1>2. CASE CallFails
  BY <1>2, CallFailsTyped
<1>3. ASSUME NEW pod \in ctx.pods,
             pods' = pods \ {pod},
             Goto("pods", obj, objFresh, [ctx EXCEPT !.pods = @ \ {pod}]),
             UNCHANGED <<cluster, secret, adopted, jobs, dep, cacheFresh, left>>
      PROVE  StepInv'
  <2> DEFINE c == [ctx EXCEPT !.pods = @ \ {pod}]
  <2>1. c \in CtxType
    BY DEF TypeInv, TypeOK, WorkOK, CtxType
  <2>2. Goto("pods", obj, objFresh, c)
    BY <1>3
  <2> HIDE DEF c
  <2>3. WorkInv'
    BY <2>1, <2>2, GotoTyped DEF TypeInv, WorkInv, WorkOK, Handlers
  <2> QED BY <1>3, <2>3 DEF StepInv, TypeInv, TypeOK, ApiOK, SeenOK, IsCluster
<1> QED BY <1>1, <1>2, <1>3 DEF cleanupPods

(* A step of the reconcile loop keeps the types.                           *)
LEMMA ReconcileTyped ==
    ASSUME TypeInv, Reconcile
    PROVE  TypeInv'
<1>1. StepInv'
  BY StartTyped, PauseTyped, SpecTyped, AdopterTyped, MissingTyped, CollectTyped, ChangedTyped,
     ConfigStepTyped, CheckTyped, ConditionsTyped, ApplyJobTyped, ExtrasTyped, WaitTyped, LabelTyped, ApplyTyped,
     CleanupTyped, PodsTyped
  DEF Reconcile
<1>2. ASSUME ~secretAdopter PROVE UNCHANGED <<cache, seen, migrated>>
  BY <1>2 DEF Reconcile, syncOwnedResource, pauseCluster, validateSpec, reportMissingSecret,
         collectSecrets, checkConfigChanged, validateConfig, checkMigrations, runMigration, applyJob,
         deleteExtraJobs, waitForMigrations, selfPauseCluster, Patch, ensureDeployment,
         applyDeployment, reportApplyFailed, clearApplyFailed, waitForRollout, cleanupJob,
         cleanupPods
<1>3. CASE secretAdopter
  <2>1. UNCHANGED <<cache, seenSecret, seenJobs, seenPods, seenDep, migrated>>
    BY <1>3 DEF secretAdopter
  <2>2. secretFresh' = secretFresh \/ secretFresh' = (secretFresh /\ adopted)
    BY <1>3 DEF secretAdopter
  <2>3. secretFresh' \in BOOLEAN
    BY <2>2 DEF TypeInv, TypeOK, SeenOK
  <2> QED BY <1>1, <2>1, <2>3, HandlerTyped
<1>4. CASE ~secretAdopter
  <2>1. UNCHANGED <<cache, seenSecret, secretFresh, seenJobs, seenPods, seenDep, migrated>>
    BY <1>2, <1>4 DEF seen
  <2> QED BY <1>1, <2>1, HandlerTyped DEF TypeInv, TypeOK, SeenOK
<1> QED BY <1>3, <1>4

(* The types hold initially.                                               *)
LEMMA InitTyped == Init => TypeInv
<1> SUFFICES ASSUME Init PROVE TypeInv
  OBVIOUS
<1>1. cluster \in ClusterType /\ cluster.status = NoStatus
  <2>1. PICK spec \in Specs :
            cluster = [gen |-> 1, spec |-> spec, paused |-> FALSE, status |-> NoStatus]
    BY DEF Init
  <2> QED BY <2>1, ConstantsAssumption, NoStatusTyped DEF ClusterType
<1>2. Marked(NoStatus.version)
  BY DEF Marked, NoStatus
<1>3. secret \in Str /\ seenSecret \in Str
  BY ConstantsAssumption DEF Init, Str
<1>4. left \in LeftType
  BY ConstantsAssumption DEF Init, LeftType
<1>5. WorkOK
  BY NoClusterTyped, NoCtxTyped DEF Init, WorkOK, Handlers
<1>6. IsCluster(cluster) /\ IsCluster(cache) /\ IsCluster(obj)
  BY <1>1, <1>2, NoClusterMarked DEF Init, IsCluster
<1> QED BY <1>1, <1>3, <1>4, <1>5, <1>6, NoDepTyped
        DEF Init, TypeInv, TypeOK, WorkInv, ApiOK, SeenOK, IsCluster

(* A step of the environment keeps the types.                              *)
LEMMA EnvironmentTyped ==
    ASSUME TypeInv, Environment
    PROVE  TypeInv'
<1> USE DEF TypeInv, TypeOK, ApiOK, SeenOK
<1>0. ASSUME UNCHANGED work
      PROVE  WorkInv'
  BY <1>0 DEF work, WorkInv, WorkOK, IsCluster
<1>1. CASE DeliverCluster
  BY <1>1 DEF DeliverCluster, WorkInv, WorkOK, IsCluster, api, seen
<1>2. Watched \in Str
  BY DEF Watched, Str
<1>3. CASE syncExternalResource
  <2>1. WorkInv' /\ ApiOK' /\ IsCluster(cluster)' /\ IsCluster(cache)'
    BY <1>3 DEF syncExternalResource, WorkInv, WorkOK, IsCluster, api
  <2>2. SeenOK' /\ left' \in LeftType /\ migrated' \in SUBSET HashType
    BY <1>2, <1>3 DEF syncExternalResource, api
  <2> QED BY <2>1, <2>2 DEF WorkInv
<1>15. CASE DeliverJobs \/ DeliverPods \/ DeliverDeployment
  <2>1. WorkInv'
    BY <1>0, <1>15 DEF DeliverJobs, DeliverPods, DeliverDeployment
  <2>2. ApiOK' /\ IsCluster(cluster)' /\ IsCluster(cache)'
    BY <1>15 DEF DeliverJobs, DeliverPods, DeliverDeployment, IsCluster, api
  <2>3. SeenOK' /\ left' \in LeftType /\ migrated' \in SUBSET HashType
    BY <1>15 DEF DeliverJobs, DeliverPods, DeliverDeployment
  <2> QED BY <2>1, <2>2, <2>3 DEF WorkInv
<1>4. CASE Restart
  <2>1. WorkInv'
    BY <1>4, ContinueTyped DEF Restart, Ends
  <2>2. left' \in LeftType
    BY <1>4, SMT DEF Restart, LeftType
  <2>3. /\ ApiOK' /\ SeenOK' /\ IsCluster(cluster)' /\ IsCluster(cache)'
        /\ migrated' \in SUBSET HashType
    BY <1>2, <1>4 DEF Restart, api, IsCluster
  <2> QED BY <2>1, <2>2, <2>3 DEF WorkInv
<1>5. ASSUME Edit, objFresh' \in BOOLEAN
      PROVE  /\ WorkInv' /\ left' \in LeftType /\ migrated' \in SUBSET HashType
             /\ IsCluster(cache)'
             /\ seenSecret' \in Str /\ seenJobs' \in SUBSET JobType
             /\ seenPods' \in SUBSET HashType /\ seenDep' \in DepType
  BY <1>5, SMT DEF Edit, LeftType, IsCluster, WorkInv, WorkOK
<1>6. CASE EditSpec
  <2>0. PICK spec \in Specs : cluster' = [cluster EXCEPT !.spec = spec, !.gen = @ + 1]
    BY <1>6 DEF EditSpec
  <2>1. cluster' \in ClusterType /\ cluster'.status = cluster.status
    <3>1. spec \in SpecType
      BY ConstantsAssumption
    <3>2. cluster \in ClusterType /\ cluster.gen + 1 \in Nat
      BY SMT DEF ClusterType
    <3> QED BY <2>0, <3>1, <3>2 DEF ClusterType
  <2> QED BY <1>5, <1>6, <2>1 DEF EditSpec, WorkInv, IsCluster
<1>7. CASE EditPauseLabel
  <2>1. cluster' \in ClusterType /\ cluster'.status = cluster.status
    BY <1>7 DEF EditPauseLabel, ClusterType
  <2> QED BY <1>5, <1>7, <2>1 DEF EditPauseLabel, WorkInv, IsCluster
<1>8. CASE EditSecret
  <2>1. secret' \in Str /\ adopted' \in BOOLEAN /\ secretFresh' \in BOOLEAN
    BY <1>8, ConstantsAssumption DEF EditSecret, Str
  <2> QED BY <1>5, <1>8, <2>1 DEF EditSecret, WorkInv, WorkOK, IsCluster
<1>9. CASE DeleteFailedJob
  <2>1. jobs' \in SUBSET JobType
    BY <1>9 DEF DeleteFailedJob
  <2> QED BY <1>5, <1>9, <2>1 DEF DeleteFailedJob, WorkInv, WorkOK, IsCluster
<1>10. CASE MigrationCompletes
  <2>1. jobs' \in SUBSET JobType /\ migrated' \in SUBSET HashType
    BY <1>10 DEF MigrationCompletes, JobType
  <2> QED BY <1>0, <1>10, <2>1 DEF MigrationCompletes, WorkInv, IsCluster, seen
<1>11. CASE MigrationFails
  <2>1. jobs' \in SUBSET JobType /\ left' \in LeftType
    BY <1>11, SMT DEF MigrationFails, JobType, LeftType
  <2> QED BY <1>0, <1>11, <2>1 DEF MigrationFails, WorkInv, IsCluster, seen
<1>12. CASE PodCollected
  <2>1. pods' \in SUBSET HashType
    BY <1>12 DEF PodCollected
  <2> QED BY <1>0, <1>12, <2>1 DEF PodCollected, WorkInv, IsCluster, seen
<1>13. CASE RolloutCompletes
  <2>1. dep' \in DepType
    BY <1>13 DEF RolloutCompletes, DepType
  <2> QED BY <1>0, <1>13, <2>1 DEF RolloutCompletes, WorkInv, IsCluster, seen
<1>14. CASE PodCrashes
  <2>1. dep' \in DepType
    BY <1>14 DEF PodCrashes, DepType
  <2>2. left' \in LeftType
    BY <1>14, SMT DEF PodCrashes, LeftType
  <2> QED BY <1>0, <1>14, <2>1, <2>2 DEF PodCrashes, WorkInv, IsCluster, seen
<1> QED BY <1>1, <1>3, <1>4, <1>6, <1>7, <1>8, <1>9, <1>10, <1>11, <1>12, <1>13, <1>14,
        <1>15
        DEF Environment, Deliver

(* The types hold always, with every version marked.                       *)
LEMMA TypeInvariant == Spec => []TypeInv
<1>1. TypeInv /\ [Next]_vars => TypeInv'
  <2> SUFFICES ASSUME TypeInv, [Next]_vars PROVE TypeInv'
    OBVIOUS
  <2>1. CASE Reconcile
    BY <2>1, ReconcileTyped
  <2>2. CASE Environment
    BY <2>2, EnvironmentTyped
  <2>3. CASE UNCHANGED vars
    BY <2>3 DEF vars, api, seen, work, TypeInv, TypeOK, ApiOK, SeenOK, WorkOK, WorkInv, IsCluster
  <2> QED BY <2>1, <2>2, <2>3 DEF Next
<1> QED BY <1>1, InitTyped, PTL DEF Spec

(* Every reachable state of the reconcile loop has the stated types: the   *)
(* handler is one of the chain, the status and hashes are well formed.     *)
THEOREM ControllerTyped == Spec => []TypeOK
<1>1. TypeInv => TypeOK
  BY DEF TypeInv
<1> QED BY <1>1, TypeInvariant, PTL

----------------------------------------------------------------------------
(* The schema of the deployment *)

(* Why the schema is there: a job that completed, in the API or in any     *)
(* copy of it, is one whose migration happened; so is the migration of a   *)
(* deployment, in the API or in a copy; and a reconcile gets to deploy     *)
(* only past the one or the other.  No target hash is the annotation of    *)
(* skipped migrations, as a valid config has a datastore URI.              *)
JobMigrated(j) == j.phase = "complete" => j.hash \in migrated

DepMigrated(d) ==
    d.exists /\ d.annotation # Skipped /\ Engine # "memory"
        => d.annotation \in migrated /\ d.state = d.annotation.state

Deploying ==
    /\ pc = "migrations" /\ Engine # "memory" => obj.status.target.uri # ""
    /\ pc \in {"deploy", "apply"} /\ ~obj.spec.skip /\ Engine # "memory"
          => obj.status.target \in migrated

SchemaInv ==
    /\ \A j \in jobs \cup seenJobs \cup ctx.jobs : JobMigrated(j)
    /\ DepMigrated(dep) /\ DepMigrated(seenDep) /\ DepMigrated(ctx.dep)
    /\ Deploying

(* What a step may do without disturbing the invariant.                    *)
LEMMA SchemaKept ==
    ASSUME SchemaInv, UNCHANGED <<seenJobs, seenDep, migrated>>,
           \A j \in jobs' : j \in jobs \/ j.phase = "running",
           ctx'.jobs \subseteq ctx.jobs \cup seenJobs,
           ctx'.dep \in {ctx.dep, seenDep, NoDep},
           dep' = dep \/ DepMigrated(dep)',
           Deploying'
    PROVE  SchemaInv'
<1>1. DepMigrated(NoDep)
  BY DEF DepMigrated, NoDep
<1>2. DepMigrated(dep)' /\ DepMigrated(seenDep)' /\ DepMigrated(ctx.dep)'
  BY <1>1 DEF SchemaInv, DepMigrated
<1>3. \A j \in jobs' \cup seenJobs' \cup ctx'.jobs : JobMigrated(j)'
  BY DEF SchemaInv, JobMigrated
<1> QED BY <1>2, <1>3 DEF SchemaInv

(* A step that neither creates a job nor deploys, and that goes to none of *)
(* the handlers that the invariant is about.                               *)
Elsewhere == (Handlers \cup Ends) \ {"migrations", "deploy", "apply"}

(* Such a step says nothing about deploying.                               *)
LEMMA GotoElsewhere ==
    ASSUME NEW next \in Elsewhere, NEW o, NEW fresh, NEW c \in CtxType,
           Goto(next, o, fresh, c)
    PROVE  /\ Deploying'
           /\ ctx' \in {c, NoCtx}
<1>1. pc' \notin {"migrations", "deploy", "apply"} /\ ctx' \in {c, NoCtx}
  BY DEF Goto, Elsewhere, Ends
<1> QED BY <1>1 DEF Deploying

(* A failing call ends the reconcile.                                      *)
LEMMA CallFailsElsewhere ==
    ASSUME TypeInv, CallFails
    PROVE  Deploying' /\ ctx' \in {ctx, NoCtx} /\ UNCHANGED <<jobs, dep>>
BY GotoElsewhere DEF CallFails, Continue, TypeInv, TypeOK, WorkOK, Elsewhere, Ends, api

(* PatchStatus on the way to such a handler touches no job and no          *)
(* deployment.                                                             *)
LEMMA PatchElsewhere ==
    ASSUME TypeInv, NEW status, NEW generation, NEW versioned, NEW next \in Elsewhere,
           PatchStatus(status, generation, versioned, next)
    PROVE  Deploying' /\ ctx' \in {ctx, NoCtx} /\ UNCHANGED <<jobs, dep>>
<1> DEFINE o == [obj EXCEPT !.status = [status EXCEPT !.observed = generation]]
           fresh == objFresh /\ [status EXCEPT !.observed = generation] = cluster.status
<1>1. CASE Goto(next, o, fresh, ctx) /\ UNCHANGED <<jobs, dep>>
  <2> HIDE DEF o, fresh
  <2> QED BY <1>1, GotoElsewhere DEF TypeInv, TypeOK, WorkOK
<1>2. CASE Continue("requeue") /\ UNCHANGED api
  BY <1>2, GotoElsewhere DEF Continue, TypeInv, TypeOK, WorkOK, Elsewhere, Ends, api
<1>3. CASE CallFails
  BY <1>3, CallFailsElsewhere
<1> QED BY <1>1, <1>2, <1>3 DEF PatchStatus

(* Nor does going on without a call.                                       *)
LEMMA StayElsewhere ==
    ASSUME TypeInv, NEW next \in Elsewhere, Continue(next), NoCall
    PROVE  Deploying' /\ ctx' \in {ctx, NoCtx} /\ UNCHANGED <<jobs, dep>>
BY GotoElsewhere DEF Continue, TypeInv, TypeOK, WorkOK, NoCall, api

(* Nor does reporting an invalid spec or config.                           *)
LEMMA RejectElsewhere ==
    ASSUME TypeInv, NEW failed, Reject(failed)
    PROVE  Deploying' /\ ctx' \in {ctx, NoCtx} /\ UNCHANGED <<jobs, dep>>
<1> DEFINE status == [obj.status EXCEPT !.validating = FALSE, !.failed = failed]
<1>1. (Continue("done") /\ NoCall) \/ PatchStatus(status, obj.gen, TRUE, "done")
  BY DEF Reject
<1> HIDE DEF status
<1>2. "done" \in Elsewhere
  BY DEF Elsewhere, Ends
<1> QED BY <1>1, <1>2, StayElsewhere, PatchElsewhere

(* Leaving for elsewhere keeps the invariant.                              *)
LEMMA LeavesSchema ==
    ASSUME SchemaInv, UNCHANGED <<seenJobs, seenDep, migrated>>,
           Deploying', ctx' \in {ctx, NoCtx}, UNCHANGED <<jobs, dep>>
    PROVE  SchemaInv'
<1>1. ctx'.jobs \subseteq ctx.jobs /\ ctx'.dep \in {ctx.dep, NoDep}
  <2>1. CASE ctx' = ctx
    BY <2>1
  <2>2. CASE ctx' = NoCtx
    BY <2>2 DEF NoCtx
  <2> QED BY <2>1, <2>2
<1>2. \A j \in jobs' : j \in jobs \/ j.phase = "running"
  OBVIOUS
<1> QED BY <1>1, <1>2, SchemaKept

(* The handlers that neither touch jobs or deployments nor lead to them.   *)
LEMMA ElsewhereSchema ==
    ASSUME TypeInv, SchemaInv,
           \/ pauseCluster \/ validateSpec \/ checkConfigChanged \/ runMigration
           \/ selfPauseCluster \/ reportApplyFailed \/ clearApplyFailed \/ waitForRollout
    PROVE  SchemaInv'
<1> DEFINE Nexts == {"done", "spec", "adopt", "config", "job", "label", "requeue", "cleanup"}
<1>1. Nexts \subseteq Elsewhere
  BY DEF Elsewhere, Handlers, Ends
<1>2. \/ \E next \in Nexts : Continue(next) /\ NoCall
      \/ \E next \in Nexts : \E status, versioned : PatchStatus(status, obj.gen, versioned, next)
      \/ \E failed : Reject(failed)
  <2>1. ASSUME pauseCluster PROVE <1>2
    BY <2>1 DEF pauseCluster
  <2>2. ASSUME validateSpec PROVE <1>2
    BY <2>2 DEF validateSpec
  <2>3. ASSUME checkConfigChanged PROVE <1>2
    BY <2>3 DEF checkConfigChanged
  <2>4. ASSUME runMigration PROVE <1>2!2
    BY <2>4 DEF runMigration
  <2>5. ASSUME selfPauseCluster PROVE <1>2!2
    BY <2>5 DEF selfPauseCluster
  <2>6. ASSUME reportApplyFailed PROVE <1>2!2
    BY <2>6 DEF reportApplyFailed
  <2>7. ASSUME clearApplyFailed PROVE <1>2!2
    BY <2>7 DEF clearApplyFailed
  <2>8. ASSUME waitForRollout PROVE <1>2
    BY <2>8 DEF waitForRollout
  <2> QED BY <2>1, <2>2, <2>3, <2>4, <2>5, <2>6, <2>7, <2>8
<1> HIDE DEF Nexts
<1>3. Deploying' /\ ctx' \in {ctx, NoCtx} /\ UNCHANGED <<jobs, dep>>
  BY <1>1, <1>2, StayElsewhere, PatchElsewhere, RejectElsewhere
<1>4. UNCHANGED <<seen, migrated>>
  BY DEF pauseCluster, validateSpec, checkConfigChanged, runMigration, selfPauseCluster,
         reportApplyFailed, clearApplyFailed, waitForRollout
<1> QED BY <1>3, <1>4, LeavesSchema DEF seen

(* A reconcile starts with an empty context.                               *)
LEMMA StartSchema ==
    ASSUME TypeInv, SchemaInv, syncOwnedResource
    PROVE  SchemaInv'
<1>1. Deploying'
  BY DEF syncOwnedResource, Deploying
<1> QED BY <1>1, LeavesSchema DEF syncOwnedResource, NoCall, api, seen

(* Adopting and collecting the secret leave jobs and deployments alone.    *)
LEMMA AdopterSchema ==
    ASSUME TypeInv, SchemaInv, secretAdopter \/ reportMissingSecret \/ collectSecrets
    PROVE  SchemaInv'
<1> DEFINE missing == [obj.status EXCEPT !.missing = TRUE]
<1>1. {"collect", "missing", "changed", "requeue"} \subseteq Elsewhere
  BY DEF Elsewhere, Handlers, Ends
<1>2. CASE secretAdopter
  <2>1. \/ (Continue("collect") \/ Continue("missing")) /\ UNCHANGED <<jobs, dep>>
        \/ CallFails
    BY <1>2 DEF secretAdopter, NoCall, api
  <2>2. Deploying' /\ ctx' \in {ctx, NoCtx} /\ UNCHANGED <<jobs, dep>>
    BY <1>1, <2>1, GotoElsewhere, CallFailsElsewhere DEF Continue, TypeInv, TypeOK, WorkOK
  <2> QED BY <1>2, <2>2, LeavesSchema DEF secretAdopter
<1>3. CASE reportMissingSecret
  <2>1. PatchStatus(missing, 0, FALSE, "requeue")
    BY <1>3 DEF reportMissingSecret
  <2> HIDE DEF missing
  <2>2. Deploying' /\ ctx' \in {ctx, NoCtx} /\ UNCHANGED <<jobs, dep>>
    BY <1>1, <2>1, PatchElsewhere
  <2> QED BY <1>3, <2>2, LeavesSchema DEF reportMissingSecret, seen
<1>4. CASE collectSecrets
  <2> DEFINE c == [ctx EXCEPT !.secret = seenSecret]
  <2>1. c \in CtxType /\ c.jobs = ctx.jobs /\ c.dep = ctx.dep
    BY DEF TypeInv, TypeOK, WorkOK, SeenOK, CtxType
  <2>2. Goto("changed", obj, objFresh, c)
    BY <1>4 DEF collectSecrets
  <2> HIDE DEF c
  <2>3. Deploying' /\ ctx' = c
    BY <1>1, <2>1, <2>2, GotoElsewhere DEF Goto
  <2> QED BY <1>4, <2>1, <2>3, SchemaKept DEF collectSecrets, NoCall, api, seen
<1> QED BY <1>2, <1>3, <1>4

(* A valid config has a datastore URI, and the target hash carries it.     *)
LEMMA ConfigSchema ==
    ASSUME TypeInv, SchemaInv, validateConfig
    PROVE  SchemaInv'
<1> DEFINE target == TargetOf(obj)
           errs == ConfigErrors(obj, ctx.secret, target)
           hash == MigrationConfig(obj, ctx.secret, target)
           computed == [obj.status EXCEPT !.observed = obj.gen, !.target = hash,
                                          !.version = target.target,
                                          !.validating = FALSE, !.failed = NoFailure]
           new == [computed EXCEPT !.observed = obj.gen]
           fresh == objFresh /\ new = cluster.status
<1>1. CASE Reject(InvalidConfig(ctx.secret, errs))
  <2> HIDE DEF errs
  <2> QED BY <1>1, RejectElsewhere, LeavesSchema DEF validateConfig, seen
<1>2. Engine # "memory" => hash.uri = ctx.secret
  BY DEF MigrationConfig
<1>3. errs = {} => ctx.secret # ""
  BY DEF ConfigErrors
<1>4. computed.target = hash /\ new.target = hash
  BY ObjTyped DEF TypeInv, WorkInv, StatusType
<1>5. CASE errs = {} /\ Equals(obj.status, computed) /\ Continue("migrations") /\ NoCall
  <2>1. obj.status.target = hash
    BY <1>4, <1>5 DEF Equals
  <2>2. pc' = "migrations" /\ obj' = obj /\ ctx' = ctx /\ UNCHANGED <<jobs, dep>>
    BY <1>5 DEF Continue, Goto, NoCall, api
  <2>3. Deploying'
    BY <1>2, <1>3, <1>5, <2>1, <2>2 DEF Deploying
  <2> QED BY <2>2, <2>3, LeavesSchema DEF validateConfig, seen
<1>6. CASE errs = {} /\ PatchStatus(computed, obj.gen, TRUE, "migrations")
  <2>1. \/ Goto("migrations", [obj EXCEPT !.status = new], fresh, ctx) /\ UNCHANGED <<jobs, dep>>
        \/ Continue("requeue") /\ NoCall
        \/ CallFails
    BY <1>6 DEF PatchStatus, NoCall
  <2>2. CASE Goto("migrations", [obj EXCEPT !.status = new], fresh, ctx) /\ UNCHANGED <<jobs, dep>>
    <3>1. [obj EXCEPT !.status = new].status = new
      BY DEF TypeInv, TypeOK, WorkOK, ClusterType
    <3> HIDE DEF new, fresh
    <3>2. pc' = "migrations" /\ obj'.status = new /\ ctx' = ctx
      BY <2>2, <3>1 DEF Goto
    <3>3. Deploying'
      BY <1>2, <1>3, <1>4, <1>6, <3>2 DEF Deploying
    <3> QED BY <2>2, <3>2, <3>3, LeavesSchema DEF validateConfig, seen
  <2>3. CASE (Continue("requeue") /\ NoCall) \/ CallFails
    <3>1. Deploying' /\ ctx' \in {ctx, NoCtx} /\ UNCHANGED <<jobs, dep>>
      BY <2>3, StayElsewhere, CallFailsElsewhere DEF Elsewhere, Ends
    <3> QED BY <3>1, LeavesSchema DEF validateConfig, seen
  <2> QED BY <2>1, <2>2, <2>3
<1> QED BY <1>1, <1>5, <1>6 DEF validateConfig

(* checkMigrations goes on to deploy only if migrations are off, or if the *)
(* deployment it has read carries the target hash.  Every version carries  *)
(* the migration attribute, so the graph never turns migrations off.       *)
LEMMA CheckSchema ==
    ASSUME TypeInv, SchemaInv, checkMigrations
    PROVE  SchemaInv'
<1> DEFINE c == [ctx EXCEPT !.dep = seenDep, !.jobs = seenJobs]
           next == AfterCheck(obj, seenDep, seenJobs)
<1>1. CASE CallFails
  BY <1>1, CallFailsElsewhere, LeavesSchema DEF checkMigrations, seen
<1>2. CASE Goto(next, obj, objFresh, c) /\ NoCall
  <2>1. c.jobs = seenJobs /\ c.dep = seenDep
    BY DEF TypeInv, TypeOK, WorkOK, CtxType
  <2>2. next \in {"deploy", "wait", "run"}
    BY DEF AfterCheck
  <2>3. next = "deploy" /\ ~obj.spec.skip /\ Engine # "memory" => obj.status.target \in migrated
    <3> SUFFICES ASSUME next = "deploy", ~obj.spec.skip, Engine # "memory"
                 PROVE  obj.status.target \in migrated
      OBVIOUS
    <3>1. ~NoMigrations(obj)
      BY DEF NoMigrations, TypeInv, WorkInv, IsCluster, Marked
    <3>2. seenDep.exists /\ seenDep.annotation = obj.status.target
      BY <3>1 DEF AfterCheck
    <3>3. obj.status.target.uri # "" /\ Skipped.uri = ""
      BY DEF SchemaInv, Deploying, checkMigrations, Skipped, NoHash
    <3> QED BY <3>2, <3>3 DEF SchemaInv, DepMigrated
  <2> HIDE DEF c, next
  <2>4. pc' = next /\ obj' = obj /\ ctx' = c /\ UNCHANGED <<jobs, dep>>
    BY <1>2, <2>2 DEF Goto, NoCall, api
  <2>5. UNCHANGED <<seenJobs, seenDep, migrated>>
    BY DEF checkMigrations, seen
  <2>6. Deploying'
    BY <2>2, <2>3, <2>4, <2>5 DEF Deploying
  <2> QED BY <2>1, <2>4, <2>5, <2>6, SchemaKept
<1> QED BY <1>1, <1>2 DEF checkMigrations

(* A job is created running, so nothing is claimed of it.                  *)
LEMMA ApplyJobSchema ==
    ASSUME TypeInv, SchemaInv, applyJob
    PROVE  SchemaInv'
<1>1. CASE CallFails
  BY <1>1, CallFailsElsewhere, LeavesSchema DEF applyJob, seen
<1>2. CASE ~CallFails
  <2>1. Continue("extras") /\ UNCHANGED dep
    BY <1>2 DEF applyJob
  <2>2. Deploying' /\ ctx' = ctx
    BY <2>1 DEF Continue, Goto, Deploying
  <2>3. \A j \in jobs' : j \in jobs \/ j.phase = "running"
    BY <1>2, SMT DEF applyJob, MigrationJob
  <2> QED BY <2>1, <2>2, <2>3, SchemaKept DEF applyJob, seen
<1> QED BY <1>1, <1>2

(* Deleting the other jobs leaves fewer to speak of.                       *)
LEMMA ExtrasSchema ==
    ASSUME TypeInv, SchemaInv, deleteExtraJobs
    PROVE  SchemaInv'
<1>1. CASE (Continue("requeue") /\ NoCall) \/ CallFails
  <2>1. Deploying' /\ ctx' \in {ctx, NoCtx} /\ UNCHANGED <<jobs, dep>>
    BY <1>1, StayElsewhere, CallFailsElsewhere DEF Elsewhere, Ends
  <2> QED BY <2>1, LeavesSchema DEF deleteExtraJobs, seen
<1>2. ASSUME NEW extra \in ctx.jobs,
             jobs' = {j \in jobs : j.hash # extra.hash},
             Goto("extras", obj, objFresh, [ctx EXCEPT !.jobs = @ \ {extra}]),
             UNCHANGED dep
      PROVE  SchemaInv'
  <2>1. Deploying' /\ ctx' = [ctx EXCEPT !.jobs = @ \ {extra}]
    BY <1>2 DEF Goto, Deploying
  <2>2. ctx'.jobs \subseteq ctx.jobs /\ ctx'.dep = ctx.dep
    BY <2>1 DEF TypeInv, TypeOK, WorkOK, CtxType
  <2> QED BY <1>2, <2>1, <2>2, SchemaKept DEF deleteExtraJobs, seen
<1> QED BY <1>1, <1>2 DEF deleteExtraJobs

(* The job that waitForMigrations finds complete has migrated.             *)
LEMMA WaitSchema ==
    ASSUME TypeInv, SchemaInv, waitForMigrations
    PROVE  SchemaInv'
<1>1. PICK job \in ctx.jobs :
         /\ job.hash = obj.status.target
         /\ CASE job.phase = "failed" ->
                    Goto("selfpause", [obj EXCEPT !.status.migrating = "false"], objFresh, ctx)
              [] job.phase = "complete" -> Continue("deploy")
              [] OTHER -> Continue("requeue")
  BY DEF waitForMigrations
<1>2. UNCHANGED <<jobs, dep, seen, migrated>>
  BY DEF waitForMigrations, NoCall, api
<1>3. CASE job.phase = "complete"
  <2>1. pc' = "deploy" /\ obj' = obj /\ ctx' = ctx
    BY <1>1, <1>3 DEF Continue, Goto
  <2>2. obj.status.target \in migrated
    BY <1>1, <1>3 DEF SchemaInv, JobMigrated
  <2>3. Deploying'
    BY <1>2, <2>1, <2>2 DEF Deploying
  <2> QED BY <1>2, <2>1, <2>3, LeavesSchema DEF seen
<1>4. CASE job.phase # "complete"
  <2>1. pc' \in {"selfpause", "idle"} /\ ctx' \in {ctx, NoCtx}
    BY <1>1, <1>4 DEF Continue, Goto
  <2>2. Deploying'
    BY <2>1 DEF Deploying
  <2> QED BY <1>2, <2>1, <2>2, LeavesSchema DEF seen
<1> QED BY <1>3, <1>4

(* Pausing the cluster ends the reconcile.                                 *)
LEMMA LabelSchema ==
    ASSUME TypeInv, SchemaInv, Patch
    PROVE  SchemaInv'
<1>1. CASE CallFails
  BY <1>1, CallFailsElsewhere, LeavesSchema DEF Patch, seen
<1>2. CASE ~CallFails
  <2>1. Continue("done") /\ UNCHANGED <<jobs, dep>>
    BY <1>2 DEF Patch
  <2>2. Deploying' /\ ctx' = NoCtx
    BY <2>1 DEF Continue, Goto, Deploying
  <2> QED BY <2>1, <2>2, LeavesSchema DEF Patch, seen
<1> QED BY <1>1, <1>2

(* The status that ensureDeployment writes keeps the target hash.          *)
LEMMA EnsureSchema ==
    ASSUME TypeInv, SchemaInv, ensureDeployment
    PROVE  SchemaInv'
<1> DEFINE status == [obj.status EXCEPT !.migrating = "no", !.current = obj.status.target,
                                        !.rolling = TRUE]
           new == [status EXCEPT !.observed = obj.gen]
           fresh == objFresh /\ new = cluster.status
           o == [obj EXCEPT !.status = new]
<1>0. UNCHANGED <<seen, migrated>> /\ pc = "deploy"
  BY DEF ensureDeployment
<1>1. new.target = obj.status.target
  BY ObjTyped DEF TypeInv, WorkInv, StatusType
<1>2. \/ Continue("apply") /\ NoCall
      \/ PatchStatus(status, obj.gen, TRUE, "apply")
  BY DEF ensureDeployment
<1>3. CASE Continue("apply") /\ NoCall
  <2>1. pc' = "apply" /\ obj' = obj /\ ctx' = ctx /\ UNCHANGED <<jobs, dep>>
    BY <1>3 DEF Continue, Goto, NoCall, api
  <2>2. Deploying'
    BY <1>0, <2>1 DEF SchemaInv, Deploying
  <2> QED BY <1>0, <2>1, <2>2, LeavesSchema DEF seen
<1>4. CASE PatchStatus(status, obj.gen, TRUE, "apply")
  <2>1. \/ Goto("apply", o, fresh, ctx) /\ UNCHANGED <<jobs, dep>>
        \/ Continue("requeue") /\ NoCall
        \/ CallFails
    BY <1>4 DEF PatchStatus, NoCall
  <2>2. CASE Goto("apply", o, fresh, ctx) /\ UNCHANGED <<jobs, dep>>
    <3>1. o.status = new /\ o.spec = obj.spec
      BY DEF TypeInv, TypeOK, WorkOK, ClusterType
    <3> HIDE DEF o, new, fresh
    <3>2. pc' = "apply" /\ obj' = o /\ ctx' = ctx
      BY <2>2 DEF Goto
    <3>3. Deploying'
      BY <1>0, <1>1, <3>1, <3>2 DEF SchemaInv, Deploying
    <3> QED BY <1>0, <2>2, <3>2, <3>3, LeavesSchema DEF seen
  <2>3. CASE (Continue("requeue") /\ NoCall) \/ CallFails
    <3>1. Deploying' /\ ctx' \in {ctx, NoCtx} /\ UNCHANGED <<jobs, dep>>
      BY <2>3, StayElsewhere, CallFailsElsewhere DEF Elsewhere, Ends
    <3> QED BY <1>0, <3>1, LeavesSchema DEF seen
  <2> QED BY <2>1, <2>2, <2>3
<1> QED BY <1>2, <1>3, <1>4

(* The deployment is applied with a hash that has been migrated to, or     *)
(* with the annotation of skipped migrations.                              *)
LEMMA ApplySchema ==
    ASSUME TypeInv, SchemaInv, applyDeployment
    PROVE  SchemaInv'
<1> DEFINE new == Deployment(obj, ctx.secret)
           next == IF obj.status.error = "apply" THEN "clear" ELSE "requeue"
<1>0. UNCHANGED <<seenJobs, seenDep, seen, migrated>> /\ pc = "apply"
  BY DEF applyDeployment, seen
<1>1. CASE Continue("rollout") /\ NoCall
  <2>1. Deploying' /\ ctx' \in {ctx, NoCtx} /\ UNCHANGED <<jobs, dep>>
    BY <1>1, StayElsewhere DEF Elsewhere, Handlers
  <2> QED BY <1>0, <2>1, LeavesSchema
<1>2. CASE Continue("report") /\ UNCHANGED api
  <2>1. Deploying' /\ ctx' = ctx /\ UNCHANGED <<jobs, dep>>
    BY <1>2 DEF Continue, Goto, Deploying, api
  <2> QED BY <1>0, <2>1, LeavesSchema
<1>3. CASE /\ dep' = IF dep.exists /\ Template(dep) = Template(new)
                     THEN [dep EXCEPT !.annotation = new.annotation]
                     ELSE new
           /\ Continue(next)
           /\ UNCHANGED jobs
  <2>1. new.annotation # Skipped /\ Engine # "memory"
            => new.annotation \in migrated /\ new.state = new.annotation.state
    BY <1>0 DEF Deployment, SchemaInv, Deploying
  <2> HIDE DEF new
  <2>2. dep'.annotation = new.annotation /\ dep'.state = new.state
    <3>1. CASE dep' = new
      BY <3>1
    <3>2. CASE Template(dep) = Template(new) /\ dep' = [dep EXCEPT !.annotation = new.annotation]
      <4>1. dep.state = new.state
        BY <3>2 DEF Template
      <4> QED BY <3>2, <4>1 DEF TypeInv, TypeOK, ApiOK, DepType
    <3> QED BY <1>3, <3>1, <3>2
  <2>3. DepMigrated(dep)'
    BY <1>0, <2>1, <2>2 DEF DepMigrated
  <2>4. Deploying' /\ ctx' \in {ctx, NoCtx}
    <3>1. next \in Elsewhere
      BY DEF Elsewhere, Handlers, Ends
    <3> HIDE DEF next
    <3> QED BY <1>3, <3>1, GotoElsewhere DEF Continue, TypeInv, TypeOK, WorkOK
  <2>5. ctx'.jobs \subseteq ctx.jobs \cup seenJobs /\ ctx'.dep \in {ctx.dep, seenDep, NoDep}
    <3>1. CASE ctx' = ctx
      BY <3>1
    <3>2. CASE ctx' = NoCtx
      BY <3>2 DEF NoCtx
    <3> QED BY <2>4, <3>1, <3>2
  <2>6. \A j \in jobs' : j \in jobs \/ j.phase = "running"
    BY <1>3
  <2> QED BY <1>0, <2>3, <2>4, <2>5, <2>6, SchemaKept
<1> QED BY <1>1, <1>2, <1>3 DEF applyDeployment

(* Cleaning up jobs and pods leaves fewer to speak of.                     *)
LEMMA CleanupSchema ==
    ASSUME TypeInv, SchemaInv, cleanupJob \/ cleanupPods
    PROVE  SchemaInv'
<1>1. UNCHANGED <<seenJobs, seenDep, seen, migrated>>
  BY DEF cleanupJob, cleanupPods, seen
<1>2. CASE ((Continue("done") \/ Continue("requeue")) /\ NoCall) \/ CallFails
  <2>1. Deploying' /\ ctx' \in {ctx, NoCtx} /\ UNCHANGED <<jobs, dep>>
    BY <1>2, StayElsewhere, CallFailsElsewhere DEF Elsewhere, Ends
  <2> QED BY <1>1, <2>1, LeavesSchema
<1>3. ASSUME NEW c, Goto("pods", obj, objFresh, c), jobs' \subseteq jobs, UNCHANGED dep,
             c.jobs \in {ctx.jobs, seenJobs}, c.dep = ctx.dep
      PROVE  SchemaInv'
  <2>1. Deploying' /\ ctx' = c
    BY <1>3 DEF Goto, Deploying
  <2>2. ctx'.jobs \subseteq ctx.jobs \cup seenJobs
    BY <1>3, <2>1
  <2> QED BY <1>1, <1>3, <2>1, <2>2, SchemaKept
<1>4. CASE cleanupJob
  <2> DEFINE c == [ctx EXCEPT !.jobs = seenJobs, !.pods = seenPods]
  <2>1. c.jobs = seenJobs /\ c.dep = ctx.dep
    BY DEF TypeInv, TypeOK, WorkOK, CtxType
  <2>2. \/ (Continue("done") \/ Continue("requeue")) /\ NoCall
        \/ CallFails
        \/ Goto("pods", obj, objFresh, c) /\ jobs' \subseteq jobs /\ UNCHANGED dep
    BY <1>4 DEF cleanupJob, NoCall, api
  <2> HIDE DEF c
  <2> QED BY <1>2, <1>3, <2>1, <2>2
<1>5. CASE cleanupPods
  <2>1. ASSUME NEW pod \in ctx.pods,
               Goto("pods", obj, objFresh, [ctx EXCEPT !.pods = @ \ {pod}]),
               UNCHANGED <<jobs, dep>>
        PROVE  SchemaInv'
    <3> DEFINE c == [ctx EXCEPT !.pods = @ \ {pod}]
    <3>1. c.jobs = ctx.jobs /\ c.dep = ctx.dep
      BY DEF TypeInv, TypeOK, WorkOK, CtxType
    <3>2. Goto("pods", obj, objFresh, c)
      BY <2>1
    <3> HIDE DEF c
    <3> QED BY <1>3, <2>1, <3>1, <3>2
  <2> QED BY <1>2, <1>5, <2>1 DEF cleanupPods
<1> QED BY <1>4, <1>5

(* The environment completes migrations, copies jobs and deployments into  *)
(* the caches, and changes neither hash nor state of a deployment.         *)
LEMMA EnvironmentSchema ==
    ASSUME TypeInv, SchemaInv, Environment
    PROVE  SchemaInv'
<1>0. ASSUME UNCHANGED <<pc, obj, ctx, migrated>>
      PROVE  Deploying'
  BY <1>0 DEF SchemaInv, Deploying
<1>1. CASE DeliverCluster
  BY <1>0, <1>1 DEF DeliverCluster, SchemaInv, JobMigrated, DepMigrated, api, seen
<1>2. CASE syncExternalResource
  BY <1>0, <1>2 DEF syncExternalResource, SchemaInv, JobMigrated, DepMigrated, api
<1>9. CASE DeliverJobs \/ DeliverPods \/ DeliverDeployment
  <2>1. /\ UNCHANGED <<jobs, dep, pc, obj, ctx, migrated>>
        /\ seenJobs' \in {jobs, seenJobs} /\ seenDep' \in {dep, seenDep}
    BY <1>9 DEF DeliverJobs, DeliverPods, DeliverDeployment, api, work
  <2> QED BY <1>0, <2>1 DEF SchemaInv, JobMigrated, DepMigrated
<1>3. CASE Restart
  <2>1. Deploying' /\ ctx' = NoCtx
    BY <1>3 DEF Restart, Continue, Goto, Deploying
  <2>2. ctx'.jobs = {} /\ ~ctx'.dep.exists
    BY <2>1 DEF NoCtx, NoDep
  <2> QED BY <1>3, <2>1, <2>2 DEF Restart, SchemaInv, JobMigrated, DepMigrated, api
<1>4. CASE EditSpec \/ EditPauseLabel \/ EditSecret \/ DeleteFailedJob
  <2>1. jobs' \subseteq jobs /\ UNCHANGED <<dep, seenJobs, seenDep, pc, obj, ctx, migrated>>
    BY <1>4 DEF EditSpec, EditPauseLabel, EditSecret, DeleteFailedJob, Edit, seen, work
  <2> QED BY <1>0, <2>1 DEF SchemaInv, JobMigrated, DepMigrated
<1>5. CASE MigrationCompletes
  <2>1. PICK j \in jobs :
           /\ jobs' = (jobs \ {j}) \cup {[j EXCEPT !.phase = "complete"]}
           /\ migrated' = migrated \cup {j.hash}
    BY <1>5 DEF MigrationCompletes
  <2>2. [j EXCEPT !.phase = "complete"].hash = j.hash
    BY DEF TypeInv, TypeOK, ApiOK, JobType
  <2>3. UNCHANGED <<dep, seenJobs, seenDep, pc, obj, ctx>>
    BY <1>5 DEF MigrationCompletes, seen, work
  <2>4. Deploying'
    BY <2>1, <2>3 DEF SchemaInv, Deploying
  <2>5. DepMigrated(dep)' /\ DepMigrated(seenDep)' /\ DepMigrated(ctx.dep)'
    BY <2>1, <2>3 DEF SchemaInv, DepMigrated
  <2>6. \A k \in jobs' \cup seenJobs' \cup ctx'.jobs : JobMigrated(k)'
    BY <2>1, <2>2, <2>3 DEF SchemaInv, JobMigrated
  <2> QED BY <2>4, <2>5, <2>6 DEF SchemaInv
<1>6. CASE MigrationFails
  <2>1. PICK j \in jobs : jobs' = (jobs \ {j}) \cup {[j EXCEPT !.phase = "failed"]}
    BY <1>6 DEF MigrationFails
  <2>2. [j EXCEPT !.phase = "failed"].phase = "failed"
    BY DEF TypeInv, TypeOK, ApiOK, JobType
  <2>3. UNCHANGED <<dep, seenJobs, seenDep, pc, obj, ctx, migrated>>
    BY <1>6 DEF MigrationFails, seen, work
  <2> QED BY <1>0, <2>1, <2>2, <2>3 DEF SchemaInv, JobMigrated, DepMigrated
<1>7. CASE PodCollected
  BY <1>0, <1>7 DEF PodCollected, SchemaInv, JobMigrated, DepMigrated, seen, work
<1>8. CASE RolloutCompletes \/ PodCrashes
  <2>1. UNCHANGED <<jobs, seenJobs, seenDep, pc, obj, ctx, migrated>>
    BY <1>8 DEF RolloutCompletes, PodCrashes, seen, work
  <2>2. dep'.exists = dep.exists /\ dep'.annotation = dep.annotation /\ dep'.state = dep.state
    BY <1>8 DEF RolloutCompletes, PodCrashes, TypeInv, TypeOK, ApiOK, DepType
  <2> QED BY <1>0, <2>1, <2>2 DEF SchemaInv, JobMigrated, DepMigrated
<1> QED BY <1>1, <1>2, <1>3, <1>4, <1>5, <1>6, <1>7, <1>8, <1>9 DEF Environment, Deliver

(* The invariant holds always.                                             *)
LEMMA SchemaInvariant == Spec => []SchemaInv
<1>1. Init => SchemaInv
  <2> SUFFICES ASSUME Init PROVE SchemaInv
    OBVIOUS
  <2>1. jobs = {} /\ seenJobs = {} /\ ctx.jobs = {}
    BY DEF Init, NoCtx
  <2>2. ~dep.exists /\ ~seenDep.exists /\ ~ctx.dep.exists
    BY DEF Init, NoCtx, NoDep
  <2>3. pc = "idle"
    BY DEF Init
  <2> QED BY <2>1, <2>2, <2>3 DEF SchemaInv, DepMigrated, Deploying
<1>2. TypeInv /\ SchemaInv /\ [Next]_vars => SchemaInv'
  <2> SUFFICES ASSUME TypeInv, SchemaInv, [Next]_vars PROVE SchemaInv'
    OBVIOUS
  <2>1. CASE Reconcile
    BY <2>1, ElsewhereSchema, StartSchema, AdopterSchema, ConfigSchema, CheckSchema,
       ApplyJobSchema, ExtrasSchema, WaitSchema, LabelSchema, EnsureSchema, ApplySchema,
       CleanupSchema
    DEF Reconcile
  <2>2. CASE Environment
    BY <2>2, EnvironmentSchema
  <2>3. CASE UNCHANGED vars
    BY <2>3 DEF vars, api, seen, work, SchemaInv, JobMigrated, DepMigrated, Deploying
  <2> QED BY <2>1, <2>2, <2>3 DEF Next
<1> QED BY <1>1, <1>2, TypeInvariant, PTL DEF Spec

(* However the caches lag and the calls fail, the deployment never runs on *)
(* a datastore whose migration has not completed (checkMigrations,         *)
(* waitForMigrations, ensureDeployment).                                   *)
THEOREM ControllerSchemaReady == Spec => []SchemaReady
<1>1. SchemaInv => SchemaReady
  BY DEF SchemaInv, DepMigrated, SchemaReady
<1> QED BY <1>1, SchemaInvariant, PTL
----------------------------------------------------------------------------
(* The current migration hash *)

(* No cluster skips its migrations, and the datastore needs them.          *)
AlwaysMigrates == (\A spec \in Specs : ~spec.skip) /\ Engine # "memory"

(* Then the current hash, in the API and in every copy, is of a migration  *)
(* that happened: only ensureDeployment writes one, and SchemaInv says     *)
(* that the target in hand is migrated there.                              *)
Current(c) == ~c.spec.skip /\ (c.status.current = NoHash \/ c.status.current \in migrated)

CurrentInv == Current(cluster) /\ Current(cache) /\ Current(obj)

(* Going on with a copy that is right, or ending the reconcile.            *)
LEMMA GotoCurrent ==
    ASSUME NEW next, NEW o, NEW fresh, NEW c, Goto(next, o, fresh, c), Current(o),
           CurrentInv, UNCHANGED <<cluster, cache, migrated>>
    PROVE  CurrentInv'
<1>1. Current(NoCluster)
  BY DEF Current, NoCluster, NoSpec, NoStatus
<1>2. obj' \in {o, NoCluster}
  BY DEF Goto
<1> QED BY <1>1, <1>2 DEF CurrentInv, Current

(* Going on with what is in hand.                                          *)
LEMMA StayCurrent ==
    ASSUME NEW next, Continue(next), CurrentInv, UNCHANGED <<cluster, cache, migrated>>
    PROVE  CurrentInv'
BY GotoCurrent DEF Continue, CurrentInv

(* So does a failing call.                                                 *)
LEMMA CallFailsCurrent ==
    ASSUME CallFails, CurrentInv, UNCHANGED <<cache, migrated>>
    PROVE  CurrentInv'
BY StayCurrent DEF CallFails, api

(* PatchStatus with a status whose current hash is right.                  *)
LEMMA PatchCurrent ==
    ASSUME TypeInv, CurrentInv, UNCHANGED <<cache, migrated>>,
           NEW status \in StatusType, status.current = NoHash \/ status.current \in migrated,
           NEW generation, NEW versioned, NEW next,
           PatchStatus(status, generation, versioned, next)
    PROVE  CurrentInv'
<1> DEFINE new == [status EXCEPT !.observed = generation]
           o == [obj EXCEPT !.status = new]
           fresh == objFresh /\ new = cluster.status
<1>1. new.current = status.current
  BY DEF StatusType
<1>2. CASE cluster' = [cluster EXCEPT !.status = new] /\ Goto(next, o, fresh, ctx)
  <2>1. cluster'.spec = cluster.spec /\ cluster'.status = new
    BY <1>2 DEF TypeInv, TypeOK, ApiOK, ClusterType
  <2>2. o.spec = obj.spec /\ o.status = new
    BY DEF TypeInv, TypeOK, WorkOK, ClusterType
  <2> HIDE DEF new, o, fresh
  <2>3. obj' \in {o, NoCluster}
    BY <1>2 DEF Goto
  <2>4. Current(NoCluster)
    BY DEF Current, NoCluster, NoSpec, NoStatus
  <2> QED BY <1>1, <2>1, <2>2, <2>3, <2>4 DEF CurrentInv, Current
<1>3. CASE Continue("requeue") /\ UNCHANGED <<api, cacheFresh, left>>
  BY <1>3, StayCurrent DEF api
<1>4. CASE CallFails
  BY <1>4, CallFailsCurrent
<1> QED BY <1>2, <1>3, <1>4 DEF PatchStatus

(* The patches of all handlers but ensureDeployment leave the current hash *)
(* as it is in hand.                                                       *)
LEMMA FieldCurrent ==
    ASSUME TypeInv, CurrentInv, UNCHANGED <<cache, migrated>>,
           NEW status \in StatusType, status.current = obj.status.current,
           NEW generation, NEW versioned, NEW next,
           PatchStatus(status, generation, versioned, next)
    PROVE  CurrentInv'
BY PatchCurrent DEF CurrentInv, Current

(* Reporting an invalid spec or config.                                    *)
LEMMA RejectCurrent ==
    ASSUME TypeInv, CurrentInv, UNCHANGED <<cache, migrated>>,
           NEW failed \in FailureType, Reject(failed)
    PROVE  CurrentInv'
<1> DEFINE status == [obj.status EXCEPT !.validating = FALSE, !.failed = failed]
<1>1. status \in StatusType /\ status.current = obj.status.current
  BY ObjTyped DEF TypeInv, WorkInv, StatusType
<1>2. (Continue("done") /\ NoCall) \/ PatchStatus(status, obj.gen, TRUE, "done")
  BY DEF Reject
<1> HIDE DEF status
<1> QED BY <1>1, <1>2, FieldCurrent, StayCurrent DEF NoCall, api

(* The handlers that neither patch the status nor write the cluster.       *)
LEMMA NoPatchCurrent ==
    ASSUME TypeInv, CurrentInv,
           \/ syncOwnedResource \/ collectSecrets \/ checkMigrations \/ applyJob
           \/ deleteExtraJobs \/ waitForMigrations \/ applyDeployment \/ cleanupJob
           \/ cleanupPods
    PROVE  CurrentInv'
<1>0. Current(obj)
  BY DEF CurrentInv
<1>1. CASE syncOwnedResource
  BY <1>1 DEF syncOwnedResource, NoCall, api, CurrentInv, Current
<1>2. CASE collectSecrets
  BY <1>0, <1>2, GotoCurrent DEF collectSecrets, NoCall, api
<1>3. CASE checkMigrations
  <2>1. UNCHANGED <<cache, migrated>>
    BY <1>3 DEF checkMigrations
  <2>2. \/ /\ Goto(AfterCheck(obj, seenDep, seenJobs), obj, objFresh,
                   [ctx EXCEPT !.dep = seenDep, !.jobs = seenJobs])
           /\ UNCHANGED cluster
        \/ CallFails
    BY <1>3 DEF checkMigrations, NoCall, api
  <2> QED BY <1>0, <2>1, <2>2, GotoCurrent, CallFailsCurrent
<1>4. CASE applyJob
  BY <1>4, StayCurrent, CallFailsCurrent DEF applyJob
<1>5. CASE deleteExtraJobs
  <2>1. UNCHANGED <<cache, migrated>>
    BY <1>5 DEF deleteExtraJobs
  <2>2. \/ Continue("requeue") /\ UNCHANGED cluster
        \/ \E extra \in ctx.jobs :
              /\ Goto("extras", obj, objFresh, [ctx EXCEPT !.jobs = @ \ {extra}])
              /\ UNCHANGED cluster
        \/ CallFails
    BY <1>5 DEF deleteExtraJobs, NoCall, api
  <2> QED BY <1>0, <2>1, <2>2, GotoCurrent, StayCurrent, CallFailsCurrent
<1>6. CASE waitForMigrations
  <2> DEFINE o == [obj EXCEPT !.status.migrating = "false"]
  <2>1. o.spec = obj.spec /\ o.status.current = obj.status.current
    BY DEF TypeInv, TypeOK, WorkOK, ClusterType, StatusType
  <2>2. UNCHANGED <<cluster, cache, migrated>>
    BY <1>6 DEF waitForMigrations, NoCall, api
  <2>3. Goto("selfpause", o, objFresh, ctx) \/ Continue("deploy") \/ Continue("requeue")
    BY <1>6 DEF waitForMigrations
  <2> HIDE DEF o
  <2>4. Current(o)
    BY <1>0, <2>1 DEF Current
  <2> QED BY <2>2, <2>3, <2>4, GotoCurrent, StayCurrent
<1>7. CASE applyDeployment
  <2>1. UNCHANGED <<cluster, cache, migrated>>
    BY <1>7 DEF applyDeployment, NoCall, api
  <2>2. \E next \in Handlers \cup Ends : Continue(next)
    BY <1>7 DEF applyDeployment, Handlers, Ends
  <2> QED BY <2>1, <2>2, StayCurrent
<1>8. CASE cleanupJob
  <2> DEFINE listed == [ctx EXCEPT !.jobs = seenJobs, !.pods = seenPods]
  <2>1. UNCHANGED <<cache, migrated>>
    BY <1>8 DEF cleanupJob
  <2>2. \/ (Continue("done") \/ Continue("requeue")) /\ UNCHANGED cluster
        \/ Goto("pods", obj, objFresh, listed) /\ UNCHANGED cluster
        \/ CallFails
    BY <1>8 DEF cleanupJob, NoCall, api
  <2> HIDE DEF listed
  <2> QED BY <1>0, <2>1, <2>2, GotoCurrent, StayCurrent, CallFailsCurrent
<1>9. CASE cleanupPods
  <2>1. UNCHANGED <<cache, migrated>>
    BY <1>9 DEF cleanupPods
  <2>2. \/ (Continue("done") \/ Continue("requeue")) /\ UNCHANGED cluster
        \/ \E pod \in ctx.pods :
              /\ Goto("pods", obj, objFresh, [ctx EXCEPT !.pods = @ \ {pod}])
              /\ UNCHANGED cluster
        \/ CallFails
    BY <1>9 DEF cleanupPods, NoCall, api
  <2> QED BY <1>0, <2>1, <2>2, GotoCurrent, StayCurrent, CallFailsCurrent
<1> QED BY <1>1, <1>2, <1>3, <1>4, <1>5, <1>6, <1>7, <1>8, <1>9

(* The handlers that patch other fields of the status in hand.             *)
LEMMA FieldsCurrent ==
    ASSUME TypeInv, CurrentInv,
           \/ pauseCluster \/ validateSpec \/ secretAdopter \/ reportMissingSecret
           \/ checkConfigChanged \/ validateConfig
    PROVE  CurrentInv'
<1>0. obj.status \in StatusType /\ obj.gen \in Nat /\ ctx.secret \in Str
  BY ObjTyped DEF TypeInv, WorkInv
<1>1. CASE pauseCluster
  <2> DEFINE status == [obj.status EXCEPT !.paused = obj.paused]
             next == IF obj.paused THEN "done" ELSE "spec"
  <2>1. status \in StatusType /\ status.current = obj.status.current
    BY ObjTyped DEF TypeInv, WorkInv, StatusType
  <2>2. \/ Continue(next) /\ UNCHANGED cluster
        \/ PatchStatus(status, obj.gen, TRUE, next)
    BY <1>1 DEF pauseCluster, NoCall, api
  <2>3. UNCHANGED <<cache, migrated>>
    BY <1>1 DEF pauseCluster
  <2> HIDE DEF status, next
  <2> QED BY <2>1, <2>2, <2>3, FieldCurrent, StayCurrent
<1>2. CASE validateSpec
  <2>1. InvalidConfig("", {"spec"}) \in FailureType
    BY DEF InvalidConfig, FailureType, Str
  <2>2. \/ Continue("adopt") /\ UNCHANGED cluster
        \/ Reject(InvalidConfig("", {"spec"}))
    BY <1>2 DEF validateSpec, NoCall, api
  <2>3. UNCHANGED <<cache, migrated>>
    BY <1>2 DEF validateSpec
  <2> QED BY <2>1, <2>2, <2>3, RejectCurrent, StayCurrent
<1>3. CASE secretAdopter
  <2>1. \/ (Continue("collect") \/ Continue("missing")) /\ UNCHANGED cluster
        \/ CallFails
    BY <1>3 DEF secretAdopter, NoCall, api
  <2>2. UNCHANGED <<cache, migrated>>
    BY <1>3 DEF secretAdopter
  <2> QED BY <2>1, <2>2, StayCurrent, CallFailsCurrent
<1>4. CASE reportMissingSecret
  <2> DEFINE status == [obj.status EXCEPT !.missing = TRUE]
  <2>1. status \in StatusType /\ status.current = obj.status.current
    BY <1>0 DEF StatusType
  <2>2. PatchStatus(status, 0, FALSE, "requeue") /\ UNCHANGED <<cache, migrated>>
    BY <1>4 DEF reportMissingSecret
  <2> HIDE DEF status
  <2> QED BY <2>1, <2>2, FieldCurrent
<1>5. CASE checkConfigChanged
  <2> DEFINE status == [obj.status EXCEPT !.secret = ctx.secret, !.missing = FALSE,
                                          !.validating = TRUE]
  <2>1. status \in StatusType /\ status.current = obj.status.current
    BY <1>0 DEF StatusType
  <2>2. \/ Continue("config") /\ UNCHANGED cluster
        \/ PatchStatus(status, obj.gen, FALSE, "config")
    BY <1>5 DEF checkConfigChanged, NoCall, api
  <2>3. UNCHANGED <<cache, migrated>>
    BY <1>5 DEF checkConfigChanged
  <2> HIDE DEF status
  <2> QED BY <2>1, <2>2, <2>3, FieldCurrent, StayCurrent
<1>6. CASE validateConfig
  <2> DEFINE target == TargetOf(obj)
             errs == ConfigErrors(obj, ctx.secret, target)
             hash == MigrationConfig(obj, ctx.secret, target)
             computed == [obj.status EXCEPT !.observed = obj.gen, !.target = hash,
                                            !.version = target.target,
                                            !.validating = FALSE, !.failed = NoFailure]
  <2>1. \/ Reject(InvalidConfig(ctx.secret, errs))
        \/ Continue("migrations") /\ UNCHANGED cluster
        \/ PatchStatus(computed, obj.gen, TRUE, "migrations")
    BY <1>6 DEF validateConfig, NoCall, api
  <2>2. UNCHANGED <<cache, migrated>>
    BY <1>6 DEF validateConfig
  <2>3. InvalidConfig(ctx.secret, errs) \in FailureType
    BY <1>0 DEF InvalidConfig, FailureType, ConfigErrors
  <2>4. hash \in HashType /\ target.target \in VersionType /\ NoFailure \in FailureType
    BY ConfigTyped DEF TypeInv, NoFailure, FailureType, Str
  <2> HIDE DEF target, errs, hash
  <2>5. computed \in StatusType /\ computed.current = obj.status.current
    BY <1>0, <2>4 DEF StatusType
  <2> HIDE DEF computed
  <2> QED BY <2>1, <2>2, <2>3, <2>5, RejectCurrent, FieldCurrent, StayCurrent
<1> QED BY <1>1, <1>2, <1>3, <1>4, <1>5, <1>6

(* The handlers that report on the migration and the rollout.              *)
LEMMA ProgressCurrent ==
    ASSUME TypeInv, CurrentInv,
           \/ runMigration \/ selfPauseCluster \/ reportApplyFailed \/ clearApplyFailed
           \/ waitForRollout
    PROVE  CurrentInv'
<1> DEFINE run     == [obj.status EXCEPT !.migrating = "true"]
           pause   == [obj.status EXCEPT !.paused = TRUE]
           report  == [obj.status EXCEPT !.error = "apply"]
           clear   == [obj.status EXCEPT !.error = "no"]
           pod     == [obj.status EXCEPT !.error = "pod"]
           rolling == [obj.status EXCEPT !.rolling = TRUE]
           rolled  == [obj.status EXCEPT !.rolling = FALSE, !.error = "no"]
           kept    == {run, pause, report, clear, pod, rolling, rolled}
<1>1. obj.status \in StatusType
  BY ObjTyped DEF TypeInv, WorkInv
<1>2. \A s \in kept : s \in StatusType /\ s.current = obj.status.current
  <2>1. run \in StatusType /\ run.current = obj.status.current
    BY <1>1 DEF StatusType
  <2>2. pause \in StatusType /\ pause.current = obj.status.current
    BY <1>1 DEF StatusType
  <2>3. /\ report \in StatusType /\ report.current = obj.status.current
        /\ clear \in StatusType /\ clear.current = obj.status.current
        /\ pod \in StatusType /\ pod.current = obj.status.current
    BY <1>1 DEF StatusType
  <2>4. /\ rolling \in StatusType /\ rolling.current = obj.status.current
        /\ rolled \in StatusType /\ rolled.current = obj.status.current
    BY <1>1 DEF StatusType
  <2> HIDE DEF run, pause, report, clear, pod, rolling, rolled
  <2> QED BY <2>1, <2>2, <2>3, <2>4
<1>3. UNCHANGED <<cache, migrated>>
  BY DEF runMigration, selfPauseCluster, reportApplyFailed, clearApplyFailed, waitForRollout
<1>4. \/ Continue("cleanup") /\ UNCHANGED cluster
      \/ PatchStatus(run, obj.gen, TRUE, "job")
      \/ PatchStatus(pause, obj.gen, TRUE, "label")
      \/ PatchStatus(report, obj.gen, TRUE, "requeue")
      \/ PatchStatus(clear, obj.gen, TRUE, "requeue")
      \/ PatchStatus(pod, obj.gen, TRUE, "requeue")
      \/ PatchStatus(rolling, obj.gen, TRUE, "requeue")
      \/ PatchStatus(rolled, obj.gen, TRUE, "cleanup")
  BY DEF runMigration, selfPauseCluster, reportApplyFailed, clearApplyFailed, waitForRollout,
         NoCall, api
<1> HIDE DEF run, pause, report, clear, pod, rolling, rolled
<1> QED BY <1>2, <1>3, <1>4, FieldCurrent, StayCurrent

(* Self-pausing applies the spec in hand, which skips no migrations either.*)
LEMMA LabelCurrent ==
    ASSUME TypeInv, CurrentInv, Patch
    PROVE  CurrentInv'
<1>0. UNCHANGED <<cache, migrated>>
  BY DEF Patch
<1>1. CASE CallFails
  BY <1>0, <1>1, CallFailsCurrent
<1>2. ASSUME NEW spec \in Applied(obj.spec, cluster.spec),
             cluster' = [cluster EXCEPT !.paused = TRUE, !.spec = spec,
                                        !.gen = IF spec = cluster.spec THEN @ ELSE @ + 1],
             Continue("done")
      PROVE  CurrentInv'
  <2>0. obj.spec \in SpecType /\ cluster.spec \in SpecType
    BY DEF TypeInv, WorkInv, TypeOK, ApiOK, WorkOK, ClusterType
  <2>1. /\ cluster'.spec = spec /\ cluster'.status = cluster.status
        /\ spec.skip => obj.spec.skip \/ cluster.spec.skip
    BY <1>2, <2>0, AppliedTyped DEF TypeInv, TypeOK, ApiOK, ClusterType
  <2>2. obj' = NoCluster
    BY <1>2 DEF Continue, Goto
  <2>3. Current(NoCluster)
    BY DEF Current, NoCluster, NoSpec, NoStatus
  <2> QED BY <1>0, <2>1, <2>2, <2>3 DEF CurrentInv, Current
<1> QED BY <1>1, <1>2 DEF Patch

(* ensureDeployment makes the target the current hash: the reconcile got   *)
(* there past a completed migration.                                       *)
LEMMA EnsureCurrent ==
    ASSUME AlwaysMigrates, TypeInv, SchemaInv, CurrentInv, ensureDeployment
    PROVE  CurrentInv'
<1> DEFINE status == [obj.status EXCEPT !.migrating = "no", !.current = obj.status.target,
                                        !.rolling = TRUE]
<1>1. obj.status.target \in migrated
  BY DEF AlwaysMigrates, SchemaInv, Deploying, CurrentInv, Current, ensureDeployment
<1>2. status \in StatusType /\ status.current = obj.status.target
  BY ObjTyped DEF TypeInv, WorkInv, StatusType
<1>3. \/ PatchStatus(status, obj.gen, TRUE, "apply")
      \/ Continue("apply") /\ UNCHANGED cluster
  BY DEF ensureDeployment, NoCall, api
<1>4. UNCHANGED <<cache, migrated>>
  BY DEF ensureDeployment
<1> HIDE DEF status
<1> QED BY <1>1, <1>2, <1>3, <1>4, PatchCurrent, StayCurrent

(* The environment edits specs, copies clusters and completes migrations.  *)
LEMMA EnvironmentCurrent ==
    ASSUME AlwaysMigrates, TypeInv, CurrentInv, Environment
    PROVE  CurrentInv'
<1>1. CASE DeliverCluster
  BY <1>1 DEF DeliverCluster, api, CurrentInv, Current
<1>2. CASE syncExternalResource \/ DeliverJobs \/ DeliverPods \/ DeliverDeployment
  BY <1>2 DEF syncExternalResource, DeliverJobs, DeliverPods, DeliverDeployment, api, work,
              CurrentInv, Current
<1>3. CASE Restart
  <2>1. obj' = NoCluster /\ cache' = cluster /\ UNCHANGED <<cluster, migrated>>
    BY <1>3 DEF Restart, Continue, Goto, api
  <2>2. Current(NoCluster)
    BY DEF Current, NoCluster, NoSpec, NoStatus
  <2> QED BY <2>1, <2>2 DEF CurrentInv, Current
<1>4. CASE EditSpec
  <2>1. PICK spec \in Specs : cluster' = [cluster EXCEPT !.spec = spec, !.gen = @ + 1]
    BY <1>4 DEF EditSpec
  <2>2. cluster'.spec = spec /\ cluster'.status = cluster.status
    BY <2>1 DEF TypeInv, TypeOK, ApiOK, ClusterType
  <2>3. UNCHANGED <<cache, obj, migrated>>
    BY <1>4 DEF EditSpec, Edit, work
  <2> QED BY <2>2, <2>3 DEF AlwaysMigrates, CurrentInv, Current
<1>5. CASE EditPauseLabel
  <2>1. cluster'.spec = cluster.spec /\ cluster'.status = cluster.status
    BY <1>5 DEF EditPauseLabel, TypeInv, TypeOK, ApiOK, ClusterType
  <2>2. UNCHANGED <<cache, obj, migrated>>
    BY <1>5 DEF EditPauseLabel, Edit, work
  <2> QED BY <2>1, <2>2 DEF CurrentInv, Current
<1>6. CASE \/ EditSecret \/ DeleteFailedJob \/ MigrationCompletes \/ MigrationFails
           \/ PodCollected \/ RolloutCompletes \/ PodCrashes
  <2>1. UNCHANGED <<cluster, cache, obj>> /\ migrated \subseteq migrated'
    BY <1>6 DEF EditSecret, DeleteFailedJob, Edit, MigrationCompletes, MigrationFails,
                PodCollected, RolloutCompletes, PodCrashes, work
  <2> QED BY <2>1 DEF CurrentInv, Current
<1> QED BY <1>1, <1>2, <1>3, <1>4, <1>5, <1>6 DEF Environment, Deliver

(* types.go, of the current hash: "If this is equal to TargetMigrationHash *)
(* (and there are no conditions) then the datastore is fully migrated."    *)
(* It holds of every cluster whose specs skip no migrations, on every      *)
(* datastore that has them.                                                *)
THEOREM ControllerFullyMigrated == ASSUME AlwaysMigrates PROVE Spec => []FullyMigrated
<1>1. Init => CurrentInv
  <2> SUFFICES ASSUME Init PROVE CurrentInv
    OBVIOUS
  <2>1. PICK spec \in Specs :
           cluster = [gen |-> 1, spec |-> spec, paused |-> FALSE, status |-> NoStatus]
    BY DEF Init
  <2>2. Current(cluster)
    BY <2>1, AlwaysMigrates DEF AlwaysMigrates, Current, NoStatus
  <2>3. Current(obj)
    BY DEF Init, Current, NoCluster, NoSpec, NoStatus
  <2> QED BY <2>2, <2>3 DEF Init, CurrentInv, Current
<1>2. TypeInv /\ SchemaInv /\ CurrentInv /\ [Next]_vars => CurrentInv'
  <2> SUFFICES ASSUME TypeInv, SchemaInv, CurrentInv, [Next]_vars PROVE CurrentInv'
    OBVIOUS
  <2>1. CASE Reconcile
    BY <2>1, AlwaysMigrates, NoPatchCurrent, FieldsCurrent, ProgressCurrent, LabelCurrent,
       EnsureCurrent
    DEF Reconcile
  <2>2. CASE Environment
    BY <2>2, AlwaysMigrates, EnvironmentCurrent
  <2>3. CASE UNCHANGED vars
    BY <2>3 DEF vars, api, work, CurrentInv, Current
  <2> QED BY <2>1, <2>2, <2>3 DEF Next
<1>3. CurrentInv => FullyMigrated
  BY DEF CurrentInv, Current, FullyMigrated
<1> QED BY <1>1, <1>2, <1>3, TypeInvariant, SchemaInvariant, PTL DEF Spec
=============================================================================
