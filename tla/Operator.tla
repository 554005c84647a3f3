------------------------------- MODULE Operator -------------------------------
(***************************************************************************)
(* The process around the reconciles: the operator configuration and its   *)
(* reload (loadConfig), the work queue, and the workers that take clusters *)
(* from it (syncOwnedResource).                                            *)
(*                                                                         *)
(* What a reconcile does with the configuration is Controller; here it is  *)
(* a copy of the configuration and an end that may requeue.  The contents  *)
(* of the file stand for the update graph in them, and for their hash.     *)
(***************************************************************************)
EXTENDS Naturals, Sequences

CONSTANTS
    Workers,
    Namespaces,     \* the watched namespaces: a sequence of sets of clusters
    Files,          \* the contents the configuration file may have
    Undecodable,    \* those of them that are no configuration
    BaseImage,      \* the flag that overrides the image, "none" if it is not given
    MaxWrites,      \* bound: changes of the file
    MaxFaults       \* bound: failing lists, and restarts without a panic

Clusters == UNION {Namespaces[i] : i \in DOMAIN Namespaces}

ASSUME OperatorAssumption ==
    /\ DOMAIN Namespaces = 1 .. Len(Namespaces) /\ Len(Namespaces) \in Nat \ {0}
    /\ "none" \notin Clusters
    /\ Undecodable \subseteq Files
    /\ "none" \notin Files
    /\ MaxWrites \in Nat
    /\ MaxFaults \in Nat

VARIABLES
    file,           \* the contents of the configuration file
    fileEvent,      \* the file informer has an event to deliver
    (* the loader *)
    loader,         \* [pc, contents, ns]
    config,         \* c.config, with the number of the load it is from
    locked,         \* configLock is held for writing
    lastConfigHash,
    (* the work queue *)
    delayed,        \* keys added with a delay that has not passed
    queue,
    dirty,
    processing,
    (* the workers *)
    worker,         \* [pc, key, config]
    (* history and bounds *)
    used,           \* the configuration that each cluster was last reconciled with
    missed,         \* the clusters that a failing list did not requeue
    writes,
    faults

configVars == <<loader, config, locked, lastConfigHash>>
queueVars  == <<delayed, queue, dirty, processing>>
vars == <<file, fileEvent, configVars, queueVars, worker, used, missed, writes, faults>>

(* The configuration of some contents, and as the flag overrides it.       *)
Decode(contents) == [graph |-> contents, image |-> "graph"]

Override(c) == IF BaseImage = "none" THEN c ELSE [c EXCEPT !.image = BaseImage]

NoConfig == [cfg |-> [graph |-> "none", image |-> "none"], load |-> 0]

Resting == [pc |-> "idle", contents |-> "none", ns |-> 0]

Free == [pc |-> "idle", key |-> "none", config |-> NoConfig]

Init ==
    /\ file \in Files
    /\ fileEvent = TRUE
    /\ loader = Resting
    /\ config = NoConfig
    /\ locked = FALSE
    /\ lastConfigHash = "none"
    /\ delayed = Clusters
    /\ queue = <<>>
    /\ dirty = {}
    /\ processing = {}
    /\ worker = [w \in Workers |-> Free]
    /\ used = [c \in Clusters |-> NoConfig]
    /\ missed = {}
    /\ writes = MaxWrites
    /\ faults = MaxFaults

(* A process that ends is started again: the informers deliver the file    *)
(* and every cluster.                                                      *)
Restarted ==
    /\ fileEvent' = TRUE
    /\ loader' = Resting
    /\ config' = NoConfig
    /\ locked' = FALSE
    /\ lastConfigHash' = "none"
    /\ delayed' = Clusters
    /\ queue' = <<>>
    /\ dirty' = {}
    /\ processing' = {}
    /\ worker' = [w \in Workers |-> Free]
    /\ used' = [c \in Clusters |-> [used[c] EXCEPT !.load = 0]]
    /\ missed' = {}
    /\ UNCHANGED file

----------------------------------------------------------------------------
(* loadConfig *)

(* The file is read and decoded; contents that do not decode panic.  The   *)
(* same contents as before are not loaded again.                           *)
readConfig ==
    /\ loader.pc = "idle"
    /\ fileEvent
    /\ \/ /\ file \in Undecodable
          /\ Restarted
       \/ /\ file \notin Undecodable
          /\ fileEvent' = FALSE
          /\ loader' = IF file = lastConfigHash THEN Resting
                       ELSE [pc |-> "assign", contents |-> file, ns |-> 0]
          /\ UNCHANGED <<file, config, locked, lastConfigHash, queueVars, worker,
                         used, missed>>
    /\ UNCHANGED <<writes, faults>>

(* Under the lock the configuration is replaced, and then its image.       *)
assignConfig ==
    /\ loader.pc = "assign"
    /\ locked' = TRUE
    /\ config' = [cfg |-> Decode(loader.contents), load |-> config.load + 1]
    /\ loader' = [loader EXCEPT !.pc = "override"]
    /\ UNCHANGED <<file, fileEvent, lastConfigHash, queueVars, worker, used, missed,
                   writes, faults>>

(* Then the lock is released and the hash stored, which the loader alone   *)
(* looks at.                                                               *)
overrideImage ==
    /\ loader.pc = "override"
    /\ config' = [config EXCEPT !.cfg = Override(@)]
    /\ locked' = FALSE
    /\ lastConfigHash' = loader.contents
    /\ loader' = [loader EXCEPT !.pc = "list", !.ns = 1]
    /\ UNCHANGED <<file, fileEvent, queueVars, worker, used, missed, writes, faults>>

(* Queue.AddRateLimited: the key is added when its delay has passed.       *)
AddRateLimited(keys) == delayed' = delayed \cup keys

(* Faulty: ends after the first namespace.                                 *)
requeueClusters_FirstOnly ==
    /\ loader.pc = "list"
    /\ AddRateLimited(Namespaces[loader.ns])
    /\ loader' = Resting
    /\ UNCHANGED <<file, fileEvent, config, locked, lastConfigHash, queue, dirty, processing,
                   worker, used, missed, writes, faults>>

(* Faulty: goes on after the last namespace.                               *)
requeueClusters_OneMore ==
    /\ loader.pc = "list"
    /\ AddRateLimited(Namespaces[loader.ns])
    /\ loader' = [loader EXCEPT !.ns = @ + 1]
    /\ UNCHANGED <<file, fileEvent, config, locked, lastConfigHash, queue, dirty, processing,
                   worker, used, missed, writes, faults>>

(* The clusters of the next namespace are listed and requeued.  A list     *)
(* that fails ends the reload.                                             *)
requeueClusters ==
    /\ loader.pc = "list"
    /\ \/ /\ AddRateLimited(Namespaces[loader.ns])
          /\ missed' = missed \ Namespaces[loader.ns]
          /\ loader' = IF loader.ns = Len(Namespaces) THEN Resting ELSE [loader EXCEPT !.ns = @ + 1]
          /\ UNCHANGED faults
       \/ /\ faults > 0
          /\ faults' = faults - 1
          /\ missed' = missed \cup UNION {Namespaces[i] : i \in loader.ns .. Len(Namespaces)}
          /\ loader' = Resting
          /\ UNCHANGED delayed
    /\ UNCHANGED <<file, fileEvent, config, locked, lastConfigHash, queue, dirty, processing,
                   worker, used, writes>>

Load == readConfig \/ assignConfig \/ overrideImage \/ requeueClusters

----------------------------------------------------------------------------
(* The work queue (client-go) and the workers *)

(* Faulty: a key that is being processed is queued all the same.           *)
Add_WhileProcessing(key) ==
    /\ key \in delayed
    /\ delayed' = delayed \ {key}
    /\ dirty' = dirty \cup {key}
    /\ queue' = IF key \in dirty THEN queue ELSE Append(queue, key)
    /\ UNCHANGED <<file, fileEvent, configVars, processing, worker, used, missed, writes, faults>>

(* Add: a key that waits or is being processed is not queued twice.        *)
Add(key) ==
    /\ key \in delayed
    /\ delayed' = delayed \ {key}
    /\ dirty' = dirty \cup {key}
    /\ queue' = IF key \in dirty \/ key \in processing THEN queue ELSE Append(queue, key)
    /\ UNCHANGED <<file, fileEvent, configVars, processing, worker, used, missed,
                   writes, faults>>

Get(w) ==
    /\ worker[w].pc = "idle"
    /\ queue # <<>>
    /\ queue' = Tail(queue)
    /\ processing' = processing \cup {Head(queue)}
    /\ dirty' = dirty \ {Head(queue)}
    /\ worker' = [worker EXCEPT ![w] = [Free EXCEPT !.pc = "sync", !.key = Head(queue)]]
    /\ UNCHANGED <<file, fileEvent, configVars, delayed, used, missed, writes, faults>>

(* Faulty: the configuration is copied without the lock.                   *)
syncOwnedResource_NoLock(w) ==
    /\ worker[w].pc = "sync"
    /\ worker' = [worker EXCEPT ![w].pc = "handle", ![w].config = config]
    /\ UNCHANGED <<file, fileEvent, configVars, queueVars, used, missed, writes, faults>>

(* The configuration is copied under the read lock.                        *)
syncOwnedResource(w) ==
    /\ worker[w].pc = "sync"
    /\ ~locked
    /\ worker' = [worker EXCEPT ![w].pc = "handle", ![w].config = config]
    /\ UNCHANGED <<file, fileEvent, configVars, queueVars, used, missed, writes, faults>>

(* The handlers are through; they may have asked for another reconcile.    *)
(* Done puts the key back if it was added meanwhile.                       *)
Finish(w) ==
    LET key == worker[w].key
    IN  /\ worker[w].pc = "handle"
        /\ used' = [used EXCEPT ![key] = worker[w].config]
        /\ \E keys \in {{}, {key}} : AddRateLimited(keys)
        /\ processing' = processing \ {key}
        /\ queue' = IF key \in dirty THEN Append(queue, key) ELSE queue
        /\ worker' = [worker EXCEPT ![w] = Free]
        /\ UNCHANGED <<file, fileEvent, configVars, dirty, missed, writes, faults>>

Work(w) == Get(w) \/ syncOwnedResource(w) \/ Finish(w)

----------------------------------------------------------------------------
(* The environment *)

WriteFile ==
    /\ writes > 0
    /\ writes' = writes - 1
    /\ file' \in Files \ {file}
    /\ fileEvent' = TRUE
    /\ UNCHANGED <<configVars, queueVars, worker, used, missed, faults>>

(* A cluster changes.                                                      *)
enqueue(c) ==
    /\ AddRateLimited({c})
    /\ missed' = missed \ {c}
    /\ UNCHANGED <<file, fileEvent, configVars, queue, dirty, processing, worker, used,
                   writes, faults>>

Restart ==
    /\ faults > 0
    /\ faults' = faults - 1
    /\ Restarted
    /\ UNCHANGED writes

Next ==
    \/ Load
    \/ \E key \in Clusters : Add(key) \/ enqueue(key)
    \/ \E w \in Workers : Work(w)
    \/ WriteFile
    \/ Restart

Spec == Init /\ [][Next]_vars

(* The file informer delivers, delays pass and workers go on.              *)
FairSpec ==
    /\ Spec
    /\ WF_vars(Load)
    /\ \A key \in Clusters : WF_vars(Add(key))
    /\ \A w \in Workers : WF_vars(Work(w))

----------------------------------------------------------------------------
(* Properties *)

ConfigType == [cfg : [graph : Files \cup {"none"}, image : {"none", "graph", BaseImage}],
               load : Nat]
LoaderType == [pc : {"idle", "assign", "override", "list"},
               contents : Files \cup {"none"}, ns : 0 .. Len(Namespaces)]
WorkerType == [pc : {"idle", "sync", "handle"}, key : Clusters \cup {"none"},
               config : ConfigType]

TypeOK ==
    /\ file \in Files
    /\ fileEvent \in BOOLEAN
    /\ loader \in LoaderType
    /\ config \in ConfigType
    /\ locked \in BOOLEAN
    /\ lastConfigHash \in Files \cup {"none"}
    /\ delayed \subseteq Clusters
    /\ queue \in Seq(Clusters)
    /\ dirty \subseteq Clusters
    /\ processing \subseteq Clusters
    /\ worker \in [Workers -> WorkerType]
    /\ used \in [Clusters -> ConfigType]
    /\ missed \subseteq Clusters
    /\ writes \in 0 .. MaxWrites
    /\ faults \in 0 .. MaxFaults

(* No reconcile sees a configuration that is half replaced: what a worker  *)
(* copies has the image of the flag whenever it has a graph (loadConfig,   *)
(* syncOwnedResource).                                                     *)
CopiesAreWhole ==
    \A w \in Workers :
        LET cfg == worker[w].config.cfg
        IN  cfg = NoConfig.cfg \/ cfg = Override(Decode(cfg.graph))

(* A cluster is handled by one worker at a time, so that its reconciles    *)
(* follow the reloads: none of them uses an older configuration than the   *)
(* one before it, however long its worker is held up (Get, Done, Add).     *)
ReconcilesInOrder ==
    \A w \in Workers :
        worker[w].pc = "handle" =>
            /\ used[worker[w].key].load <= worker[w].config.load
            /\ \A v \in Workers \ {w} : worker[v].key # worker[w].key

(* Every change of the file reaches every cluster: eventually all of them  *)
(* are reconciled with the configuration in the file, for good, across     *)
(* panics and restarts.  Left out are the clusters that a failing list     *)
(* kept from being requeued: the hash is stored by then, so the reload is  *)
(* not tried again (loadConfig, enqueue).                                  *)
LatestConfigUsed ==
    <>[](file \notin Undecodable =>
            \A c \in Clusters \ missed : used[c].cfg = Override(Decode(file)))
=============================================================================
