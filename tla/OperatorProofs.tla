---------------------------- MODULE OperatorProofs ----------------------------
(***************************************************************************)
(* Proofs about the reload of the configuration and the workers, for any   *)
(* number of workers, namespaces and clusters, and any bounds on changes    *)
(* of the file and on faults.                                              *)
(***************************************************************************)
EXTENDS Operator, SequenceTheorems, TLAPS

(* A configuration as the workers may see it.                              *)
Whole(cfg) == cfg = NoConfig.cfg \/ cfg = Override(Decode(cfg.graph))

(* The queue holds a key once, and none that is being processed.           *)
Queued(q, waiting, busy) ==
    /\ \A i, j \in 1 .. Len(q) : q[i] = q[j] => i = j
    /\ \A i \in 1 .. Len(q) : q[i] \in waiting /\ q[i] \notin busy

QueueInv == Queued(queue, dirty, processing)

(* A key is processed by one worker.                                       *)
WorkerInv ==
    /\ \A w \in Workers :
          IF worker[w].pc = "idle" THEN worker[w].key = "none"
          ELSE worker[w].key \in Clusters /\ worker[w].key \in processing
    /\ \A v, w \in Workers :
          worker[v].pc # "idle" /\ worker[w].pc # "idle" /\ worker[v].key = worker[w].key
              => v = w

(* The configuration is whole whenever the lock is free.                   *)
LockInv ==
    /\ locked <=> loader.pc = "override"
    /\ loader.pc = "override" => config.cfg = Decode(loader.contents)
    /\ ~locked => Whole(config.cfg)
    /\ loader.pc = "list" => loader.ns \in 1 .. Len(Namespaces)

(* No copy is newer than the configuration, and the one in a worker's hand *)
(* is no older than what its cluster was reconciled with.                  *)
CopyInv ==
    /\ \A w \in Workers : Whole(worker[w].config.cfg) /\ worker[w].config.load <= config.load
    /\ \A c \in Clusters : used[c].load <= config.load
    /\ \A w \in Workers :
          worker[w].pc = "handle" => used[worker[w].key].load <= worker[w].config.load

Inv == TypeOK /\ QueueInv /\ WorkerInv /\ LockInv /\ CopyInv

----------------------------------------------------------------------------
(* The constants have their types.                                         *)
LEMMA ConstantTypes ==
    /\ NoConfig \in ConfigType /\ NoConfig.load = 0
    /\ Resting \in LoaderType /\ Resting.pc = "idle"
    /\ Free \in WorkerType /\ Free.pc = "idle" /\ Free.key = "none" /\ Free.config = NoConfig
<1>1. NoConfig \in ConfigType /\ NoConfig.load = 0
  BY DEF NoConfig, ConfigType
<1>2. Resting \in LoaderType /\ Resting.pc = "idle"
  BY OperatorAssumption DEF Resting, LoaderType
<1>3. Free \in WorkerType /\ Free.pc = "idle" /\ Free.key = "none" /\ Free.config = NoConfig
  BY <1>1 DEF Free, WorkerType
<1> QED
  BY <1>1, <1>2, <1>3

(* The namespaces hold the clusters.                                       *)
LEMMA NamespaceClusters == \A i \in 1 .. Len(Namespaces) : Namespaces[i] \subseteq Clusters
  BY OperatorAssumption DEF Clusters

(* An initial state is in order.                                           *)
LEMMA InitInv == Init => Inv
<1> SUFFICES ASSUME Init PROVE Inv
  OBVIOUS
<1>1. queue = <<>> /\ Len(queue) = 0 /\ queue \in Seq(Clusters)
  BY DEF Init
<1>2. worker \in [Workers -> WorkerType] /\ \A w \in Workers : worker[w] = Free
  BY ConstantTypes DEF Init
<1>3. used \in [Clusters -> ConfigType] /\ \A c \in Clusters : used[c] = NoConfig
  BY ConstantTypes DEF Init
<1>4. writes \in 0 .. MaxWrites /\ faults \in 0 .. MaxFaults
  BY OperatorAssumption DEF Init
<1>5. TypeOK
  BY <1>1, <1>2, <1>3, <1>4, ConstantTypes DEF Init, TypeOK
<1>6. QueueInv /\ WorkerInv
  BY <1>1, <1>2, ConstantTypes DEF QueueInv, Queued, WorkerInv
<1>7. LockInv
  BY ConstantTypes DEF Init, LockInv, Whole
<1>8. CopyInv
  BY <1>2, <1>3, ConstantTypes DEF Init, CopyInv, Whole
<1> QED
  BY <1>5, <1>6, <1>7, <1>8 DEF Inv

(* So is that of a process that starts again.                              *)
LEMMA RestartedInv ==
    ASSUME Inv, Restarted, writes' \in 0 .. MaxWrites, faults' \in 0 .. MaxFaults
    PROVE  Inv'
<1>1. queue' = <<>> /\ Len(queue') = 0 /\ queue' \in Seq(Clusters)
  BY DEF Restarted
<1>2. worker' \in [Workers -> WorkerType] /\ \A w \in Workers : worker'[w] = Free
  BY ConstantTypes DEF Restarted
<1>3. used' \in [Clusters -> ConfigType] /\ \A c \in Clusters : used'[c].load = 0
  <2>1. ASSUME NEW c \in Clusters
        PROVE  /\ [used[c] EXCEPT !.load = 0] \in ConfigType
               /\ [used[c] EXCEPT !.load = 0].load = 0
    BY DEF Inv, TypeOK, ConfigType
  <2> QED
    BY <2>1 DEF Restarted
<1>4. TypeOK'
  <2>1. fileEvent' \in BOOLEAN /\ locked' \in BOOLEAN
    BY DEF Restarted
  <2>2. /\ loader' \in LoaderType /\ config' \in ConfigType /\ file' \in Files
        /\ lastConfigHash' \in Files \cup {"none"}
    BY ConstantTypes DEF Restarted, Inv, TypeOK
  <2>3. /\ delayed' \subseteq Clusters /\ dirty' \subseteq Clusters
        /\ processing' \subseteq Clusters /\ missed' \subseteq Clusters
    BY DEF Restarted
  <2> QED
    BY <1>1, <1>2, <1>3, <2>1, <2>2, <2>3 DEF TypeOK
<1>5. QueueInv' /\ WorkerInv'
  BY <1>1, <1>2, ConstantTypes DEF QueueInv, Queued, WorkerInv
<1>6. LockInv'
  BY ConstantTypes DEF Restarted, LockInv, Whole
<1>7. CopyInv'
  <2>1. config' = NoConfig
    BY DEF Restarted
  <2> QED
    BY <1>2, <1>3, <2>1, ConstantTypes DEF CopyInv, Whole
<1> QED
  BY <1>4, <1>5, <1>6, <1>7 DEF Inv

(* The steps of the loader keep the invariant.                             *)
LEMMA LoaderInv == ASSUME Inv, Load PROVE Inv'
<1>0. /\ loader \in LoaderType /\ config \in ConfigType /\ file \in Files
      /\ config.load \in Nat /\ \A w \in Workers : worker[w].config.load \in Nat
      /\ \A c \in Clusters : used[c].load \in Nat
  <2>1. loader \in LoaderType /\ config \in ConfigType /\ file \in Files
    BY DEF Inv, TypeOK
  <2>2. \A w \in Workers : worker[w].config \in ConfigType
    BY DEF Inv, TypeOK, WorkerType
  <2>3. \A c \in Clusters : used[c] \in ConfigType
    BY DEF Inv, TypeOK
  <2> QED
    BY <2>1, <2>2, <2>3 DEF ConfigType
<1>1. CASE readConfig
  <2>1. CASE file \in Undecodable /\ Restarted
    BY <1>1, <2>1, RestartedInv DEF readConfig, Inv, TypeOK
  <2>2. CASE file \notin Undecodable /\ fileEvent' = FALSE
    <3>1. /\ loader.pc = "idle" /\ fileEvent' = FALSE
          /\ loader' = Resting \/ loader' = [pc |-> "assign", contents |-> file, ns |-> 0]
          /\ UNCHANGED <<file, config, locked, lastConfigHash, queueVars, worker, used, missed>>
          /\ UNCHANGED <<writes, faults>>
      BY <1>1, <2>2 DEF readConfig, Restarted
    <3>2. loader' \in LoaderType /\ loader'.pc \in {"idle", "assign"}
      BY <1>0, <3>1, ConstantTypes, OperatorAssumption DEF LoaderType
    <3>3. fileEvent' \in BOOLEAN
      BY <3>1
    <3>4. TypeOK'
      BY <3>1, <3>2, <3>3 DEF Inv, TypeOK, queueVars
    <3>5. QueueInv' /\ WorkerInv' /\ CopyInv'
      BY <3>1 DEF Inv, QueueInv, WorkerInv, CopyInv, queueVars
    <3>6. LockInv'
      BY <3>1, <3>2 DEF Inv, LockInv
    <3> QED
      BY <3>4, <3>5, <3>6 DEF Inv
  <2> QED
    BY <1>1, <2>1, <2>2 DEF readConfig
<1>2. CASE assignConfig
  <2>1. /\ loader.pc = "assign" /\ locked' = TRUE
        /\ config' = [cfg |-> Decode(loader.contents), load |-> config.load + 1]
        /\ loader' = [loader EXCEPT !.pc = "override"]
        /\ UNCHANGED <<file, fileEvent, lastConfigHash, queueVars, worker, used, missed>>
        /\ UNCHANGED <<writes, faults>>
    BY <1>2 DEF assignConfig
  <2>2. loader' \in LoaderType /\ loader'.pc = "override" /\ loader'.contents = loader.contents
    BY <1>0, <2>1 DEF LoaderType
  <2>3. loader.contents \in Files \cup {"none"}
    BY <1>0 DEF LoaderType
  <2>4. /\ config' \in ConfigType /\ config'.cfg = Decode(loader.contents)
        /\ config'.load = config.load + 1
    BY <1>0, <2>1, <2>3 DEF ConfigType, Decode
  <2>5. locked' \in BOOLEAN
    BY <2>1
  <2>6. TypeOK'
    BY <2>1, <2>2, <2>4, <2>5 DEF Inv, TypeOK, queueVars
  <2>7. QueueInv' /\ WorkerInv'
    BY <2>1 DEF Inv, QueueInv, WorkerInv, queueVars
  <2>8. LockInv'
    BY <2>1, <2>2, <2>4 DEF LockInv
  <2>9. CopyInv'
    BY <1>0, <2>1, <2>4 DEF Inv, CopyInv
  <2> QED
    BY <2>6, <2>7, <2>8, <2>9 DEF Inv
<1>3. CASE overrideImage
  <2>1. /\ loader.pc = "override" /\ locked' = FALSE
        /\ config' = [config EXCEPT !.cfg = Override(config.cfg)]
        /\ lastConfigHash' = loader.contents
        /\ loader' = [loader EXCEPT !.pc = "list", !.ns = 1]
        /\ UNCHANGED <<file, fileEvent, queueVars, worker, used, missed, writes, faults>>
    BY <1>3 DEF overrideImage
  <2>2. /\ loader' \in LoaderType /\ loader'.pc = "list" /\ loader'.ns = 1
        /\ 1 \in 1 .. Len(Namespaces)
    <3>1. 1 \in 1 .. Len(Namespaces) /\ 1 \in 0 .. Len(Namespaces)
      BY OperatorAssumption
    <3> QED
      BY <1>0, <2>1, <3>1 DEF LoaderType
  <2>3. loader.contents \in Files \cup {"none"}
    BY <1>0 DEF LoaderType
  <2>4. config.cfg = Decode(loader.contents)
    BY <2>1 DEF Inv, LockInv
  <2> DEFINE cfg == Override(Decode(loader.contents))
  <2>5. /\ cfg \in [graph : Files \cup {"none"}, image : {"none", "graph", BaseImage}]
        /\ cfg.graph = loader.contents
    BY <2>3 DEF Override, Decode
  <2>6. config' \in ConfigType /\ config'.cfg = cfg /\ config'.load = config.load
    <3> HIDE DEF cfg
    <3>1. config' = [config EXCEPT !.cfg = cfg]
      BY <2>1, <2>4 DEF cfg
    <3> QED
      BY <1>0, <2>5, <3>1 DEF ConfigType
  <2>7. Whole(config'.cfg)
    BY <2>5, <2>6 DEF Whole
  <2> HIDE DEF cfg
  <2>8. locked' \in BOOLEAN
    BY <2>1
  <2>9. TypeOK'
    BY <2>1, <2>2, <2>3, <2>6, <2>8 DEF Inv, TypeOK, queueVars
  <2>10. QueueInv' /\ WorkerInv'
    BY <2>1 DEF Inv, QueueInv, WorkerInv, queueVars
  <2>11. LockInv'
    BY <2>1, <2>2, <2>7 DEF LockInv, Whole
  <2>12. CopyInv'
    BY <1>0, <2>1, <2>6 DEF Inv, CopyInv
  <2> QED
    BY <2>9, <2>10, <2>11, <2>12 DEF Inv
<1>4. CASE requeueClusters
  <2>1. /\ loader.pc = "list" /\ loader.ns \in 1 .. Len(Namespaces)
        /\ UNCHANGED <<file, fileEvent, config, locked, lastConfigHash, queue, dirty>>
        /\ UNCHANGED <<processing, worker, used, writes>>
    BY <1>4 DEF requeueClusters, Inv, LockInv
  <2>2. delayed' \subseteq Clusters
    BY <1>4, <2>1, NamespaceClusters DEF requeueClusters, AddRateLimited, Inv, TypeOK
  <2>3. missed' \subseteq Clusters
    BY <1>4, <2>1, NamespaceClusters DEF requeueClusters, Inv, TypeOK
  <2>4. faults' \in 0 .. MaxFaults
    BY <1>4, OperatorAssumption DEF requeueClusters, Inv, TypeOK
  <2>5. /\ loader' \in LoaderType /\ loader'.pc \in {"idle", "list"}
        /\ loader'.pc = "list" => loader'.ns \in 1 .. Len(Namespaces)
    <3>1. CASE loader' = Resting
      BY <3>1, ConstantTypes
    <3>2. CASE /\ loader' = [loader EXCEPT !.ns = loader.ns + 1]
               /\ loader.ns # Len(Namespaces)
      <4>1. loader.ns + 1 \in 1 .. Len(Namespaces)
        BY <2>1, <3>2, OperatorAssumption
      <4>2. PICK n \in 1 .. Len(Namespaces) : n = loader.ns + 1
        BY <4>1
      <4>3. loader' = [loader EXCEPT !.ns = n] /\ n \in 0 .. Len(Namespaces)
        BY <3>2, <4>2, OperatorAssumption
      <4> QED
        BY <1>0, <2>1, <4>3 DEF LoaderType
    <3> QED
      BY <1>4, <3>1, <3>2 DEF requeueClusters
  <2>6. TypeOK'
    BY <2>1, <2>2, <2>3, <2>4, <2>5 DEF Inv, TypeOK
  <2>7. QueueInv' /\ WorkerInv' /\ CopyInv'
    BY <2>1 DEF Inv, QueueInv, WorkerInv, CopyInv
  <2>8. LockInv'
    BY <2>1, <2>5 DEF Inv, LockInv
  <2> QED
    BY <2>6, <2>7, <2>8 DEF Inv
<1> QED
  BY <1>1, <1>2, <1>3, <1>4 DEF Load

----------------------------------------------------------------------------
(* A key that the queue does not hold can be appended to it.               *)
LEMMA AppendQueued ==
    ASSUME NEW q \in Seq(Clusters), NEW waiting, NEW busy, NEW key \in Clusters,
           Queued(q, waiting, busy), key \in waiting, key \notin busy,
           \A i \in 1 .. Len(q) : q[i] # key
    PROVE  Append(q, key) \in Seq(Clusters) /\ Queued(Append(q, key), waiting, busy)
<1>1. /\ Append(q, key) \in Seq(Clusters) /\ Len(q) \in Nat
      /\ Len(Append(q, key)) = Len(q) + 1
      /\ \A i \in 1 .. Len(q) : Append(q, key)[i] = q[i]
      /\ Append(q, key)[Len(q) + 1] = key
  BY AppendProperties
<1>2. \A i \in 1 .. Len(q) + 1 : i \in 1 .. Len(q) \/ i = Len(q) + 1
  BY <1>1
<1> QED
  BY <1>1, <1>2 DEF Queued

(* A key that is not taken from the queue stays there when the head is.    *)
LEMMA TailQueued ==
    ASSUME NEW q \in Seq(Clusters), NEW waiting, NEW busy, q # <<>>,
           Queued(q, waiting, busy)
    PROVE  /\ Tail(q) \in Seq(Clusters) /\ Head(q) \in Clusters /\ Head(q) \notin busy
           /\ Queued(Tail(q), waiting \ {Head(q)}, busy \cup {Head(q)})
<1>1. /\ Head(q) = q[1] /\ Head(q) \in Clusters /\ Tail(q) \in Seq(Clusters)
      /\ Len(q) \in Nat /\ Len(q) > 0
      /\ Len(Tail(q)) = Len(q) - 1
      /\ \A i \in 1 .. Len(Tail(q)) : Tail(q)[i] = q[i + 1]
  BY HeadTailProperties, LenProperties, EmptySeq
<1>2. \A i \in 1 .. Len(q) - 1 : i + 1 \in 1 .. Len(q) /\ i + 1 # 1
  BY <1>1
<1>3. 1 \in 1 .. Len(q)
  BY <1>1
<1>4. \A i \in 1 .. Len(q) - 1 : q[i + 1] # q[1]
  BY <1>2, <1>3 DEF Queued
<1>5. \A i, j \in 1 .. Len(q) - 1 : q[i + 1] = q[j + 1] => i = j
  <2>1. \A i, j \in 1 .. Len(q) - 1 : q[i + 1] = q[j + 1] => i + 1 = j + 1
    BY <1>2 DEF Queued
  <2> QED
    BY <1>1, <2>1
<1>6. \A i \in 1 .. Len(q) - 1 : q[i + 1] \in waiting /\ q[i + 1] \notin busy
  BY <1>2 DEF Queued
<1>7. \A i, j \in 1 .. Len(Tail(q)) : Tail(q)[i] = Tail(q)[j] => i = j
  BY <1>1, <1>5
<1>8. \A i \in 1 .. Len(Tail(q)) :
          /\ Tail(q)[i] \in waiting \ {Head(q)}
          /\ Tail(q)[i] \notin busy \cup {Head(q)}
  BY <1>1, <1>4, <1>6
<1>9. Head(q) \notin busy
  BY <1>1, <1>3 DEF Queued
<1> QED
  BY <1>1, <1>7, <1>8, <1>9 DEF Queued

(* A key may be waiting that was not, if the queue has it only once.       *)
LEMMA AddInv == ASSUME Inv, NEW key \in Clusters, Add(key) PROVE Inv'
<1>1. /\ delayed' = delayed \ {key} /\ dirty' = dirty \cup {key}
      /\ queue' = IF key \in dirty \/ key \in processing THEN queue ELSE Append(queue, key)
      /\ UNCHANGED <<file, fileEvent, configVars, processing, worker, used, missed>>
      /\ UNCHANGED <<writes, faults>>
  BY DEF Add
<1>2. queue \in Seq(Clusters) /\ Queued(queue, dirty, processing)
  BY DEF Inv, TypeOK, QueueInv
<1>3. Queued(queue, dirty \cup {key}, processing)
  BY <1>2 DEF Queued
<1>4. queue' \in Seq(Clusters) /\ Queued(queue', dirty', processing)
  <2>1. CASE key \in dirty \/ key \in processing
    BY <1>1, <1>2, <1>3, <2>1
  <2>2. CASE ~(key \in dirty \/ key \in processing)
    <3>1. \A i \in 1 .. Len(queue) : queue[i] # key
      BY <1>2, <2>2 DEF Queued
    <3>2. /\ Append(queue, key) \in Seq(Clusters)
          /\ Queued(Append(queue, key), dirty \cup {key}, processing)
      BY <1>2, <1>3, <2>2, <3>1, AppendQueued
    <3> QED
      BY <1>1, <2>2, <3>2
  <2> QED
    BY <2>1, <2>2
<1>5. TypeOK'
  BY <1>1, <1>4 DEF Inv, TypeOK, configVars
<1>6. QueueInv'
  BY <1>1, <1>4 DEF QueueInv
<1>7. WorkerInv' /\ LockInv' /\ CopyInv'
  BY <1>1 DEF Inv, WorkerInv, LockInv, CopyInv, configVars
<1> QED
  BY <1>5, <1>6, <1>7 DEF Inv

(* A worker takes the head of the queue, which no other worker has.        *)
LEMMA GetInv == ASSUME Inv, NEW w \in Workers, Get(w) PROVE Inv'
<1>1. /\ worker[w].pc = "idle" /\ queue # <<>> /\ queue' = Tail(queue)
      /\ processing' = processing \cup {Head(queue)} /\ dirty' = dirty \ {Head(queue)}
      /\ worker' = [worker EXCEPT ![w] = [Free EXCEPT !.pc = "sync", !.key = Head(queue)]]
      /\ UNCHANGED <<file, fileEvent, configVars, delayed, used, missed, writes, faults>>
  BY DEF Get
<1>2. /\ Tail(queue) \in Seq(Clusters) /\ Head(queue) \in Clusters
      /\ Head(queue) \notin processing
      /\ Queued(Tail(queue), dirty \ {Head(queue)}, processing \cup {Head(queue)})
  BY <1>1, TailQueued DEF Inv, TypeOK, QueueInv
<1>3. PICK key \in Clusters : key = Head(queue)
  BY <1>2
<1>4. PICK r \in WorkerType : /\ r = [Free EXCEPT !.pc = "sync", !.key = key]
                              /\ r.pc = "sync" /\ r.key = key /\ r.config = NoConfig
  <2> DEFINE s == [Free EXCEPT !.pc = "sync", !.key = key]
  <2>1. s \in WorkerType /\ s.pc = "sync" /\ s.key = key /\ s.config = NoConfig
    BY ConstantTypes DEF WorkerType
  <2> HIDE DEF s
  <2>2. \E r \in WorkerType : /\ r = s /\ r.pc = "sync" /\ r.key = key
                             /\ r.config = NoConfig
    BY <2>1
  <2> QED
    BY <2>2 DEF s
<1>5. /\ worker' \in [Workers -> WorkerType] /\ worker'[w] = r
      /\ \A v \in Workers \ {w} : worker'[v] = worker[v]
  BY <1>1, <1>3, <1>4 DEF Inv, TypeOK
<1>6. TypeOK'
  BY <1>1, <1>2, <1>5 DEF Inv, TypeOK, configVars
<1>7. QueueInv'
  BY <1>1, <1>2 DEF QueueInv
<1>8. WorkerInv'
  BY <1>1, <1>2, <1>3, <1>4, <1>5 DEF Inv, WorkerInv
<1>9. LockInv'
  BY <1>1 DEF Inv, LockInv, configVars
<1>10. CopyInv'
  <2>1. NoConfig.load <= config.load /\ Whole(NoConfig.cfg)
    BY ConstantTypes DEF Inv, TypeOK, ConfigType, Whole
  <2> QED
    BY <1>1, <1>4, <1>5, <2>1 DEF Inv, CopyInv, configVars
<1> QED
  BY <1>6, <1>7, <1>8, <1>9, <1>10 DEF Inv

(* The copy is taken when the lock is free, so it is whole; it is the      *)
(* newest there is.                                                        *)
LEMMA SyncInv == ASSUME Inv, NEW w \in Workers, syncOwnedResource(w) PROVE Inv'
<1>1. /\ worker[w].pc = "sync" /\ ~locked
      /\ worker' = [worker EXCEPT ![w] =
                       [worker[w] EXCEPT !.pc = "handle", !.config = config]]
      /\ UNCHANGED <<file, fileEvent, configVars, queueVars, used, missed, writes, faults>>
  <2>1. worker[w] \in WorkerType
    BY DEF Inv, TypeOK
  <2> QED
    BY <2>1 DEF syncOwnedResource, Inv, TypeOK
<1>2. worker[w] \in WorkerType /\ config \in ConfigType
  BY DEF Inv, TypeOK
<1>3. PICK r \in WorkerType : /\ r = [worker[w] EXCEPT !.pc = "handle", !.config = config]
                              /\ r.pc = "handle" /\ r.key = worker[w].key
                              /\ r.config = config
  <2> DEFINE s == [worker[w] EXCEPT !.pc = "handle", !.config = config]
  <2>1. s \in WorkerType /\ s.pc = "handle" /\ s.key = worker[w].key /\ s.config = config
    BY <1>2 DEF WorkerType
  <2> HIDE DEF s
  <2>2. \E r \in WorkerType : /\ r = s /\ r.pc = "handle" /\ r.key = worker[w].key
                             /\ r.config = config
    BY <2>1
  <2> QED
    BY <2>2 DEF s
<1>4. /\ worker' \in [Workers -> WorkerType] /\ worker'[w] = r
      /\ \A v \in Workers \ {w} : worker'[v] = worker[v]
  BY <1>1, <1>3 DEF Inv, TypeOK
<1>5. TypeOK'
  BY <1>1, <1>4 DEF Inv, TypeOK, configVars, queueVars
<1>6. QueueInv' /\ LockInv'
  BY <1>1 DEF Inv, QueueInv, LockInv, configVars, queueVars
<1>7. WorkerInv'
  BY <1>1, <1>3, <1>4 DEF Inv, WorkerInv, queueVars
<1>8. CopyInv'
  <2>1. Whole(config.cfg) /\ config.load <= config.load /\ worker[w].key \in Clusters
    BY <1>1, <1>2 DEF Inv, LockInv, WorkerInv, ConfigType
  <2> QED
    BY <1>1, <1>3, <1>4, <2>1 DEF Inv, CopyInv, configVars
<1> QED
  BY <1>5, <1>6, <1>7, <1>8 DEF Inv

(* What a worker leaves behind concerns its own cluster only.              *)
LEMMA FinishInv == ASSUME Inv, NEW w \in Workers, Finish(w) PROVE Inv'
<1>1. worker[w].pc = "handle" /\ worker[w] \in WorkerType
  BY DEF Finish, Inv, TypeOK
<1>2. PICK key \in Clusters : key = worker[w].key /\ key \in processing
  BY <1>1 DEF Inv, WorkerInv
<1>3. PICK c \in ConfigType : c = worker[w].config
  BY <1>1 DEF WorkerType
<1>4. /\ used' = [used EXCEPT ![key] = c]
      /\ processing' = processing \ {key}
      /\ queue' = IF key \in dirty THEN Append(queue, key) ELSE queue
      /\ worker' = [worker EXCEPT ![w] = Free]
      /\ UNCHANGED <<file, fileEvent, configVars, dirty, missed, writes, faults>>
  BY <1>2, <1>3 DEF Finish
<1>5. delayed' \subseteq Clusters
  BY <1>2 DEF Finish, AddRateLimited, Inv, TypeOK
<1>6. /\ worker' \in [Workers -> WorkerType] /\ worker'[w] = Free
      /\ \A v \in Workers \ {w} : worker'[v] = worker[v]
  BY <1>4, ConstantTypes DEF Inv, TypeOK
<1>7. /\ used' \in [Clusters -> ConfigType] /\ used'[key] = c
      /\ \A d \in Clusters \ {key} : used'[d] = used[d]
  BY <1>4 DEF Inv, TypeOK
<1>8. queue' \in Seq(Clusters) /\ Queued(queue', dirty, processing \ {key})
  <2>1. queue \in Seq(Clusters) /\ Queued(queue, dirty, processing)
    BY DEF Inv, TypeOK, QueueInv
  <2>2. Queued(queue, dirty, processing \ {key}) /\ \A i \in 1 .. Len(queue) : queue[i] # key
    BY <1>2, <2>1 DEF Queued
  <2>3. CASE key \in dirty
    <3>1. key \notin processing \ {key}
      OBVIOUS
    <3>2. /\ Append(queue, key) \in Seq(Clusters)
          /\ Queued(Append(queue, key), dirty, processing \ {key})
      BY <2>1, <2>2, <2>3, <3>1, AppendQueued
    <3> QED
      BY <1>4, <2>3, <3>2
  <2> QED
    BY <1>4, <2>1, <2>2, <2>3
<1>9. TypeOK'
  BY <1>4, <1>5, <1>6, <1>7, <1>8 DEF Inv, TypeOK, configVars
<1>10. QueueInv'
  BY <1>4, <1>8 DEF QueueInv
<1>11. WorkerInv'
  BY <1>1, <1>2, <1>4, <1>6, ConstantTypes DEF Inv, WorkerInv
<1>12. LockInv'
  BY <1>4 DEF Inv, LockInv, configVars
<1>13. CopyInv'
  <2>1. NoConfig.load <= config.load /\ Whole(NoConfig.cfg)
    BY ConstantTypes DEF Inv, TypeOK, ConfigType, Whole
  <2>2. c.load <= config.load
    BY <1>3 DEF Inv, CopyInv
  <2>3. \A v \in Workers \ {w} : worker[v].pc = "handle" => worker[v].key \in Clusters \ {key}
    BY <1>1, <1>2 DEF Inv, WorkerInv
  <2> QED
    BY <1>4, <1>6, <1>7, <2>1, <2>2, <2>3, ConstantTypes DEF Inv, CopyInv, configVars
<1> QED
  BY <1>9, <1>10, <1>11, <1>12, <1>13 DEF Inv

----------------------------------------------------------------------------
(* Every step keeps the invariant.                                         *)
LEMMA Invariance == Inv /\ [Next]_vars => Inv'
<1> SUFFICES ASSUME Inv, [Next]_vars PROVE Inv'
  OBVIOUS
<1>1. CASE Load
  BY <1>1, LoaderInv
<1>2. ASSUME NEW key \in Clusters, Add(key) PROVE Inv'
  BY <1>2, AddInv
<1>3. ASSUME NEW key \in Clusters, enqueue(key) PROVE Inv'
  <2>1. UNCHANGED <<file, fileEvent, configVars, queue, dirty, processing, worker, used>>
        /\ UNCHANGED <<writes, faults>>
    BY <1>3 DEF enqueue
  <2>2. delayed' \subseteq Clusters /\ missed' \subseteq Clusters
    BY <1>3 DEF enqueue, AddRateLimited, Inv, TypeOK
  <2>3. TypeOK'
    BY <2>1, <2>2 DEF Inv, TypeOK, configVars
  <2>4. QueueInv' /\ WorkerInv' /\ LockInv' /\ CopyInv'
    BY <2>1 DEF Inv, QueueInv, WorkerInv, LockInv, CopyInv, configVars
  <2> QED
    BY <2>3, <2>4 DEF Inv
<1>4. ASSUME NEW w \in Workers, Work(w) PROVE Inv'
  BY <1>4, GetInv, SyncInv, FinishInv DEF Work
<1>5. CASE WriteFile
  <2>1. UNCHANGED <<configVars, queueVars, worker, used, missed, faults>>
    BY <1>5 DEF WriteFile
  <2>2. file' \in Files /\ fileEvent' \in BOOLEAN
    BY <1>5 DEF WriteFile
  <2>3. writes' \in 0 .. MaxWrites
    BY <1>5, OperatorAssumption DEF WriteFile, Inv, TypeOK
  <2>4. TypeOK'
    BY <2>1, <2>2, <2>3 DEF Inv, TypeOK, configVars, queueVars
  <2>5. QueueInv' /\ WorkerInv' /\ LockInv' /\ CopyInv'
    BY <2>1 DEF Inv, QueueInv, WorkerInv, LockInv, CopyInv, configVars, queueVars
  <2> QED
    BY <2>4, <2>5 DEF Inv
<1>6. CASE Restart
  <2>1. writes' \in 0 .. MaxWrites /\ faults' \in 0 .. MaxFaults
    BY <1>6, OperatorAssumption DEF Restart, Inv, TypeOK
  <2> QED
    BY <1>6, <2>1, RestartedInv DEF Restart
<1>7. CASE UNCHANGED vars
  BY <1>7 DEF vars, configVars, queueVars, Inv, TypeOK, QueueInv, WorkerInv, LockInv, CopyInv
<1> QED
  BY <1>1, <1>2, <1>3, <1>4, <1>5, <1>6, <1>7 DEF Next

LEMMA InvHolds == Spec => []Inv
  BY InitInv, Invariance, PTL DEF Spec

----------------------------------------------------------------------------
(* The state of the loader, of the queue and of the workers keeps its      *)
(* type: the loader never looks for a namespace that is not there, and a   *)
(* worker never works on a key that is no cluster.                         *)
THEOREM TypeCorrect == Spec => []TypeOK
<1>1. Inv => TypeOK
  BY DEF Inv
<1> QED
  BY <1>1, InvHolds, PTL

(* No reconcile uses a configuration that loadConfig has only half         *)
(* replaced, however many workers there are.                               *)
THEOREM CopiesAreWholeHolds == Spec => []CopiesAreWhole
<1>1. Inv => CopiesAreWhole
  BY DEF Inv, CopyInv, CopiesAreWhole, Whole
<1> QED
  BY <1>1, InvHolds, PTL

(* The work queue gives a cluster to one worker at a time, so no reconcile *)
(* of a cluster uses an older configuration than the one before it.        *)
THEOREM ReconcilesInOrderHolds == Spec => []ReconcilesInOrder
<1>1. Inv => ReconcilesInOrder
  BY OperatorAssumption DEF Inv, CopyInv, WorkerInv, ReconcilesInOrder
<1> QED
  BY <1>1, InvHolds, PTL
=============================================================================
