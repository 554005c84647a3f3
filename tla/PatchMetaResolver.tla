-------------------------- MODULE PatchMetaResolver --------------------------
(***************************************************************************)
(* V3PatchMetaResolver of pkg/config: the cache of OpenAPI schemas that    *)
(* the workers share.  A caller finds or inserts the entry of its group-   *)
(* version under a mutex, and the entry is loaded under its own sync.Once. *)
(*                                                                         *)
(* The schemas of a group-version are reduced to what a caller can tell:   *)
(* the fetch failed (or had no components), the kind is not described, or  *)
(* its metadata was found.                                                 *)
(***************************************************************************)
EXTENDS Naturals, Sequences

CONSTANTS
    Callers,
    NoCaller,
    GroupVersions,
    Slow            \* the group-versions whose fetch may never return

ASSUME ResolverAssumption ==
    /\ NoCaller \notin Callers
    /\ GroupVersions \subseteq STRING \ {"none"}
    /\ Slow \subseteq GroupVersions

VARIABLES
    mu,             \* who holds the mutex
    cached,         \* the entry of each group-version, 0 for none
    entries,        \* the entries made: [gv, once, result]
    call,           \* the call of each caller: [pc, gv, gvs]
    told            \* history: the answers given

vars == <<mu, cached, entries, call, told>>

Outcomes == {"error", "unknown", "found"}

NoCall == [pc |-> "idle", gv |-> "none", gvs |-> 0]

Init ==
    /\ mu = NoCaller
    /\ cached = [gv \in GroupVersions |-> 0]
    /\ entries = <<>>
    /\ call = [c \in Callers |-> NoCall]
    /\ told = {}

At(c, pc) == call[c].pc = pc

Goto(c, pc) == call' = [call EXCEPT ![c].pc = pc]

(* The entry in the caller's hand.                                         *)
Entry(c) == entries[call[c].gvs]

LookupPatchMeta(c, gv) ==
    /\ At(c, "idle")
    /\ call' = [call EXCEPT ![c] = [pc |-> "lock", gv |-> gv, gvs |-> 0]]
    /\ UNCHANGED <<mu, cached, entries, told>>

(* Faulty: the map is read and written without the mutex.                  *)
Lock_NoMutex(c) ==
    /\ At(c, "lock")
    /\ Goto(c, "find")
    /\ UNCHANGED <<mu, cached, entries, told>>

Lock(c) ==
    /\ At(c, "lock")
    /\ mu = NoCaller
    /\ mu' = c
    /\ Goto(c, "find")
    /\ UNCHANGED <<cached, entries, told>>

Find(c) ==
    /\ At(c, "find")
    /\ call' = [call EXCEPT ![c].pc = "insert", ![c].gvs = cached[call[c].gv]]
    /\ UNCHANGED <<mu, cached, entries, told>>

(* Faulty: the mutex is not released when the entry is there.              *)
Insert_KeepsLock(c) ==
    /\ At(c, "insert")
    /\ IF call[c].gvs = 0
       THEN /\ entries' = Append(entries, [gv |-> call[c].gv, once |-> "new", result |-> "none"])
            /\ cached' = [cached EXCEPT ![call[c].gv] = Len(entries) + 1]
            /\ call' = [call EXCEPT ![c].pc = "once", ![c].gvs = Len(entries) + 1]
            /\ mu' = NoCaller
       ELSE /\ Goto(c, "once")
            /\ UNCHANGED <<mu, cached, entries>>
    /\ UNCHANGED told

(* The entry is made if there was none, and the mutex released.            *)
Insert(c) ==
    /\ At(c, "insert")
    /\ IF call[c].gvs = 0
       THEN /\ entries' = Append(entries, [gv |-> call[c].gv, once |-> "new", result |-> "none"])
            /\ cached' = [cached EXCEPT ![call[c].gv] = Len(entries) + 1]
            /\ call' = [call EXCEPT ![c].pc = "once", ![c].gvs = Len(entries) + 1]
       ELSE /\ Goto(c, "once")
            /\ UNCHANGED <<cached, entries>>
    /\ mu' = NoCaller
    /\ UNCHANGED told

(* Faulty: does not wait for a load that another caller runs.              *)
Once_NoWait(c) ==
    /\ At(c, "once")
    /\ \/ /\ Entry(c).once = "new"
          /\ entries' = [entries EXCEPT ![call[c].gvs].once = "running"]
          /\ Goto(c, "load")
       \/ /\ Entry(c).once # "new"
          /\ Goto(c, "answer")
          /\ UNCHANGED entries
    /\ UNCHANGED <<mu, cached, told>>

(* once.Do: the first caller runs the load, the others wait for its end.   *)
Once(c) ==
    /\ At(c, "once")
    /\ \/ /\ Entry(c).once = "new"
          /\ entries' = [entries EXCEPT ![call[c].gvs].once = "running"]
          /\ Goto(c, "load")
       \/ /\ Entry(c).once = "done"
          /\ Goto(c, "answer")
          /\ UNCHANGED entries
    /\ UNCHANGED <<mu, cached, told>>

load(c) ==
    /\ At(c, "load")
    /\ \E o \in Outcomes : entries' = [entries EXCEPT ![call[c].gvs].result = o]
    /\ Goto(c, "loaded")
    /\ UNCHANGED <<mu, cached, told>>

OnceDone(c) ==
    /\ At(c, "loaded")
    /\ entries' = [entries EXCEPT ![call[c].gvs].once = "done"]
    /\ Goto(c, "answer")
    /\ UNCHANGED <<mu, cached, told>>

Return(c) ==
    /\ At(c, "answer")
    /\ told' = told \cup {<<call[c].gv, Entry(c).result>>}
    /\ call' = [call EXCEPT ![c] = NoCall]
    /\ UNCHANGED <<mu, cached, entries>>

(* The process starts again: nothing of the cache is kept.                 *)
NewV3PatchMetaResolver ==
    /\ mu' = NoCaller
    /\ cached' = [gv \in GroupVersions |-> 0]
    /\ entries' = <<>>
    /\ call' = [c \in Callers |-> NoCall]
    /\ told' = {}

Step(c) == Lock(c) \/ Find(c) \/ Insert(c) \/ Once(c) \/ load(c) \/ OnceDone(c) \/ Return(c)

Next ==
    \/ \E c \in Callers, gv \in GroupVersions : LookupPatchMeta(c, gv)
    \/ \E c \in Callers : Step(c)
    \/ NewV3PatchMetaResolver

Spec == Init /\ [][Next]_vars

(* A goroutine that can go on does, and a Go mutex starves nobody; only    *)
(* the fetch of a slow group-version may hang.                             *)
Fairness ==
    \A c \in Callers :
        /\ SF_vars(Lock(c))
        /\ WF_vars(Find(c) \/ Insert(c) \/ Once(c) \/ OnceDone(c) \/ Return(c))
        /\ WF_vars(call[c].gv \notin Slow /\ load(c))

FairSpec == Spec /\ Fairness

----------------------------------------------------------------------------
(* Properties *)

CallType == [pc : {"idle", "lock", "find", "insert", "once", "load", "loaded", "answer"},
             gv : GroupVersions \cup {"none"}, gvs : Nat]
EntryType == [gv : GroupVersions, once : {"new", "running", "done"},
              result : Outcomes \cup {"none"}]

TypeOK ==
    /\ mu \in Callers \cup {NoCaller}
    /\ \A c \in Callers : mu = c <=> call[c].pc \in {"find", "insert"}
    /\ cached \in [GroupVersions -> Nat]
    /\ entries \in Seq(EntryType)
    /\ call \in [Callers -> CallType]
    /\ told \in SUBSET (GroupVersions \X (Outcomes \cup {"none"}))

(* However the callers interleave, the schemas of a group-version are      *)
(* fetched once in the life of the resolver, and no caller is answered     *)
(* from an entry that is still being loaded (groupVersion, load).          *)
FetchedOnce ==
    /\ \A i, j \in DOMAIN entries :
          entries[i].gv = entries[j].gv /\ entries[i].once # "new" /\ entries[j].once # "new"
              => i = j
    /\ \A t \in told : t[2] # "none"

(* The outcome that the callers of a group-version get.                    *)
Outcome(gv) ==
    IF cached[gv] # 0 /\ entries[cached[gv]].once = "done"
    THEN entries[cached[gv]].result ELSE "none"

Metadata == INSTANCE PatchMetadata
                WITH outcome <- [gv \in GroupVersions |-> Outcome(gv)],
                     asked <- [c \in Callers |-> {call[c].gv} \ {"none"}]

(* The resolver implements its promise: one fetch, one answer for all, an  *)
(* error included (groupVersion, LookupPatchMeta).                         *)
KeepsPromise == Metadata!Spec

(* patchmeta.go: "The fetch itself happens under each entry's own          *)
(* sync.Once, so a slow group-version doesn't block lookups for others."   *)
SlowBlocksNoOther ==
    \A c \in Callers : At(c, "lock") /\ call[c].gv \notin Slow ~> At(c, "idle")
=============================================================================
