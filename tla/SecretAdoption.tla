---------------------------- MODULE SecretAdoption ----------------------------
(***************************************************************************)
(* How clusters adopt the secrets that their credentials name: the chain   *)
(* secretAdopter, collectSecrets of pkg/controller for several clusters,   *)
(* roles and secrets, and the informer that tells the clusters of changes. *)
(*                                                                         *)
(* A role's handler labels the secret under a field manager of the role,   *)
(* and annotates it with the cluster under one of the cluster, so that a   *)
(* secret is its data, the roles whose manager holds labels on it and the  *)
(* clusters it is annotated with.  The role "" is the legacy SecretRef.    *)
(* The watch sees labelled secrets only and delivers every change of them, *)
(* in order.                                                               *)
(*                                                                         *)
(* The rest of a reconcile is reduced to the credentials it was done with: *)
(* when they change, so does the status, which enqueues the cluster again. *)
(* A step is one API call or a handler that makes none.  Secrets appear    *)
(* and change, and are not deleted.                                        *)
(***************************************************************************)
EXTENDS Naturals, Sequences

CONSTANTS
    Clusters,
    Secrets,        \* the names of secrets
    Roles,          \* the credential roles, in the order of their handlers
    Credentials,    \* the credentials a cluster may have: role -> name, or ""
    MaxEdits,       \* bound: changes of credentials
    MaxWrites,      \* bound: changes of the contents of secrets
    MaxFaults       \* bound: failing API calls

RoleSet == {Roles[i] : i \in DOMAIN Roles}

ASSUME AdoptionAssumption ==
    /\ "" \notin Secrets
    /\ Len(Roles) \in Nat /\ DOMAIN Roles = 1 .. Len(Roles)
    /\ Credentials \subseteq [RoleSet -> Secrets \cup {""}]
    /\ MaxEdits \in Nat /\ MaxWrites \in Nat /\ MaxFaults \in Nat

(* Credentials may name the secret for the role.                           *)
Pool(s, r) == \E a \in Credentials : a[r] = s

(* One cluster, whose roles have secrets of their own; the legacy role ""  *)
(* is not mixed with others.                                               *)
SecretsApart ==
    /\ \A c, d \in Clusters : c = d
    /\ \A s \in Secrets : \A r, q \in RoleSet : Pool(s, r) /\ Pool(s, q) => r = q
    /\ "" \in RoleSet => RoleSet = {""}

VARIABLES
    secret,         \* the secrets: [data, managers, owners]; data 0 for none
    creds,          \* the credentials of each cluster's spec
    log,            \* the events that the secret informer has not delivered
    cache,          \* the secrets as delivered
    queued,         \* the clusters in the work queue
    task,           \* the reconcile of each cluster: [pc, creds, i, owned, stale, old]
    using,          \* the secrets each cluster was last reconciled with: [Secrets -> data]
    left            \* [edits, writes, faults]

vars == <<secret, creds, log, cache, queued, task, using, left>>

NoSecret == [data |-> 0, managers |-> {}, owners |-> {}]

NoCredentials == [r \in RoleSet |-> ""]

NoTask ==
    [pc |-> "idle", creds |-> NoCredentials, i |-> 0, owned |-> FALSE, stale |-> {}, old |-> ""]

Unused == [s \in Secrets |-> 0]

Init ==
    /\ \E data \in [Secrets -> 0 .. 1] :
          secret = [s \in Secrets |-> [NoSecret EXCEPT !.data = data[s]]]
    /\ creds \in [Clusters -> Credentials]
    /\ log = <<>>
    /\ cache = [s \in Secrets |-> NoSecret]
    /\ queued = Clusters
    /\ task = [c \in Clusters |-> NoTask]
    /\ using = [c \in Clusters |-> Unused]
    /\ left = [edits |-> MaxEdits, writes |-> MaxWrites, faults |-> MaxFaults]

----------------------------------------------------------------------------
(* The API server *)

Labelled(o) == o.data # 0 /\ o.managers # {}

(* Writes a secret.  The watch has an event for it if its selector matches *)
(* the secret before or after; one that matches no longer is deleted, with *)
(* its last contents.                                                      *)
Write(s, new) ==
    LET old == secret[s]
    IN  /\ secret' = [secret EXCEPT ![s] = new]
        /\ log' = IF new = old \/ ~(Labelled(old) \/ Labelled(new)) THEN log
                  ELSE IF Labelled(new) THEN Append(log, [name |-> s, obj |-> new, gone |-> FALSE])
                  ELSE Append(log, [name |-> s, obj |-> old, gone |-> TRUE])

(* Server-side apply of the labels of a role, of none, of the annotation   *)
(* of a cluster, and of none.                                              *)
ApplyLabels(s, r)  == Write(s, [secret[s] EXCEPT !.managers = @ \cup {r}])
DropLabels(s, r)   == Write(s, [secret[s] EXCEPT !.managers = @ \ {r}])
ApplyOwner(s, c)   == Write(s, [secret[s] EXCEPT !.owners = @ \cup {c}])
DropOwner(s, c)    == Write(s, [secret[s] EXCEPT !.owners = @ \ {c}])

----------------------------------------------------------------------------
(* The handlers of a cluster *)

At(c, pc) == task[c].pc = pc

Role(c) == Roles[task[c].i]

Adoptee(c) == task[c].creds[Role(c)]

Requeue(c) ==
    /\ task' = [task EXCEPT ![c] = NoTask]
    /\ queued' = queued \cup {c}

(* Goes on with the first role from i on that has a secret, or with        *)
(* collectSecrets after the last (credentialSecretsForCluster).            *)
NextRole(c, t, i) ==
    LET todo == {j \in i .. Len(Roles) : t.creds[Roles[j]] # ""}
    IN  task' = [task EXCEPT ![c] =
            IF todo = {} THEN [NoTask EXCEPT !.pc = "collect", !.creds = t.creds]
            ELSE [NoTask EXCEPT !.pc = "labels", !.creds = t.creds,
                                !.i = CHOOSE j \in todo : \A k \in todo : j <= k]]

CallFails(c) ==
    /\ left.faults > 0
    /\ left' = [left EXCEPT !.faults = @ - 1]
    /\ Requeue(c)
    /\ UNCHANGED <<secret, log>>

syncOwnedResource(c) ==
    /\ At(c, "idle")
    /\ c \in queued
    /\ queued' = queued \ {c}
    /\ NextRole(c, [NoTask EXCEPT !.creds = creds[c]], 1)
    /\ UNCHANGED <<secret, creds, log, cache, using, left>>

(* The cached secret counts only if it carries the label of the role.      *)
InCache(s, r) == Labelled(cache[s]) /\ (r # "" => r \in cache[s].managers)

(* A secret that is not in the cache is labelled if it exists, and         *)
(* reported as missing otherwise.                                          *)
adoptLabels(c) ==
    LET s == Adoptee(c)
        r == Role(c)
    IN  /\ At(c, "labels")
        /\ \/ /\ InCache(s, r)
              /\ task' = [task EXCEPT ![c].pc = "owner", ![c].owned = c \in cache[s].owners]
              /\ UNCHANGED <<secret, log, queued, left>>
           \/ /\ ~InCache(s, r) /\ secret[s].data # 0
              /\ ApplyLabels(s, r)
              /\ task' = [task EXCEPT ![c].pc = "owner", ![c].owned = c \in secret[s].owners]
              /\ UNCHANGED <<queued, left>>
           \/ /\ ~InCache(s, r) /\ secret[s].data = 0
              /\ Requeue(c)
              /\ UNCHANGED <<secret, log, left>>
           \/ ~InCache(s, r) /\ CallFails(c)
        /\ UNCHANGED <<creds, cache, using>>

(* Faulty: the index of each role has all the secrets of the cluster.      *)
Stale_AnyRole(c) == {s \in Secrets \ {Adoptee(c)} : Labelled(cache[s]) /\ c \in cache[s].owners}

(* The secrets that the index of the role has for the cluster, without the *)
(* adopted one.                                                            *)
Stale(c) == {s \in Secrets \ {Adoptee(c)} : InCache(s, Role(c)) /\ c \in cache[s].owners}

(* The annotation is applied unless it is there; then the index is read.   *)
adoptOwner(c) ==
    /\ At(c, "owner")
    /\ \/ /\ IF task[c].owned THEN UNCHANGED <<secret, log>> ELSE ApplyOwner(Adoptee(c), c)
          /\ task' = [task EXCEPT ![c].pc = "stale", ![c].stale = Stale(c)]
          /\ UNCHANGED <<queued, left>>
       \/ ~task[c].owned /\ CallFails(c)
    /\ UNCHANGED <<creds, cache, using>>

(* A secret of the index that has no other owner loses the labels of the   *)
(* role; then it loses the annotation of the cluster.                      *)
releaseLabels(c) ==
    /\ At(c, "stale")
    /\ \/ /\ task[c].stale = {}
          /\ NextRole(c, task[c], task[c].i + 1)
          /\ UNCHANGED <<secret, log, queued, left>>
       \/ \E s \in task[c].stale :
             \/ /\ IF cache[s].owners = {c} THEN DropLabels(s, Role(c))
                   ELSE UNCHANGED <<secret, log>>
                /\ task' = [task EXCEPT ![c].pc = "release", ![c].stale = @ \ {s}, ![c].old = s]
                /\ UNCHANGED <<queued, left>>
             \/ cache[s].owners = {c} /\ CallFails(c)
    /\ UNCHANGED <<creds, cache, using>>

releaseOwner(c) ==
    /\ At(c, "release")
    /\ \/ /\ DropOwner(task[c].old, c)
          /\ task' = [task EXCEPT ![c].pc = "stale", ![c].old = ""]
          /\ UNCHANGED <<queued, left>>
       \/ CallFails(c)
    /\ UNCHANGED <<creds, cache, using>>

(* Faulty: what is not in the cache is read from the API server.           *)
collectSecrets_OrLive(c) ==
    LET named == {task[c].creds[r] : r \in RoleSet}
        found == [s \in Secrets |->
                    CASE s \notin named     -> 0
                      [] s \in named /\ Labelled(cache[s]) -> cache[s].data
                      [] OTHER -> secret[s].data]
    IN  /\ At(c, "collect")
        /\ using' = [using EXCEPT ![c] = found]
        /\ task' = [task EXCEPT ![c] = NoTask]
        /\ queued' = IF found = using[c] THEN queued ELSE queued \cup {c}
        /\ UNCHANGED <<secret, creds, log, cache, left>>

(* The secrets are taken from the cache, whatever roles they have; the     *)
(* rest of the reconcile is done with them, and a change is written to the *)
(* status.                                                                 *)
collectSecrets(c) ==
    LET named == {task[c].creds[r] : r \in RoleSet}
        found == [s \in Secrets |-> IF s \in named /\ Labelled(cache[s]) THEN cache[s].data ELSE 0]
    IN  /\ At(c, "collect")
        /\ using' = [using EXCEPT ![c] = found]
        /\ task' = [task EXCEPT ![c] = NoTask]
        /\ queued' = IF found = using[c] THEN queued ELSE queued \cup {c}
        /\ UNCHANGED <<secret, creds, log, cache, left>>

Reconcile(c) ==
    \/ syncOwnedResource(c) \/ adoptLabels(c) \/ adoptOwner(c) \/ releaseLabels(c)
    \/ releaseOwner(c) \/ collectSecrets(c)

----------------------------------------------------------------------------
(* The environment *)

(* Faulty: updates do not enqueue.                                         *)
syncExternalResource_NoUpdate ==
    /\ log # <<>>
    /\ LET e == Head(log)
       IN  /\ cache' = [cache EXCEPT ![e.name] = IF e.gone THEN NoSecret ELSE e.obj]
           /\ queued' = IF e.gone \/ ~Labelled(cache[e.name])
                        THEN queued \cup e.obj.owners ELSE queued
    /\ log' = Tail(log)
    /\ UNCHANGED <<secret, creds, task, using, left>>

(* Faulty: the secret itself is enqueued.                                  *)
syncExternalResource_OwnKey ==
    /\ log # <<>>
    /\ LET e == Head(log)
       IN  /\ cache' = [cache EXCEPT ![e.name] = IF e.gone THEN NoSecret ELSE e.obj]
           /\ queued' = queued \cup {e.name}
    /\ log' = Tail(log)
    /\ UNCHANGED <<secret, creds, task, using, left>>

(* The next event reaches the cache, and enqueues the clusters that the    *)
(* annotations of its object name.                                         *)
syncExternalResource ==
    /\ log # <<>>
    /\ LET e == Head(log)
       IN  /\ cache' = [cache EXCEPT ![e.name] = IF e.gone THEN NoSecret ELSE e.obj]
           /\ queued' = queued \cup e.obj.owners
    /\ log' = Tail(log)
    /\ UNCHANGED <<secret, creds, task, using, left>>

EditCredentials(c) ==
    /\ left.edits > 0
    /\ left' = [left EXCEPT !.edits = @ - 1]
    /\ \E new \in Credentials \ {creds[c]} : creds' = [creds EXCEPT ![c] = new]
    /\ queued' = queued \cup {c}
    /\ UNCHANGED <<secret, log, cache, task, using>>

(* A secret is created, or gets other contents.                            *)
EditSecret(s) ==
    /\ left.writes > 0
    /\ left' = [left EXCEPT !.writes = @ - 1]
    /\ Write(s, [secret[s] EXCEPT !.data = @ + 1])
    /\ UNCHANGED <<creds, cache, queued, task, using>>

Next ==
    \/ \E c \in Clusters : Reconcile(c) \/ EditCredentials(c)
    \/ \E s \in Secrets : EditSecret(s)
    \/ syncExternalResource

Spec == Init /\ [][Next]_vars

(* Workers take what is queued, and the informer delivers.                 *)
FairSpec ==
    /\ Spec
    /\ \A c \in Clusters : WF_vars(Reconcile(c))
    /\ WF_vars(syncExternalResource)

----------------------------------------------------------------------------
(* Properties *)

Names(c) == {creds[c][r] : r \in RoleSet} \ {""}

SecretType ==
    [data : 0 .. MaxWrites + 1, managers : SUBSET RoleSet, owners : SUBSET Clusters]

EventType == [name : Secrets, obj : SecretType, gone : BOOLEAN]

TaskType ==
    [pc : {"idle", "labels", "owner", "stale", "release", "collect"},
     creds : Credentials \cup {NoCredentials}, i : 0 .. Len(Roles),
     owned : BOOLEAN, stale : SUBSET Secrets, old : Secrets \cup {""}]

TypeOK ==
    /\ secret \in [Secrets -> SecretType]
    /\ creds \in [Clusters -> Credentials]
    /\ log \in Seq(EventType)
    /\ cache \in [Secrets -> SecretType]
    /\ queued \subseteq Clusters
    /\ task \in [Clusters -> TaskType]
    /\ using \in [Clusters -> [Secrets -> 0 .. MaxWrites + 1]]
    /\ left \in [edits : 0 .. MaxEdits, writes : 0 .. MaxWrites, faults : 0 .. MaxFaults]

(* A cluster never goes back to older contents of a secret, though it      *)
(* reads a cache that lags behind and that the secret leaves and enters    *)
(* with its labels (collectSecrets, secretAdopter).                        *)
NeverBackwards ==
    [][\A c \in Clusters, s \in Secrets :
        using'[c][s] # 0 => using[c][s] <= using'[c][s]]_vars

(* No change goes unnoticed: a cluster that is neither queued nor being    *)
(* reconciled, with no event of a secret under way, uses the contents of   *)
(* the secrets that its credentials name, and is annotated on them, so     *)
(* that their next change finds it (secretAdopter, collectSecrets,         *)
(* syncExternalResource).                                                  *)
QuietMeansCurrent ==
    \A c \in Clusters :
        log = <<>> /\ c \notin queued /\ At(c, "idle") =>
            /\ using[c] = [s \in Secrets |-> IF s \in Names(c) THEN secret[s].data ELSE 0]
            /\ \A s \in Names(c) : c \in secret[s].owners

(* Eventually every cluster is reconciled with the contents of the secrets *)
(* its credentials name, for good: no change of a secret goes unnoticed    *)
(* (secretAdopter, collectSecrets, syncExternalResource).                  *)
CredentialsCurrent ==
    <>[](\A c \in Clusters :
            (\A s \in Names(c) : secret[s].data # 0) =>
                using[c] = [s \in Secrets |-> IF s \in Names(c) THEN secret[s].data ELSE 0])

(* Eventually a cluster whose secrets exist owns the secrets that its      *)
(* credentials name, and, unless a call failed half-way, no other: what it *)
(* has moved away from is released, and what it uses is not                *)
(* (NewSecretAdoptionHandler).                                             *)
OwnsWhatItNames ==
    <>[](\A c \in Clusters :
            (\A s \in Names(c) : secret[s].data # 0) =>
                /\ \A s \in Names(c) : c \in secret[s].owners
                /\ left.faults = MaxFaults =>
                      \A s \in Secrets \ Names(c) : c \notin secret[s].owners)
=============================================================================
