------------------------- MODULE SecretAdoptionProofs -------------------------
(***************************************************************************)
(* Proofs about the adoption of secrets, for any clusters, secrets, roles  *)
(* and credentials, shared secrets included, and without the bounds        *)
(* mattering.                                                              *)
(***************************************************************************)
EXTENDS SecretAdoption, WellFoundedInduction, TLAPS

(* A reconcile that adopts has a role, and a secret for it.                *)
Adopting(t) == t.pc \in {"labels", "owner", "stale", "release"}

HasAdoptee(t) == t.i \in 1 .. Len(Roles) /\ t.creds[Roles[t.i]] \in Secrets

TaskOK(t) ==
    /\ t \in TaskType
    /\ Adopting(t) => HasAdoptee(t)
    /\ t.pc = "release" => t.old \in Secrets

(* The contents of a secret are counted by the writes that are left.       *)
TypeInv ==
    /\ TypeOK
    /\ \A s \in Secrets : secret[s].data + left.writes <= MaxWrites + 1
    /\ \A c \in Clusters : TaskOK(task[c])

----------------------------------------------------------------------------
(* The bounds and the list of roles.                                       *)
LEMMA Bounds ==
    /\ MaxEdits \in Nat /\ MaxWrites \in Nat /\ MaxFaults \in Nat
    /\ Len(Roles) \in Nat /\ DOMAIN Roles = 1 .. Len(Roles)
BY AdoptionAssumption, Zenon

(* The constants have their types.                                         *)
LEMMA ConstantsTyped ==
    /\ NoSecret \in SecretType /\ NoSecret.data = 0 /\ ~Labelled(NoSecret)
    /\ NoTask \in TaskType /\ TaskOK(NoTask)
    /\ Credentials \cup {NoCredentials} \subseteq [RoleSet -> Secrets \cup {""}]
<1>1. NoSecret \in SecretType /\ NoSecret.data = 0 /\ ~Labelled(NoSecret)
  BY Bounds DEF NoSecret, SecretType, Labelled
<1>2. NoTask \in TaskType /\ NoTask.pc = "idle"
  BY Bounds DEF NoTask, TaskType
<1>3. TaskOK(NoTask)
  BY <1>2 DEF TaskOK, Adopting
<1>4. NoCredentials \in [RoleSet -> Secrets \cup {""}]
  BY DEF NoCredentials
<1> QED BY <1>1, <1>2, <1>3, <1>4, AdoptionAssumption, Zenon

(* A nonempty set of naturals has a least element.                         *)
LEMMA LeastExists ==
    ASSUME NEW set, set \subseteq Nat, set # {}
    PROVE  \E j \in set : \A k \in set : j <= k
<1>1. PICK x \in set : \A y \in set : ~(<<y, x>> \in OpToRel(<, Nat))
  BY WFMin, NatLessThanWellFounded, Zenon
<1>2. \A y \in set : ~(y < x)
  BY <1>1, Zenon DEF OpToRel
<1> QED BY <1>2

(* What a step does to the task of one cluster.                            *)
LEMMA OneTask ==
    ASSUME TypeInv, NEW c \in Clusters, NEW t, TaskOK(t), task' = [task EXCEPT ![c] = t]
    PROVE  /\ task' \in [Clusters -> TaskType]
           /\ \A d \in Clusters : TaskOK(task'[d])
BY DEF TypeInv, TypeOK, TaskOK

(* The next role has a secret.                                             *)
LEMMA NextRoleOK ==
    ASSUME TypeInv, NEW c \in Clusters, NEW t, t.creds \in Credentials \cup {NoCredentials},
           NEW i \in Nat, 1 <= i, NextRole(c, t, i)
    PROVE  /\ task' \in [Clusters -> TaskType]
           /\ \A d \in Clusters : TaskOK(task'[d])
<1> DEFINE todo == {j \in i .. Len(Roles) : t.creds[Roles[j]] # ""}
           done == [NoTask EXCEPT !.pc = "collect", !.creds = t.creds]
           least == CHOOSE j \in todo : \A k \in todo : j <= k
           adopt == [NoTask EXCEPT !.pc = "labels", !.creds = t.creds, !.i = least]
<1>1. task' = [task EXCEPT ![c] = IF todo = {} THEN done ELSE adopt]
  BY Zenon DEF NextRole
<1>2. TaskOK(done)
  <2>1. done \in TaskType /\ done.pc = "collect"
    BY ConstantsTyped, Zenon DEF TaskType
  <2> HIDE DEF done
  <2> QED BY <2>1 DEF TaskOK, Adopting
<1>3. ASSUME todo # {} PROVE TaskOK(adopt)
  <2>1. todo \subseteq Nat
    <3>1. i .. Len(Roles) \subseteq Nat
      BY Bounds
    <3> QED BY <3>1, Zenon
  <2>2. least \in todo
    <3> HIDE DEF todo
    <3> QED BY <1>3, <2>1, LeastExists, Zenon
  <2> HIDE DEF least
  <2>3. least \in 1 .. Len(Roles)
    <3>1. least \in i .. Len(Roles)
      BY <2>2, Zenon
    <3> QED BY <3>1, Bounds
  <2>4. t.creds[Roles[least]] # ""
    BY <2>2, Zenon
  <2> HIDE DEF todo
  <2>5. t.creds[Roles[least]] \in Secrets
    <3>1. Roles[least] \in RoleSet
      BY <2>3, Bounds DEF RoleSet
    <3> QED BY <2>4, <3>1, ConstantsTyped, Zenon
  <2>6. /\ adopt \in TaskType /\ adopt.pc = "labels"
        /\ adopt.i = least /\ adopt.creds = t.creds
    <3> DEFINE t1 == [NoTask EXCEPT !.pc = "labels"]
               t2 == [t1 EXCEPT !.creds = t.creds]
               t3 == [t2 EXCEPT !.i = least]
    <3>1. t1 \in TaskType /\ t1.pc = "labels"
      BY ConstantsTyped, Zenon DEF TaskType
    <3>2. adopt = t3
      OBVIOUS
    <3> HIDE DEF t1, adopt
    <3>3. t2 \in TaskType /\ t2.pc = "labels" /\ t2.creds = t.creds
      BY <3>1, Zenon DEF TaskType
    <3> HIDE DEF t2
    <3>4. least \in 0 .. Len(Roles)
      BY <2>3, Bounds
    <3>5. t3 \in TaskType /\ t3.pc = "labels" /\ t3.creds = t.creds /\ t3.i = least
      BY <3>3, <3>4, Zenon DEF TaskType
    <3> QED BY <3>2, <3>5
  <2> HIDE DEF adopt
  <2> QED BY <2>3, <2>5, <2>6 DEF TaskOK, Adopting, HasAdoptee
<1> HIDE DEF done, adopt, todo
<1>4. CASE todo = {}
  BY <1>1, <1>2, <1>4, OneTask, Zenon
<1>5. CASE todo # {}
  BY <1>1, <1>3, <1>5, OneTask
<1> QED BY <1>4, <1>5

----------------------------------------------------------------------------
(* Writes *)

Event(s, obj, gone) == [name |-> s, obj |-> obj, gone |-> gone]

(* A write logs what the watch sees of it.                                 *)
LEMMA WriteLogs ==
    ASSUME NEW s, NEW new, Write(s, new)
    PROVE  /\ secret' = [secret EXCEPT ![s] = new]
           /\ \/ /\ log' = log
                 /\ new = secret[s] \/ (~Labelled(secret[s]) /\ ~Labelled(new))
              \/ log' = Append(log, Event(s, new, FALSE)) /\ Labelled(new)
              \/ /\ log' = Append(log, Event(s, secret[s], TRUE))
                 /\ Labelled(secret[s]) /\ ~Labelled(new)
BY DEF Write, Event

(* Secrets and events keep their types.                                    *)
LEMMA WriteTyped ==
    ASSUME TypeOK, NEW s \in Secrets, NEW new \in SecretType, Write(s, new)
    PROVE  /\ secret' \in [Secrets -> SecretType] /\ log' \in Seq(EventType)
           /\ secret'[s] = new /\ \A r \in Secrets \ {s} : secret'[r] = secret[r]
<1>1. secret \in [Secrets -> SecretType] /\ log \in Seq(EventType)
  BY DEF TypeOK
<1>2. secret' = [secret EXCEPT ![s] = new]
  BY WriteLogs, Zenon
<1>3. Event(s, new, FALSE) \in EventType /\ Event(s, secret[s], TRUE) \in EventType
  BY <1>1 DEF Event, EventType
<1>4. log' \in Seq(EventType)
  <2>1. \E e \in EventType : log' \in {log, Append(log, e)}
    BY <1>3, WriteLogs, Zenon
  <2> QED BY <1>1, <2>1
<1> QED BY <1>1, <1>2, <1>4

(* What the handlers write: labels and annotations, and not the data.      *)
Rewrites(s) ==
    \E new \in SecretType : Write(s, new) /\ new.data = secret[s].data

LEMMA AppliesAreRewrites ==
    ASSUME TypeOK, NEW s \in Secrets, NEW c \in Clusters, NEW r \in RoleSet,
           ApplyLabels(s, r) \/ DropLabels(s, r) \/ ApplyOwner(s, c) \/ DropOwner(s, c)
    PROVE  Rewrites(s)
<1>1. secret[s] \in SecretType
  BY DEF TypeOK
<1> DEFINE l1 == [secret[s] EXCEPT !.managers = @ \cup {r}]
           l2 == [secret[s] EXCEPT !.managers = @ \ {r}]
           o1 == [secret[s] EXCEPT !.owners = @ \cup {c}]
           o2 == [secret[s] EXCEPT !.owners = @ \ {c}]
<1>2. \A new \in {l1, l2, o1, o2} : new \in SecretType /\ new.data = secret[s].data
  BY <1>1 DEF SecretType
<1>3. Write(s, l1) \/ Write(s, l2) \/ Write(s, o1) \/ Write(s, o2)
  BY DEF ApplyLabels, DropLabels, ApplyOwner, DropOwner
<1> HIDE DEF l1, l2, o1, o2
<1> QED BY <1>2, <1>3 DEF Rewrites

(* A rewrite keeps the types and the count of the writes.                  *)
LEMMA RewriteTyped ==
    ASSUME TypeInv, NEW s \in Secrets, Rewrites(s)
    PROVE  /\ secret' \in [Secrets -> SecretType] /\ log' \in Seq(EventType)
           /\ \A r \in Secrets : secret'[r].data = secret[r].data
<1>1. PICK new \in SecretType : Write(s, new) /\ new.data = secret[s].data
  BY DEF Rewrites
<1> QED BY <1>1, WriteTyped DEF TypeInv

----------------------------------------------------------------------------
(* Types *)

(* The task of a cluster that adopts.                                      *)
LEMMA TaskFacts ==
    ASSUME TypeInv, NEW c \in Clusters
    PROVE  /\ task[c] \in TaskType /\ TaskOK(task[c])
           /\ Adopting(task[c]) => Adoptee(c) \in Secrets /\ Role(c) \in RoleSet
           /\ task[c].pc = "release" => task[c].old \in Secrets
<1>1. task[c] \in TaskType /\ TaskOK(task[c])
  BY DEF TypeInv, TypeOK
<1>2. ASSUME Adopting(task[c]) PROVE Adoptee(c) \in Secrets /\ Role(c) \in RoleSet
  BY <1>1, <1>2, Bounds DEF TaskOK, HasAdoptee, Adoptee, Role, RoleSet
<1> QED BY <1>1, <1>2 DEF TaskOK

(* Going back to the queue keeps the types.                                *)
LEMMA RequeueTyped ==
    ASSUME TypeInv, NEW c \in Clusters, Requeue(c)
    PROVE  /\ task' \in [Clusters -> TaskType] /\ \A d \in Clusters : TaskOK(task'[d])
           /\ queued' \subseteq Clusters
<1>1. task' = [task EXCEPT ![c] = NoTask] /\ queued' = queued \cup {c}
  BY DEF Requeue
<1> QED BY <1>1, OneTask, ConstantsTyped, Zenon DEF TypeInv, TypeOK

(* A failing call changes no secret.                                       *)
LEMMA CallFailsTyped ==
    ASSUME TypeInv, NEW c \in Clusters, CallFails(c), UNCHANGED <<creds, cache, using>>
    PROVE  TypeInv'
<1>1. /\ task' \in [Clusters -> TaskType] /\ \A d \in Clusters : TaskOK(task'[d])
      /\ queued' \subseteq Clusters
  BY RequeueTyped DEF CallFails
<1>2. /\ left' \in [edits : 0 .. MaxEdits, writes : 0 .. MaxWrites, faults : 0 .. MaxFaults]
      /\ left'.writes = left.writes
  <2>1. left \in [edits : 0 .. MaxEdits, writes : 0 .. MaxWrites, faults : 0 .. MaxFaults]
    BY DEF TypeInv, TypeOK
  <2>2. left.faults > 0 /\ left' = [left EXCEPT !.faults = @ - 1]
    BY DEF CallFails
  <2> QED BY <2>1, <2>2, Bounds
<1>3. UNCHANGED <<secret, log, creds, cache, using>>
  BY DEF CallFails
<1> QED BY <1>1, <1>2, <1>3 DEF TypeInv, TypeOK

(* The part of the state that a handler leaves alone, or rewrites.         *)
LEMMA HandlerTyped ==
    ASSUME TypeInv, UNCHANGED <<creds, cache, using, left>>,
           task' \in [Clusters -> TaskType], \A d \in Clusters : TaskOK(task'[d]),
           queued' \subseteq Clusters,
           \/ UNCHANGED <<secret, log>>
           \/ \E s \in Secrets : Rewrites(s)
    PROVE  TypeInv'
<1>1. /\ secret' \in [Secrets -> SecretType] /\ log' \in Seq(EventType)
      /\ \A r \in Secrets : secret'[r].data = secret[r].data
  <2>1. CASE UNCHANGED <<secret, log>>
    BY <2>1 DEF TypeInv, TypeOK
  <2>2. CASE \E s \in Secrets : Rewrites(s)
    BY <2>2, RewriteTyped
  <2> QED BY <2>1, <2>2
<1> QED BY <1>1 DEF TypeInv, TypeOK

(* The steps of a reconcile.                                               *)
LEMMA SyncTyped ==
    ASSUME TypeInv, NEW c \in Clusters, syncOwnedResource(c) PROVE TypeInv'
<1> DEFINE t == [NoTask EXCEPT !.creds = creds[c]]
<1>1. t.creds \in Credentials \cup {NoCredentials}
  <2>1. creds[c] \in Credentials
    BY DEF TypeInv, TypeOK
  <2> QED BY <2>1, ConstantsTyped, Zenon DEF TaskType
<1>2. NextRole(c, t, 1) /\ queued' = queued \ {c} /\ UNCHANGED <<secret, creds, log, cache, using, left>>
  BY DEF syncOwnedResource
<1> HIDE DEF t
<1>3. task' \in [Clusters -> TaskType] /\ \A d \in Clusters : TaskOK(task'[d])
  BY <1>1, <1>2, NextRoleOK
<1>4. queued' \subseteq Clusters
  BY <1>2 DEF TypeInv, TypeOK
<1> QED BY <1>2, <1>3, <1>4, HandlerTyped

(* A task that goes on to another step, with the same role.                *)
LEMMA StepTyped ==
    ASSUME TypeInv, NEW c \in Clusters, Adopting(task[c]), NEW t \in TaskType,
           t.creds = task[c].creds, t.i = task[c].i, t.pc = "release" => t.old \in Secrets,
           task' = [task EXCEPT ![c] = t]
    PROVE  task' \in [Clusters -> TaskType] /\ \A d \in Clusters : TaskOK(task'[d])
<1>1. HasAdoptee(task[c])
  BY TaskFacts DEF TaskOK
<1>2. TaskOK(t)
  BY <1>1 DEF TaskOK, HasAdoptee
<1> QED BY <1>2, OneTask, Zenon

LEMMA AdoptLabelsTyped ==
    ASSUME TypeInv, NEW c \in Clusters, adoptLabels(c) PROVE TypeInv'
<1>1. /\ task[c].pc = "labels" /\ Adopting(task[c]) /\ task[c] \in TaskType
      /\ Adoptee(c) \in Secrets /\ Role(c) \in RoleSet
      /\ UNCHANGED <<creds, cache, using>>
  BY TaskFacts DEF adoptLabels, At, Adopting
<1>2. CASE CallFails(c)
  BY <1>1, <1>2, CallFailsTyped
<1>3. CASE Requeue(c) /\ UNCHANGED <<secret, log, left>>
  BY <1>1, <1>3, RequeueTyped, HandlerTyped
<1>4. CASE /\ \E owned \in BOOLEAN : task' = [task EXCEPT ![c].pc = "owner", ![c].owned = owned]
           /\ UNCHANGED <<queued, left>>
           /\ UNCHANGED <<secret, log>> \/ ApplyLabels(Adoptee(c), Role(c))
  <2>1. PICK owned \in BOOLEAN : task' = [task EXCEPT ![c].pc = "owner", ![c].owned = owned]
    BY <1>4, Zenon
  <2> DEFINE t == [task[c] EXCEPT !.pc = "owner", !.owned = owned]
  <2>2. task' = [task EXCEPT ![c] = t]
    BY <2>1, Zenon DEF TypeInv, TypeOK
  <2>3. t \in TaskType /\ t.creds = task[c].creds /\ t.i = task[c].i /\ t.pc = "owner"
    BY <1>1, Zenon DEF TaskType
  <2> HIDE DEF t
  <2>4. task' \in [Clusters -> TaskType] /\ \A d \in Clusters : TaskOK(task'[d])
    BY <1>1, <2>2, <2>3, StepTyped, Zenon
  <2>5. UNCHANGED <<secret, log>> \/ \E s \in Secrets : Rewrites(s)
    BY <1>1, <1>4, AppliesAreRewrites DEF TypeInv
  <2>6. queued' \subseteq Clusters
    BY <1>4 DEF TypeInv, TypeOK
  <2> QED BY <1>1, <1>4, <2>4, <2>5, <2>6, HandlerTyped
<1>5. \/ CallFails(c)
      \/ Requeue(c) /\ UNCHANGED <<secret, log, left>>
      \/ /\ \E owned \in BOOLEAN : task' = [task EXCEPT ![c].pc = "owner", ![c].owned = owned]
         /\ UNCHANGED <<queued, left>>
         /\ UNCHANGED <<secret, log>> \/ ApplyLabels(Adoptee(c), Role(c))
  <2> DEFINE Owner(owned) == task' = [task EXCEPT ![c].pc = "owner", ![c].owned = owned]
             b1 == c \in cache[Adoptee(c)].owners
             b2 == c \in secret[Adoptee(c)].owners
  <2>1. \/ CallFails(c)
        \/ Requeue(c) /\ UNCHANGED <<secret, log, left>>
        \/ Owner(b1) /\ UNCHANGED <<secret, log, queued, left>>
        \/ Owner(b2) /\ UNCHANGED <<queued, left>> /\ ApplyLabels(Adoptee(c), Role(c))
    BY DEF adoptLabels
  <2>2. b1 \in BOOLEAN /\ b2 \in BOOLEAN
    OBVIOUS
  <2> HIDE DEF Owner, b1, b2
  <2>3. \/ CallFails(c)
        \/ Requeue(c) /\ UNCHANGED <<secret, log, left>>
        \/ /\ \E owned \in BOOLEAN : Owner(owned)
           /\ UNCHANGED <<queued, left>>
           /\ UNCHANGED <<secret, log>> \/ ApplyLabels(Adoptee(c), Role(c))
    BY <2>1, <2>2
  <2> QED BY <2>3 DEF Owner
<1> QED BY <1>2, <1>3, <1>4, <1>5

LEMMA AdoptOwnerTyped ==
    ASSUME TypeInv, NEW c \in Clusters, adoptOwner(c) PROVE TypeInv'
<1>1. /\ Adopting(task[c]) /\ task[c] \in TaskType
      /\ Adoptee(c) \in Secrets /\ Role(c) \in RoleSet
      /\ UNCHANGED <<creds, cache, using>>
  BY TaskFacts DEF adoptOwner, At, Adopting
<1>2. CASE CallFails(c)
  BY <1>1, <1>2, CallFailsTyped
<1>3. CASE ~CallFails(c)
  <2> DEFINE t == [task[c] EXCEPT !.pc = "stale", !.stale = Stale(c)]
  <2>1. /\ task' = [task EXCEPT ![c].pc = "stale", ![c].stale = Stale(c)]
        /\ UNCHANGED <<queued, left>>
        /\ UNCHANGED <<secret, log>> \/ ApplyOwner(Adoptee(c), c)
    BY <1>3 DEF adoptOwner
  <2>2. task' = [task EXCEPT ![c] = t]
    BY <2>1, Zenon DEF TypeInv, TypeOK
  <2>3. t \in TaskType /\ t.creds = task[c].creds /\ t.i = task[c].i /\ t.pc = "stale"
    BY <1>1, Zenon DEF TaskType, Stale
  <2> HIDE DEF t
  <2>4. task' \in [Clusters -> TaskType] /\ \A d \in Clusters : TaskOK(task'[d])
    BY <1>1, <2>2, <2>3, StepTyped, Zenon
  <2>5. UNCHANGED <<secret, log>> \/ \E s \in Secrets : Rewrites(s)
    BY <1>1, <2>1, AppliesAreRewrites DEF TypeInv
  <2>6. queued' \subseteq Clusters
    BY <2>1 DEF TypeInv, TypeOK
  <2> QED BY <1>1, <2>1, <2>4, <2>5, <2>6, HandlerTyped
<1> QED BY <1>2, <1>3

LEMMA ReleaseLabelsTyped ==
    ASSUME TypeInv, NEW c \in Clusters, releaseLabels(c) PROVE TypeInv'
<1>1. /\ Adopting(task[c]) /\ task[c] \in TaskType
      /\ Adoptee(c) \in Secrets /\ Role(c) \in RoleSet
      /\ UNCHANGED <<creds, cache, using>>
  BY TaskFacts, Zenon DEF releaseLabels, At, Adopting
<1>2. CASE CallFails(c)
  BY <1>1, <1>2, CallFailsTyped
<1>3. CASE /\ NextRole(c, task[c], task[c].i + 1)
           /\ UNCHANGED <<secret, log, queued, left>>
  <2>1. task[c].creds \in Credentials \cup {NoCredentials} /\ task[c].i \in Nat
    <3>1. task[c].creds \in Credentials \cup {NoCredentials} /\ task[c].i \in 0 .. Len(Roles)
      BY <1>1, Zenon DEF TaskType
    <3> QED BY <3>1, Bounds
  <2>2. task[c].i + 1 \in Nat /\ 1 <= task[c].i + 1
    BY <2>1
  <2>3. task' \in [Clusters -> TaskType] /\ \A d \in Clusters : TaskOK(task'[d])
    BY <1>3, <2>1, <2>2, NextRoleOK
  <2>4. queued' \subseteq Clusters
    BY <1>3 DEF TypeInv, TypeOK
  <2> QED BY <1>1, <1>3, <2>3, <2>4, HandlerTyped
<1>4. CASE \E s \in task[c].stale :
              /\ task' = [task EXCEPT ![c].pc = "release", ![c].stale = @ \ {s}, ![c].old = s]
              /\ UNCHANGED <<queued, left>>
              /\ UNCHANGED <<secret, log>> \/ DropLabels(s, Role(c))
  <2>1. PICK s \in task[c].stale :
              /\ task' = [task EXCEPT ![c].pc = "release", ![c].stale = @ \ {s}, ![c].old = s]
              /\ UNCHANGED <<queued, left>>
              /\ UNCHANGED <<secret, log>> \/ DropLabels(s, Role(c))
    BY <1>4, Zenon
  <2>2. s \in Secrets
    BY <1>1, <2>1, Zenon DEF TaskType
  <2> DEFINE t1 == [task[c] EXCEPT !.pc = "release", !.stale = @ \ {s}]
             t == [t1 EXCEPT !.old = s]
  <2>3. task' = [task EXCEPT ![c] = t]
    BY <2>1, Zenon DEF TypeInv, TypeOK
  <2>4. t1 \in TaskType /\ t1.creds = task[c].creds /\ t1.i = task[c].i /\ t1.pc = "release"
    BY <1>1, Zenon DEF TaskType
  <2> HIDE DEF t1
  <2>5. /\ t \in TaskType /\ t.creds = task[c].creds /\ t.i = task[c].i
        /\ t.pc = "release" /\ t.old = s
    BY <2>2, <2>4, Zenon DEF TaskType
  <2> HIDE DEF t
  <2>6. task' \in [Clusters -> TaskType] /\ \A d \in Clusters : TaskOK(task'[d])
    BY <1>1, <2>2, <2>3, <2>5, StepTyped, Zenon
  <2>7. UNCHANGED <<secret, log>> \/ \E r \in Secrets : Rewrites(r)
    BY <1>1, <2>1, <2>2, AppliesAreRewrites DEF TypeInv
  <2>8. queued' \subseteq Clusters
    BY <2>1 DEF TypeInv, TypeOK
  <2> QED BY <1>1, <2>1, <2>6, <2>7, <2>8, HandlerTyped
<1>5. \/ CallFails(c)
      \/ NextRole(c, task[c], task[c].i + 1) /\ UNCHANGED <<secret, log, queued, left>>
      \/ \E s \in task[c].stale :
            /\ task' = [task EXCEPT ![c].pc = "release", ![c].stale = @ \ {s}, ![c].old = s]
            /\ UNCHANGED <<queued, left>>
            /\ UNCHANGED <<secret, log>> \/ DropLabels(s, Role(c))
  BY Zenon DEF releaseLabels
<1> QED BY <1>2, <1>3, <1>4, <1>5, Zenon

LEMMA ReleaseOwnerTyped ==
    ASSUME TypeInv, NEW c \in Clusters, releaseOwner(c) PROVE TypeInv'
<1>1. /\ Adopting(task[c]) /\ task[c] \in TaskType /\ task[c].old \in Secrets
      /\ Role(c) \in RoleSet
      /\ UNCHANGED <<creds, cache, using>>
  BY TaskFacts, Zenon DEF releaseOwner, At, Adopting
<1>2. CASE CallFails(c)
  BY <1>1, <1>2, CallFailsTyped
<1>3. CASE ~CallFails(c)
  <2> DEFINE t1 == [task[c] EXCEPT !.pc = "stale"]
             t == [t1 EXCEPT !.old = ""]
  <2>1. /\ task' = [task EXCEPT ![c].pc = "stale", ![c].old = ""]
        /\ UNCHANGED <<queued, left>>
        /\ DropOwner(task[c].old, c)
    BY <1>3, Zenon DEF releaseOwner
  <2>2. task' = [task EXCEPT ![c] = t]
    BY <2>1, Zenon DEF TypeInv, TypeOK
  <2>3. t1 \in TaskType /\ t1.creds = task[c].creds /\ t1.i = task[c].i /\ t1.pc = "stale"
    BY <1>1, Zenon DEF TaskType
  <2> HIDE DEF t1
  <2>4. t \in TaskType /\ t.creds = task[c].creds /\ t.i = task[c].i /\ t.pc = "stale"
    BY <2>3, Zenon DEF TaskType
  <2> HIDE DEF t
  <2>5. task' \in [Clusters -> TaskType] /\ \A d \in Clusters : TaskOK(task'[d])
    BY <1>1, <2>2, <2>4, StepTyped, Zenon
  <2>6. \E s \in Secrets : Rewrites(s)
    BY <1>1, <2>1, AppliesAreRewrites, Zenon DEF TypeInv
  <2>7. queued' \subseteq Clusters
    BY <2>1, Zenon DEF TypeInv, TypeOK
  <2> QED BY <1>1, <2>1, <2>5, <2>6, <2>7, HandlerTyped, Zenon
<1> QED BY <1>2, <1>3

LEMMA CollectTyped ==
    ASSUME TypeInv, NEW c \in Clusters, collectSecrets(c) PROVE TypeInv'
<1> DEFINE named == {task[c].creds[r] : r \in RoleSet}
           found == [s \in Secrets |-> IF s \in named /\ Labelled(cache[s]) THEN cache[s].data ELSE 0]
<1>1. found \in [Secrets -> 0 .. MaxWrites + 1]
  <2>1. \A s \in Secrets : cache[s].data \in 0 .. MaxWrites + 1
    BY DEF TypeInv, TypeOK, SecretType
  <2>2. 0 \in 0 .. MaxWrites + 1
    BY Bounds
  <2> HIDE DEF named
  <2> QED BY <2>1, <2>2
<1>2. /\ using' = [using EXCEPT ![c] = found]
      /\ task' = [task EXCEPT ![c] = NoTask]
      /\ queued' \in {queued, queued \cup {c}}
      /\ UNCHANGED <<secret, creds, log, cache, left>>
  BY DEF collectSecrets
<1> HIDE DEF found
<1>3. task' \in [Clusters -> TaskType] /\ \A d \in Clusters : TaskOK(task'[d])
  BY <1>2, OneTask, ConstantsTyped, Zenon
<1>4. using' \in [Clusters -> [Secrets -> 0 .. MaxWrites + 1]] /\ queued' \subseteq Clusters
  BY <1>1, <1>2 DEF TypeInv, TypeOK
<1> QED BY <1>2, <1>3, <1>4 DEF TypeInv, TypeOK

(* The delivery of an event, and the steps of users.                       *)
LEMMA DeliverTyped ==
    ASSUME TypeInv, syncExternalResource PROVE TypeInv'
<1>1. log \in Seq(EventType) /\ log # <<>> /\ cache \in [Secrets -> SecretType]
  BY DEF TypeInv, TypeOK, syncExternalResource
<1>2. Head(log) \in EventType /\ Tail(log) \in Seq(EventType)
  BY <1>1
<1> DEFINE e == Head(log)
<1>3. /\ cache' = [cache EXCEPT ![e.name] = IF e.gone THEN NoSecret ELSE e.obj]
      /\ queued' = queued \cup e.obj.owners
      /\ log' = Tail(log)
      /\ UNCHANGED <<secret, creds, task, using, left>>
  BY DEF syncExternalResource
<1> HIDE DEF e
<1>4. e.name \in Secrets /\ e.obj \in SecretType /\ e.obj.owners \subseteq Clusters
  BY <1>2 DEF e, EventType, SecretType
<1>5. cache' \in [Secrets -> SecretType]
  <2>1. cache' = [cache EXCEPT ![e.name] = NoSecret] \/ cache' = [cache EXCEPT ![e.name] = e.obj]
    BY <1>3, Zenon
  <2> QED BY <1>1, <1>4, <2>1, ConstantsTyped, Zenon
<1> QED BY <1>2, <1>3, <1>4, <1>5 DEF TypeInv, TypeOK

LEMMA LeftTyped ==
    ASSUME TypeInv
    PROVE  left \in [edits : 0 .. MaxEdits, writes : 0 .. MaxWrites, faults : 0 .. MaxFaults]
BY DEF TypeInv, TypeOK

LEMMA EditCredentialsTyped ==
    ASSUME TypeInv, NEW c \in Clusters, EditCredentials(c) PROVE TypeInv'
<1>1. /\ left' \in [edits : 0 .. MaxEdits, writes : 0 .. MaxWrites, faults : 0 .. MaxFaults]
      /\ left'.writes = left.writes
  <2>1. left.edits > 0 /\ left' = [left EXCEPT !.edits = @ - 1]
    BY DEF EditCredentials
  <2> QED BY <2>1, LeftTyped, Bounds
<1>2. creds' \in [Clusters -> Credentials]
  <2>1. creds \in [Clusters -> Credentials]
    BY DEF TypeInv, TypeOK
  <2>2. \E new \in Credentials : creds' = [creds EXCEPT ![c] = new]
    BY Zenon DEF EditCredentials
  <2> QED BY <2>1, <2>2
<1>3. queued' = queued \cup {c} /\ UNCHANGED <<secret, log, cache, task, using>>
  BY DEF EditCredentials
<1> QED BY <1>1, <1>2, <1>3 DEF TypeInv, TypeOK

LEMMA EditSecretTyped ==
    ASSUME TypeInv, NEW s \in Secrets, EditSecret(s)
    PROVE  /\ TypeInv'
           /\ \E new \in SecretType : Write(s, new) /\ new.data = secret[s].data + 1
<1> DEFINE new == [secret[s] EXCEPT !.data = @ + 1]
<1>1. /\ left.writes > 0 /\ left' = [left EXCEPT !.writes = @ - 1]
      /\ Write(s, new) /\ UNCHANGED <<creds, cache, queued, task, using>>
  BY DEF EditSecret
<1>2. /\ secret[s] \in SecretType /\ secret[s].data \in Nat
      /\ secret[s].data + left.writes <= MaxWrites + 1
  BY Bounds DEF TypeInv, TypeOK, SecretType
<1>3. left.writes \in Nat
  BY LeftTyped, Bounds
<1>4. /\ left' \in [edits : 0 .. MaxEdits, writes : 0 .. MaxWrites, faults : 0 .. MaxFaults]
      /\ left'.writes = left.writes - 1
  <2>1. left.writes > 0 /\ left' = [left EXCEPT !.writes = @ - 1]
    BY <1>1
  <2> QED BY <2>1, LeftTyped, Bounds
<1>5. new \in SecretType /\ new.data = secret[s].data + 1
  <2>1. secret[s].data + 1 \in 0 .. MaxWrites + 1
    BY <1>1, <1>2, <1>3, Bounds, SMTT(30)
  <2> QED BY <1>2, <2>1 DEF SecretType
<1> HIDE DEF new
<1>6. /\ secret' \in [Secrets -> SecretType] /\ log' \in Seq(EventType)
      /\ secret'[s] = new /\ \A r \in Secrets \ {s} : secret'[r] = secret[r]
  BY <1>1, <1>5, WriteTyped DEF TypeInv
<1>7. \A r \in Secrets : secret'[r].data + left'.writes <= MaxWrites + 1
  <2>1. \A r \in Secrets : secret[r].data \in Nat /\ secret[r].data + left.writes <= MaxWrites + 1
    BY Bounds DEF TypeInv, TypeOK, SecretType
  <2>2. left'.writes = left.writes - 1
    BY <1>4
  <2>3. ASSUME NEW r \in Secrets PROVE secret'[r].data + left'.writes <= MaxWrites + 1
    <3>1. CASE r = s
      <4>1. secret'[r].data = secret[s].data + 1
        BY <1>5, <1>6, <3>1
      <4> QED BY <1>2, <1>3, <2>2, <4>1, Bounds
    <3>2. CASE r # s
      <4>1. secret'[r].data = secret[r].data
        BY <1>6, <3>2
      <4> QED BY <1>3, <2>1, <2>2, <4>1, Bounds
    <3> QED BY <3>1, <3>2
  <2> QED BY <2>3
<1>8. TypeInv'
  BY <1>1, <1>4, <1>6, <1>7 DEF TypeInv, TypeOK
<1> QED BY <1>1, <1>5, <1>8

LEMMA TypeInit == Init => TypeInv
<1> SUFFICES ASSUME Init PROVE TypeInv
  OBVIOUS
<1>1. secret \in [Secrets -> SecretType] /\ \A s \in Secrets : secret[s].data \in 0 .. 1
  <2>1. PICK data \in [Secrets -> 0 .. 1] :
            secret = [s \in Secrets |-> [NoSecret EXCEPT !.data = data[s]]]
    BY DEF Init
  <2>2. ASSUME NEW s \in Secrets
        PROVE  secret[s] \in SecretType /\ secret[s].data \in 0 .. 1
    <3>1. data[s] \in 0 .. 1 /\ 0 .. 1 \subseteq 0 .. MaxWrites + 1
      BY Bounds
    <3>2. secret[s] = [NoSecret EXCEPT !.data = data[s]]
      BY <2>1
    <3> QED BY <3>1, <3>2, ConstantsTyped, Zenon DEF SecretType
  <2> QED BY <2>1, <2>2
<1>2. left = [edits |-> MaxEdits, writes |-> MaxWrites, faults |-> MaxFaults]
  BY DEF Init
<1>3. left \in [edits : 0 .. MaxEdits, writes : 0 .. MaxWrites, faults : 0 .. MaxFaults]
  BY <1>2, Bounds
<1>4. \A s \in Secrets : secret[s].data + left.writes <= MaxWrites + 1
  BY <1>1, <1>2, Bounds
<1>5. /\ creds \in [Clusters -> Credentials] /\ log \in Seq(EventType)
      /\ cache \in [Secrets -> SecretType] /\ queued \subseteq Clusters
      /\ task \in [Clusters -> TaskType] /\ \A c \in Clusters : TaskOK(task[c])
  <2>1. creds \in [Clusters -> Credentials] /\ log \in Seq(EventType) /\ queued \subseteq Clusters
    BY DEF Init
  <2>2. cache \in [Secrets -> SecretType]
    BY ConstantsTyped, Zenon DEF Init
  <2>3. task \in [Clusters -> TaskType] /\ \A c \in Clusters : TaskOK(task[c])
    BY ConstantsTyped, Zenon DEF Init
  <2> QED BY <2>1, <2>2, <2>3
<1>6. using \in [Clusters -> [Secrets -> 0 .. MaxWrites + 1]]
  BY Bounds DEF Init, Unused
<1> QED BY <1>1, <1>3, <1>4, <1>5, <1>6 DEF TypeInv, TypeOK

(* The types always hold.                                                  *)
LEMMA TypeInvariant == Spec => []TypeInv
<1>1. ASSUME TypeInv, NEW c \in Clusters, Reconcile(c) PROVE TypeInv'
  BY <1>1, SyncTyped, AdoptLabelsTyped, AdoptOwnerTyped, ReleaseLabelsTyped,
     ReleaseOwnerTyped, CollectTyped DEF Reconcile
<1>2. TypeInv /\ [Next]_vars => TypeInv'
  <2>1. ASSUME TypeInv, UNCHANGED vars PROVE TypeInv'
    BY <2>1 DEF vars, TypeInv, TypeOK
  <2> QED BY <1>1, <2>1, DeliverTyped, EditCredentialsTyped, EditSecretTyped DEF Next
<1> QED BY <1>2, TypeInit, PTL DEF Spec

(* A handler only ever works on secrets that its credentials or its index  *)
(* name, whatever is edited meanwhile, and what it holds stays well typed. *)
THEOREM AdoptionTypeOK == Spec => []TypeOK
<1>1. TypeInv => TypeOK
  BY DEF TypeInv
<1> QED BY <1>1, TypeInvariant, PTL

----------------------------------------------------------------------------
(* The order of the contents *)

(* What is in the cache, in the log and in use is no newer than what comes *)
(* after it.                                                               *)
InOrder ==
    /\ \A s \in Secrets : cache[s].data <= secret[s].data
    /\ \A k \in DOMAIN log :
          /\ cache[log[k].name].data <= log[k].obj.data
          /\ log[k].obj.data <= secret[log[k].name].data
    /\ \A j, k \in DOMAIN log :
          j <= k /\ log[j].name = log[k].name => log[j].obj.data <= log[k].obj.data
    /\ \A c \in Clusters, s \in Secrets :
          /\ using[c][s] <= secret[s].data
          /\ cache[s].data # 0 => using[c][s] <= cache[s].data
    /\ \A c \in Clusters : \A k \in DOMAIN log : using[c][log[k].name] <= log[k].obj.data

(* The numbers are naturals.                                               *)
LEMMA Numbers ==
    ASSUME TypeInv
    PROVE  /\ \A s \in Secrets : secret[s].data \in Nat /\ cache[s].data \in Nat
           /\ \A k \in DOMAIN log : log[k].name \in Secrets /\ log[k].obj.data \in Nat
           /\ \A c \in Clusters, s \in Secrets : using[c][s] \in Nat
<1>1. 0 .. MaxWrites + 1 \subseteq Nat
  BY Bounds
<1>2. /\ secret \in [Secrets -> SecretType] /\ cache \in [Secrets -> SecretType]
      /\ log \in Seq(EventType) /\ using \in [Clusters -> [Secrets -> 0 .. MaxWrites + 1]]
  BY DEF TypeInv, TypeOK
<1>3. \A o \in SecretType : o.data \in Nat
  BY <1>1 DEF SecretType
<1>4. \A k \in DOMAIN log : log[k] \in EventType
  BY <1>2
<1>5. \A k \in DOMAIN log : log[k].name \in Secrets /\ log[k].obj \in SecretType
  BY <1>4 DEF EventType
<1> QED BY <1>1, <1>2, <1>3, <1>5

(* What a write does to the log.                                           *)
LEMMA AppendFacts ==
    ASSUME NEW S, NEW seq \in Seq(S), NEW e \in S, NEW new, new = Append(seq, e)
    PROVE  /\ DOMAIN new = DOMAIN seq \cup {Len(seq) + 1}
           /\ new[Len(seq) + 1] = e
           /\ \A k \in DOMAIN seq : new[k] = seq[k]
           /\ \A k \in DOMAIN seq : k \in Nat /\ k < Len(seq) + 1
OBVIOUS

(* A write of contents that are no older keeps the order: its event is the *)
(* last, and carries what was or what is in the secret.                    *)
LEMMA WriteInOrder ==
    ASSUME TypeInv, InOrder, NEW s \in Secrets, NEW new \in SecretType, Write(s, new),
           secret[s].data <= new.data, UNCHANGED <<cache, using>>
    PROVE  InOrder'
<1>1. /\ secret'[s] = new /\ \A r \in Secrets \ {s} : secret'[r] = secret[r]
      /\ log \in Seq(EventType)
  BY WriteTyped DEF TypeInv, TypeOK
<1>2. new.data \in Nat
  BY Bounds DEF SecretType
<1>3. \A r \in Secrets : secret[r].data <= secret'[r].data /\ secret'[r].data \in Nat
  BY <1>1, <1>2, Numbers
<1>4. CASE log' = log
  BY <1>3, <1>4, Numbers DEF InOrder
<1>5. ASSUME NEW e \in EventType, log' = Append(log, e), e.name = s,
             secret[s].data <= e.obj.data, e.obj.data <= new.data, e.obj.data \in Nat
      PROVE  InOrder'
  <2> DEFINE n == Len(log) + 1
  <2>1. /\ DOMAIN log' = DOMAIN log \cup {n} /\ log'[n] = e
        /\ \A k \in DOMAIN log : log'[k] = log[k]
        /\ \A k \in DOMAIN log : k \in Nat /\ k < n
        /\ n \in Nat
    BY <1>1, <1>5, AppendFacts
  <2> HIDE DEF n
  <2>2. \A r \in Secrets : cache'[r].data <= secret'[r].data
    BY <1>3, Numbers DEF InOrder
  <2>3. ASSUME NEW k \in DOMAIN log'
        PROVE  /\ cache'[log'[k].name].data <= log'[k].obj.data
               /\ log'[k].obj.data <= secret'[log'[k].name].data
    <3>1. CASE k \in DOMAIN log
      BY <1>3, <2>1, <3>1, Numbers DEF InOrder
    <3>2. CASE k = n
      <4>1. cache[s].data <= secret[s].data /\ cache[s].data \in Nat /\ secret[s].data \in Nat
        BY Numbers DEF InOrder
      <4>2. cache[s].data <= e.obj.data
        BY <1>5, <4>1
      <4> QED BY <1>1, <1>5, <2>1, <3>2, <4>2
    <3> QED BY <2>1, <3>1, <3>2
  <2>4. ASSUME NEW j \in DOMAIN log', NEW k \in DOMAIN log', j <= k, log'[j].name = log'[k].name
        PROVE  log'[j].obj.data <= log'[k].obj.data
    <3>1. CASE k \in DOMAIN log
      <4>1. j \in DOMAIN log
        BY <2>1, <2>4, <3>1
      <4> QED BY <2>1, <2>4, <3>1, <4>1 DEF InOrder
    <3>2. CASE k = n /\ j = n
      BY <1>5, <2>1, <3>2
    <3>3. CASE k = n /\ j \in DOMAIN log
      <4>1. log[j].name = s /\ log'[j] = log[j]
        BY <1>5, <2>1, <2>4, <3>3
      <4>2. log[j].obj.data <= secret[s].data
        BY <3>3, <4>1 DEF InOrder
      <4>3. log[j].obj.data <= e.obj.data
        BY <1>5, <3>3, <4>2, Numbers
      <4> QED BY <2>1, <3>3, <4>1, <4>3
    <3> QED BY <2>1, <3>1, <3>2, <3>3
  <2>5. ASSUME NEW c \in Clusters, NEW r \in Secrets
        PROVE  /\ using'[c][r] <= secret'[r].data
               /\ cache'[r].data # 0 => using'[c][r] <= cache'[r].data
    BY <1>3, Numbers DEF InOrder
  <2>6. ASSUME NEW c \in Clusters, NEW k \in DOMAIN log'
        PROVE  using'[c][log'[k].name] <= log'[k].obj.data
    <3>1. CASE k \in DOMAIN log
      BY <2>1, <3>1 DEF InOrder
    <3>2. CASE k = n
      <4>1. using[c][s] <= secret[s].data /\ using[c][s] \in Nat /\ secret[s].data \in Nat
        BY Numbers DEF InOrder
      <4>2. using[c][s] <= e.obj.data
        BY <1>5, <4>1
      <4> QED BY <1>5, <2>1, <3>2, <4>2
    <3> QED BY <2>1, <3>1, <3>2
  <2> QED BY <2>2, <2>3, <2>4, <2>5, <2>6 DEF InOrder
<1>6. /\ Event(s, new, FALSE) \in EventType /\ Event(s, new, FALSE).name = s
      /\ Event(s, new, FALSE).obj = new
      /\ Event(s, secret[s], TRUE) \in EventType /\ Event(s, secret[s], TRUE).name = s
      /\ Event(s, secret[s], TRUE).obj = secret[s]
  BY DEF Event, EventType, TypeInv, TypeOK
<1>7. secret[s].data \in Nat
  BY Numbers
<1>8. CASE log' = Append(log, Event(s, new, FALSE))
  <2>1. PICK e \in EventType : e = Event(s, new, FALSE)
    BY <1>6, Zenon
  <2>2. log' = Append(log, e) /\ e.name = s /\ e.obj.data = new.data
    BY <1>6, <1>8, <2>1, Zenon
  <2>3. secret[s].data <= e.obj.data /\ e.obj.data <= new.data /\ e.obj.data \in Nat
    BY <1>2, <2>2
  <2> QED BY <1>5, <2>2, <2>3
<1>9. CASE log' = Append(log, Event(s, secret[s], TRUE))
  <2>1. PICK e \in EventType : e = Event(s, secret[s], TRUE)
    BY <1>6, Zenon
  <2>2. log' = Append(log, e) /\ e.name = s /\ e.obj.data = secret[s].data
    BY <1>6, <1>9, <2>1, Zenon
  <2>3. secret[s].data <= e.obj.data /\ e.obj.data <= new.data /\ e.obj.data \in Nat
    BY <1>2, <1>7, <2>2
  <2> QED BY <1>5, <2>2, <2>3
<1> QED BY <1>4, <1>8, <1>9, WriteLogs, Zenon

(* What a step of a cluster does to the secrets.                           *)
LEMMA HandlerWrites ==
    ASSUME TypeInv, NEW c \in Clusters,
           \/ syncOwnedResource(c) \/ adoptLabels(c) \/ adoptOwner(c)
           \/ releaseLabels(c) \/ releaseOwner(c)
    PROVE  /\ UNCHANGED <<cache, using>>
           /\ UNCHANGED <<secret, log>> \/ \E s \in Secrets : Rewrites(s)
<1>1. TypeOK
  BY DEF TypeInv
<1>2. CASE syncOwnedResource(c)
  BY <1>2 DEF syncOwnedResource
<1>3. CASE adoptLabels(c)
  <2>1. Adoptee(c) \in Secrets /\ Role(c) \in RoleSet
    BY <1>3, TaskFacts DEF adoptLabels, At, Adopting
  <2>2. /\ UNCHANGED <<cache, using>>
        /\ UNCHANGED <<secret, log>> \/ ApplyLabels(Adoptee(c), Role(c))
    BY <1>3 DEF adoptLabels, CallFails
  <2> QED BY <1>1, <2>1, <2>2, AppliesAreRewrites
<1>4. CASE adoptOwner(c)
  <2>1. Adoptee(c) \in Secrets /\ Role(c) \in RoleSet
    BY <1>4, TaskFacts DEF adoptOwner, At, Adopting
  <2>2. /\ UNCHANGED <<cache, using>>
        /\ UNCHANGED <<secret, log>> \/ ApplyOwner(Adoptee(c), c)
    BY <1>4 DEF adoptOwner, CallFails
  <2> QED BY <1>1, <2>1, <2>2, AppliesAreRewrites
<1>5. CASE releaseLabels(c)
  <2>1. task[c] \in TaskType /\ Role(c) \in RoleSet
    BY <1>5, TaskFacts, Zenon DEF releaseLabels, At, Adopting
  <2>2. task[c].stale \subseteq Secrets
    BY <2>1, Zenon DEF TaskType
  <2>3. /\ UNCHANGED <<cache, using>>
        /\ UNCHANGED <<secret, log>> \/ \E s \in task[c].stale : DropLabels(s, Role(c))
    BY <1>5, Zenon DEF releaseLabels, CallFails
  <2> QED BY <1>1, <2>1, <2>2, <2>3, AppliesAreRewrites
<1>6. CASE releaseOwner(c)
  <2>1. task[c].old \in Secrets /\ Role(c) \in RoleSet
    BY <1>6, TaskFacts, Zenon DEF releaseOwner, At, Adopting
  <2>2. /\ UNCHANGED <<cache, using>>
        /\ UNCHANGED <<secret, log>> \/ DropOwner(task[c].old, c)
    BY <1>6, Zenon DEF releaseOwner, CallFails
  <2> QED BY <1>1, <2>1, <2>2, AppliesAreRewrites
<1> QED BY <1>2, <1>3, <1>4, <1>5, <1>6

(* The four things a step may do to the secrets, the cache and what is in  *)
(* use.                                                                    *)
LEMMA StepKinds ==
    ASSUME TypeInv, [Next]_vars
    PROVE  \/ UNCHANGED <<secret, log, cache, using>>
           \/ \E s \in Secrets : \E new \in SecretType :
                 Write(s, new) /\ secret[s].data <= new.data /\ UNCHANGED <<cache, using>>
           \/ \E c \in Clusters : collectSecrets(c)
           \/ syncExternalResource
<1>1. ASSUME NEW c \in Clusters, NEW s \in Secrets, Rewrites(s)
      PROVE  \E new \in SecretType : Write(s, new) /\ secret[s].data <= new.data
  <2>1. PICK new \in SecretType : Write(s, new) /\ new.data = secret[s].data
    BY <1>1 DEF Rewrites
  <2>2. secret[s].data <= new.data
    BY <2>1, Numbers
  <2> QED BY <2>1, <2>2
<1>2. CASE UNCHANGED vars
  BY <1>2 DEF vars
<1>3. ASSUME NEW c \in Clusters, Reconcile(c), ~collectSecrets(c)
      PROVE  /\ UNCHANGED <<cache, using>>
             /\ UNCHANGED <<secret, log>> \/ \E s \in Secrets : Rewrites(s)
  BY <1>3, HandlerWrites DEF Reconcile
<1>4. ASSUME NEW c \in Clusters, EditCredentials(c) PROVE UNCHANGED <<secret, log, cache, using>>
  BY <1>4 DEF EditCredentials
<1>5. ASSUME NEW s \in Secrets, EditSecret(s)
      PROVE  \E new \in SecretType :
                Write(s, new) /\ secret[s].data <= new.data /\ UNCHANGED <<cache, using>>
  <2>1. PICK new \in SecretType : Write(s, new) /\ new.data = secret[s].data + 1
    BY <1>5, EditSecretTyped
  <2>2. secret[s].data <= new.data
    BY <2>1, Numbers
  <2> QED BY <1>5, <2>1, <2>2 DEF EditSecret
<1> QED BY <1>1, <1>2, <1>3, <1>4, <1>5 DEF Next

(* What a cluster takes into use.                                          *)
LEMMA CollectTakes ==
    ASSUME TypeInv, NEW c \in Clusters, collectSecrets(c)
    PROVE  /\ \A s \in Secrets : using'[c][s] \in {0, cache[s].data}
           /\ \A d \in Clusters \ {c} : using'[d] = using[d]
           /\ UNCHANGED <<secret, log, cache>>
<1> DEFINE named == {task[c].creds[r] : r \in RoleSet}
           found == [s \in Secrets |-> IF s \in named /\ Labelled(cache[s]) THEN cache[s].data ELSE 0]
<1>1. \A s \in Secrets : found[s] \in {0, cache[s].data}
  <2> HIDE DEF named
  <2> QED OBVIOUS
<1>2. using' = [using EXCEPT ![c] = found] /\ UNCHANGED <<secret, log, cache>>
  BY DEF collectSecrets
<1> HIDE DEF found
<1>3. using \in [Clusters -> [Secrets -> 0 .. MaxWrites + 1]]
  BY DEF TypeInv, TypeOK
<1> QED BY <1>1, <1>2, <1>3

(* What is in the cache is no newer than what is still to come.            *)
LEMMA CollectInOrder ==
    ASSUME TypeInv, InOrder, NEW c \in Clusters, collectSecrets(c)
    PROVE  InOrder'
<1>1. /\ \A s \in Secrets : using'[c][s] \in {0, cache[s].data}
      /\ \A d \in Clusters \ {c} : using'[d] = using[d]
      /\ UNCHANGED <<secret, log, cache>>
  BY CollectTakes
<1>2. ASSUME NEW d \in Clusters, NEW s \in Secrets
      PROVE  /\ using'[d][s] <= secret[s].data
             /\ cache[s].data # 0 => using'[d][s] <= cache[s].data
  <2>1. CASE d # c
    BY <1>1, <2>1 DEF InOrder
  <2>2. CASE d = c
    <3>1. cache[s].data <= secret[s].data
      BY DEF InOrder
    <3> QED BY <1>1, <2>2, <3>1, Numbers
  <2> QED BY <2>1, <2>2
<1>3. ASSUME NEW d \in Clusters, NEW k \in DOMAIN log
      PROVE  using'[d][log[k].name] <= log[k].obj.data
  <2>1. CASE d # c
    BY <1>1, <2>1 DEF InOrder
  <2>2. CASE d = c
    <3>1. cache[log[k].name].data <= log[k].obj.data
      BY DEF InOrder
    <3> QED BY <1>1, <2>2, <3>1, Numbers
  <2> QED BY <2>1, <2>2
<1> QED BY <1>1, <1>2, <1>3 DEF InOrder

(* What a delivery does to the log and to the cache.                       *)
LEMMA DeliveryFacts ==
    ASSUME TypeInv, syncExternalResource
    PROVE  /\ 1 \in DOMAIN log
           /\ \A k \in DOMAIN log' : k \in Nat /\ k + 1 \in DOMAIN log /\ log'[k] = log[k + 1]
           /\ \A k \in DOMAIN log : k \in Nat /\ k >= 1
           /\ \A k \in DOMAIN log : k # 1 => k - 1 \in DOMAIN log'
           /\ cache'[log[1].name] = IF log[1].gone THEN NoSecret ELSE log[1].obj
           /\ \A s \in Secrets \ {log[1].name} : cache'[s] = cache[s]
           /\ UNCHANGED <<secret, using>>
<1>1. /\ log \in Seq(EventType) /\ log # <<>> /\ log' = Tail(log)
      /\ cache \in [Secrets -> SecretType]
  BY DEF TypeInv, TypeOK, syncExternalResource
<1>2. /\ 1 \in DOMAIN log /\ Head(log) = log[1] /\ log[1] \in EventType
      /\ \A k \in DOMAIN log' : k \in Nat /\ k + 1 \in DOMAIN log /\ log'[k] = log[k + 1]
      /\ \A k \in DOMAIN log : k \in Nat /\ k >= 1
      /\ \A k \in DOMAIN log : k # 1 => k - 1 \in DOMAIN log'
  BY <1>1
<1>3. /\ cache' = [cache EXCEPT ![log[1].name] = IF log[1].gone THEN NoSecret ELSE log[1].obj]
      /\ UNCHANGED <<secret, using>>
  BY <1>2 DEF syncExternalResource
<1>4. log[1].name \in Secrets
  BY <1>2 DEF EventType
<1> QED BY <1>1, <1>2, <1>3, <1>4

LEMMA DeliverInOrder ==
    ASSUME TypeInv, InOrder, syncExternalResource
    PROVE  InOrder'
<1> DEFINE e == log[1]
<1>1. /\ 1 \in DOMAIN log
      /\ \A k \in DOMAIN log' : k \in Nat /\ k + 1 \in DOMAIN log /\ log'[k] = log[k + 1]
      /\ \A s \in Secrets \ {e.name} : cache'[s] = cache[s]
      /\ UNCHANGED <<secret, using>>
      /\ e.name \in Secrets /\ e.obj.data \in Nat
  BY DeliveryFacts, Numbers
<1>2. cache'[e.name].data \in {0, e.obj.data}
  BY DeliveryFacts, ConstantsTyped, Zenon
<1>3. \A k \in DOMAIN log : log[k].name = e.name => e.obj.data <= log[k].obj.data
  <2>1. \A k \in DOMAIN log : 1 <= k
    BY DeliveryFacts
  <2> QED BY <1>1, <2>1 DEF InOrder
<1>4. /\ e.obj.data <= secret[e.name].data
      /\ \A c \in Clusters : using[c][e.name] <= e.obj.data
  BY <1>1 DEF InOrder
<1> HIDE DEF e
<1>5. ASSUME NEW s \in Secrets
      PROVE  /\ cache'[s].data <= secret[s].data
             /\ \A c \in Clusters : cache'[s].data # 0 => using[c][s] <= cache'[s].data
  <2>1. CASE s = e.name
    BY <1>1, <1>2, <1>4, <2>1, Numbers
  <2>2. CASE s # e.name
    BY <1>1, <2>2 DEF InOrder
  <2> QED BY <2>1, <2>2
<1>6. ASSUME NEW k \in DOMAIN log'
      PROVE  /\ cache'[log'[k].name].data <= log'[k].obj.data
             /\ log'[k].obj.data <= secret[log'[k].name].data
             /\ \A c \in Clusters : using[c][log'[k].name] <= log'[k].obj.data
  <2>1. k + 1 \in DOMAIN log /\ log'[k] = log[k + 1]
    BY <1>1
  <2>2. /\ log'[k].obj.data <= secret[log'[k].name].data
        /\ \A c \in Clusters : using[c][log'[k].name] <= log'[k].obj.data
        /\ cache[log'[k].name].data <= log'[k].obj.data
        /\ log'[k].name \in Secrets /\ log'[k].obj.data \in Nat
    BY <2>1, Numbers DEF InOrder
  <2>3. CASE log'[k].name = e.name
    <3>1. e.obj.data <= log'[k].obj.data
      BY <1>3, <2>1, <2>3
    <3>2. cache'[log'[k].name].data <= log'[k].obj.data
      BY <1>1, <1>2, <2>2, <2>3, <3>1
    <3> QED BY <2>2, <3>2
  <2>4. CASE log'[k].name # e.name
    BY <1>1, <2>2, <2>4
  <2> QED BY <2>3, <2>4
<1>7. ASSUME NEW j \in DOMAIN log', NEW k \in DOMAIN log', j <= k, log'[j].name = log'[k].name
      PROVE  log'[j].obj.data <= log'[k].obj.data
  <2>1. j + 1 \in DOMAIN log /\ k + 1 \in DOMAIN log /\ j + 1 <= k + 1
    BY <1>1, <1>7
  <2>2. log'[j] = log[j + 1] /\ log'[k] = log[k + 1]
    BY <1>1
  <2> QED BY <1>7, <2>1, <2>2 DEF InOrder
<1>8. \A c \in Clusters, s \in Secrets : using[c][s] <= secret[s].data
  BY DEF InOrder
<1> QED BY <1>1, <1>5, <1>6, <1>7, <1>8 DEF InOrder

(* At first nothing is cached, logged or in use.                           *)
LEMMA InitiallyInOrder == Init => InOrder
<1> SUFFICES ASSUME Init PROVE InOrder
  OBVIOUS
<1>1. TypeInv
  BY TypeInit
<1>2. \A s \in Secrets : cache[s].data = 0
  BY ConstantsTyped, Zenon DEF Init
<1>3. \A c \in Clusters, s \in Secrets : using[c][s] = 0
  BY DEF Init, Unused
<1>4. DOMAIN log = {}
  BY DEF Init
<1> QED BY <1>1, <1>2, <1>3, <1>4, Numbers DEF InOrder

LEMMA OrderInvariant == Spec => [](TypeInv /\ InOrder)
<1>1. InOrder /\ TypeInv /\ [Next]_vars => InOrder'
  <2> SUFFICES ASSUME InOrder, TypeInv, [Next]_vars PROVE InOrder'
    OBVIOUS
  <2>1. CASE UNCHANGED <<secret, log, cache, using>>
    BY <2>1 DEF InOrder
  <2> QED BY <2>1, StepKinds, WriteInOrder, CollectInOrder, DeliverInOrder
<1> QED BY <1>1, InitiallyInOrder, TypeInvariant, PTL DEF Spec

(* No cluster goes back to older contents of a secret.  Its handlers read  *)
(* a cache that lags behind the API server, labels and annotations are     *)
(* rewritten meanwhile, and the secret may leave the cache and come back.  *)
THEOREM AdoptionNeverBackwards == Spec => NeverBackwards
<1> DEFINE Forwards == \A c \in Clusters, s \in Secrets :
                          using'[c][s] # 0 => using[c][s] <= using'[c][s]
<1>1. TypeInv /\ InOrder /\ [Next]_vars => [Forwards]_vars
  <2> SUFFICES ASSUME TypeInv, InOrder, [Next]_vars PROVE Forwards
    OBVIOUS
  <2>1. CASE UNCHANGED using
    BY <2>1, Numbers
  <2>2. ASSUME NEW c \in Clusters, collectSecrets(c) PROVE Forwards
    <3>1. /\ \A s \in Secrets : using'[c][s] \in {0, cache[s].data}
          /\ \A d \in Clusters \ {c} : using'[d] = using[d]
      BY <2>2, CollectTakes
    <3>2. ASSUME NEW d \in Clusters, NEW s \in Secrets, using'[d][s] # 0
          PROVE  using[d][s] <= using'[d][s]
      <4>1. CASE d = c
        <5>1. using'[d][s] = cache[s].data
          BY <3>1, <3>2, <4>1
        <5> QED BY <3>2, <5>1 DEF InOrder
      <4>2. CASE d # c
        BY <3>1, <4>2, Numbers
      <4> QED BY <4>1, <4>2
    <3> QED BY <3>2
  <2>3. CASE syncExternalResource
    BY <2>1, <2>3 DEF syncExternalResource
  <2> QED BY <2>1, <2>2, <2>3, StepKinds
<1> HIDE DEF Forwards
<1>2. Spec => [][Forwards]_vars
  BY <1>1, OrderInvariant, PTL DEF Spec
<1> QED BY <1>2 DEF NeverBackwards, Forwards

----------------------------------------------------------------------------
(* What the cache shows *)

(* What the watch's selector lets through.                                 *)
Visible(o) == IF Labelled(o) THEN o ELSE NoSecret

(* What the cache shows of a secret once an event for it is delivered.     *)
Shown(e) == IF e.gone THEN NoSecret ELSE e.obj

(* The last event for a secret, or the cache when there is none, has the   *)
(* secret as it is.                                                        *)
Tracked ==
    /\ \A s \in Secrets :
          (\A k \in DOMAIN log : log[k].name # s) => cache[s] = Visible(secret[s])
    /\ \A k \in DOMAIN log :
          (\A j \in DOMAIN log : k < j => log[j].name # log[k].name) =>
              Shown(log[k]) = Visible(secret[log[k].name])

(* Once the informer has caught up, the cache has every secret as it is,   *)
(* and only those that carry the label (NewFilteredInformer's selector).   *)
CacheCurrent ==
    log = <<>> => \A s \in Secrets : cache[s] = Visible(secret[s])

LEMMA WriteTracked ==
    ASSUME TypeInv, Tracked, NEW s \in Secrets, NEW new \in SecretType, Write(s, new),
           UNCHANGED cache
    PROVE  Tracked'
<1>1. /\ secret'[s] = new /\ \A r \in Secrets \ {s} : secret'[r] = secret[r]
      /\ log \in Seq(EventType)
  BY WriteTyped DEF TypeInv, TypeOK
<1>2. CASE log' = log /\ (new = secret[s] \/ (~Labelled(secret[s]) /\ ~Labelled(new)))
  <2>1. Visible(new) = Visible(secret[s])
    BY <1>2 DEF Visible
  <2>2. \A r \in Secrets : Visible(secret'[r]) = Visible(secret[r])
    BY <1>1, <2>1
  <2>3. /\ \A r \in Secrets :
              (\A k \in DOMAIN log : log[k].name # r) => cache[r] = Visible(secret'[r])
        /\ \A k \in DOMAIN log :
              (\A j \in DOMAIN log : k < j => log[j].name # log[k].name) =>
                  Shown(log[k]) = Visible(secret'[log[k].name])
    BY <2>2, Numbers, SMTT(30) DEF Tracked
  <2>4. Tracked' <=>
        /\ \A r \in Secrets :
              (\A k \in DOMAIN log' : log'[k].name # r) => cache'[r] = Visible(secret'[r])
        /\ \A k \in DOMAIN log' :
              (\A j \in DOMAIN log' : k < j => log'[j].name # log'[k].name) =>
                  Shown(log'[k]) = Visible(secret'[log'[k].name])
    BY DEF Tracked, Shown, Visible, Labelled
  <2> QED BY <1>2, <2>3, <2>4
<1>3. ASSUME NEW e \in EventType, log' = Append(log, e), e.name = s, Shown(e) = Visible(new)
      PROVE  Tracked'
  <2> DEFINE n == Len(log) + 1
  <2>1. /\ DOMAIN log' = DOMAIN log \cup {n} /\ log'[n] = e
        /\ \A k \in DOMAIN log : log'[k] = log[k]
        /\ \A k \in DOMAIN log : k \in Nat /\ k < n
        /\ n \in Nat
    BY <1>1, <1>3, AppendFacts
  <2> HIDE DEF n
  <2>2. ASSUME NEW r \in Secrets, \A k \in DOMAIN log' : log'[k].name # r
        PROVE  cache'[r] = Visible(secret'[r])
    <3>1. r # s /\ \A k \in DOMAIN log : log[k].name # r
      BY <1>3, <2>1, <2>2
    <3> QED BY <1>1, <3>1 DEF Tracked
  <2>3. ASSUME NEW k \in DOMAIN log',
               \A j \in DOMAIN log' : k < j => log'[j].name # log'[k].name
        PROVE  Shown(log'[k]) = Visible(secret'[log'[k].name])
    <3>1. CASE k = n
      BY <1>1, <1>3, <2>1, <3>1
    <3>2. CASE k \in DOMAIN log
      <4>1. log[k].name # s /\ log'[k] = log[k] /\ log[k].name \in Secrets
        BY <1>3, <2>1, <2>3, <3>2, Numbers
      <4>2. \A j \in DOMAIN log : k < j => log[j].name # log[k].name
        BY <2>1, <2>3, <3>2
      <4>3. Shown(log[k]) = Visible(secret[log[k].name])
        BY <3>2, <4>2 DEF Tracked
      <4> QED BY <1>1, <4>1, <4>3
    <3> QED BY <2>1, <3>1, <3>2
  <2>4. Tracked' <=>
        /\ \A r \in Secrets :
              (\A k \in DOMAIN log' : log'[k].name # r) => cache'[r] = Visible(secret'[r])
        /\ \A k \in DOMAIN log' :
              (\A j \in DOMAIN log' : k < j => log'[j].name # log'[k].name) =>
                  Shown(log'[k]) = Visible(secret'[log'[k].name])
    BY DEF Tracked, Shown, Visible, Labelled
  <2> QED BY <2>2, <2>3, <2>4
<1>4. /\ Event(s, new, FALSE) \in EventType /\ Event(s, new, FALSE).name = s
      /\ Shown(Event(s, new, FALSE)) = new
      /\ Event(s, secret[s], TRUE) \in EventType /\ Event(s, secret[s], TRUE).name = s
      /\ Shown(Event(s, secret[s], TRUE)) = NoSecret
  BY DEF Event, EventType, TypeInv, TypeOK, Shown
<1>5. CASE log' = Append(log, Event(s, new, FALSE)) /\ Labelled(new)
  <2>1. Visible(new) = new
    BY <1>5 DEF Visible
  <2> QED BY <1>3, <1>4, <1>5, <2>1, Zenon
<1>6. CASE log' = Append(log, Event(s, secret[s], TRUE)) /\ ~Labelled(new)
  <2>1. Visible(new) = NoSecret
    BY <1>6 DEF Visible
  <2> QED BY <1>3, <1>4, <1>6, <2>1, Zenon
<1> QED BY <1>2, <1>5, <1>6, WriteLogs, Zenon

LEMMA DeliverTracked ==
    ASSUME TypeInv, Tracked, syncExternalResource
    PROVE  Tracked'
<1>1. /\ 1 \in DOMAIN log
      /\ \A k \in DOMAIN log' : k \in Nat /\ k + 1 \in DOMAIN log /\ log'[k] = log[k + 1]
      /\ \A k \in DOMAIN log : k \in Nat /\ k >= 1
      /\ \A k \in DOMAIN log : k # 1 => k - 1 \in DOMAIN log'
      /\ cache'[log[1].name] = Shown(log[1])
      /\ \A s \in Secrets \ {log[1].name} : cache'[s] = cache[s]
      /\ secret' = secret
  BY DeliveryFacts, SMTT(30) DEF Shown
<1>2. ASSUME NEW s \in Secrets, \A k \in DOMAIN log' : log'[k].name # s
      PROVE  cache'[s] = Visible(secret[s])
  <2>1. ASSUME NEW k \in DOMAIN log, k # 1 PROVE log[k].name # s
    <3>1. k - 1 \in DOMAIN log' /\ (k - 1) + 1 = k
      BY <1>1, <2>1
    <3>2. log'[k - 1] = log[k]
      BY <1>1, <3>1
    <3> QED BY <1>2, <3>1, <3>2
  <2>2. CASE log[1].name = s
    <3>1. \A j \in DOMAIN log : 1 < j => log[j].name # log[1].name
      BY <1>1, <2>1, <2>2
    <3>2. Shown(log[1]) = Visible(secret[log[1].name])
      BY <1>1, <3>1 DEF Tracked
    <3> QED BY <1>1, <2>2, <3>2
  <2>3. CASE log[1].name # s
    <3>1. \A k \in DOMAIN log : log[k].name # s
      BY <2>1, <2>3
    <3>2. cache[s] = Visible(secret[s])
      BY <3>1 DEF Tracked
    <3> QED BY <1>1, <2>3, <3>2
  <2> QED BY <2>2, <2>3
<1>3. ASSUME NEW k \in DOMAIN log',
             \A j \in DOMAIN log' : k < j => log'[j].name # log'[k].name
      PROVE  Shown(log'[k]) = Visible(secret[log'[k].name])
  <2>1. k \in Nat /\ k + 1 \in DOMAIN log /\ log'[k] = log[k + 1]
    BY <1>1
  <2>2. ASSUME NEW j \in DOMAIN log, k + 1 < j PROVE log[j].name # log[k + 1].name
    <3>1. j # 1 /\ j \in Nat
      BY <1>1, <2>1, <2>2
    <3>2. j - 1 \in DOMAIN log' /\ (j - 1) + 1 = j /\ k < j - 1
      BY <1>1, <2>1, <2>2, <3>1
    <3>3. log'[j - 1] = log[j]
      BY <1>1, <3>2
    <3> QED BY <1>3, <2>1, <3>2, <3>3
  <2>3. Shown(log[k + 1]) = Visible(secret[log[k + 1].name])
    BY <2>1, <2>2 DEF Tracked
  <2> QED BY <2>1, <2>3
<1>4. Tracked' <=>
      /\ \A r \in Secrets :
            (\A k \in DOMAIN log' : log'[k].name # r) => cache'[r] = Visible(secret'[r])
      /\ \A k \in DOMAIN log' :
            (\A j \in DOMAIN log' : k < j => log'[j].name # log'[k].name) =>
                Shown(log'[k]) = Visible(secret'[log'[k].name])
  BY DEF Tracked, Shown, Visible, Labelled
<1> QED BY <1>1, <1>2, <1>3, <1>4

LEMMA TrackedInvariant == Spec => []Tracked
<1>1. Init => Tracked
  <2> SUFFICES ASSUME Init PROVE Tracked
    OBVIOUS
  <2>1. DOMAIN log = {} /\ \A s \in Secrets : cache[s] = NoSecret
    BY DEF Init
  <2>2. \A s \in Secrets : secret[s].managers = {}
    BY DEF Init, NoSecret
  <2>3. \A s \in Secrets : Visible(secret[s]) = NoSecret
    BY <2>2 DEF Visible, Labelled
  <2> QED BY <2>1, <2>3 DEF Tracked
<1>2. Tracked /\ TypeInv /\ [Next]_vars => Tracked'
  <2> SUFFICES ASSUME Tracked, TypeInv, [Next]_vars PROVE Tracked'
    OBVIOUS
  <2>1. CASE UNCHANGED <<secret, log, cache>>
    BY <2>1 DEF Tracked, Shown, Visible, Labelled
  <2>2. ASSUME NEW c \in Clusters, collectSecrets(c) PROVE Tracked'
    BY <2>1, <2>2, CollectTakes
  <2> QED BY <2>1, <2>2, StepKinds, WriteTracked, DeliverTracked
<1> QED BY <1>1, <1>2, TypeInvariant, PTL DEF Spec

(* Whatever users and handlers write, and however far behind the informer  *)
(* is, it converges to the secrets as they are: no event is missing.       *)
THEOREM AdoptionCacheCurrent == Spec => []CacheCurrent
<1>1. Tracked => CacheCurrent
  BY DEF Tracked, CacheCurrent
<1> QED BY <1>1, TrackedInvariant, PTL

----------------------------------------------------------------------------
(* No change goes unnoticed *)

Has(c, o) == c \in o.owners

Pooled(s, o) == \A r \in o.managers : Pool(s, r)

(* No event of the secret is under way, or one is that queues the cluster. *)
Silent(s) == \A k \in DOMAIN log : log[k].name # s

Awaited(c, s) == \E k \in DOMAIN log : log[k].name = s /\ Has(c, log[k].obj)

(* The secret is labelled for the watch and annotated with the cluster.    *)
Held(c, s) == Labelled(secret[s]) /\ Has(c, secret[s])

(* The next change of the secret, or one that is under way, queues the     *)
(* cluster.                                                                *)
Ready(c, s) == Awaited(c, s) \/ Held(c, s)

(* The copies of a secret, from the cache over the log to the secret.  The *)
(* annotation of a cluster stays on it for as long as the label does: a    *)
(* labelled secret is not annotated less, and it loses the label only once *)
(* the cache has seen the annotation.                                      *)
Copies ==
    /\ \A s \in Secrets :
          /\ cache[s] = NoSecret \/ Labelled(cache[s])
          /\ secret[s].managers # {} => secret[s].data # 0
          /\ Pooled(s, secret[s]) /\ Pooled(s, cache[s])
    /\ \A k \in DOMAIN log : Labelled(log[k].obj) /\ Pooled(log[k].name, log[k].obj)

Annotated ==
    /\ \A c \in Clusters, s \in Secrets :
          Has(c, cache[s]) =>
              /\ \A k \in DOMAIN log : log[k].name = s => Has(c, log[k].obj)
              /\ Labelled(secret[s]) => Has(c, secret[s])
    /\ \A c \in Clusters : \A k \in DOMAIN log :
          ~log[k].gone /\ Has(c, log[k].obj) =>
              /\ \A j \in DOMAIN log :
                    k < j /\ log[j].name = log[k].name => Has(c, log[j].obj)
              /\ Labelled(secret[log[k].name]) => Has(c, secret[log[k].name])

Unlabelled ==
    /\ \A k \in DOMAIN log :
          log[k].gone => /\ \A j \in DOMAIN log : k < j => log[j].name # log[k].name
                         /\ ~Labelled(secret[log[k].name])
    /\ \A k \in DOMAIN log :
          ~Labelled(secret[log[k].name]) => \E c \in Clusters : Has(c, cache[log[k].name])

Heard ==
    \A c \in Clusters, s \in Secrets : Held(c, s) => Silent(s) \/ Awaited(c, s)

Watch == Copies /\ Annotated /\ Unlabelled /\ Heard

(* What the writes have in common.                                         *)
Considerate(s, new) ==
    /\ Pooled(s, new) /\ (new.managers # {} => new.data # 0)
    /\ Labelled(secret[s]) /\ Labelled(new) =>
          \A c \in Clusters : Has(c, secret[s]) => Has(c, new)
    /\ ~Labelled(secret[s]) /\ Labelled(new) => cache[s] = NoSecret
    /\ Labelled(secret[s]) /\ ~Labelled(new) => \E c \in Clusters : Has(c, cache[s])

(* The write of a secret appends e, as event n.                            *)
Logs(s, new, e, n) ==
    /\ e.name = s
    /\ DOMAIN log' = DOMAIN log \cup {n} /\ log'[n] = e
    /\ \A k \in DOMAIN log : log'[k] = log[k] /\ k \in Nat /\ k < n
    /\ \/ ~e.gone /\ e.obj = new /\ Labelled(new)
       \/ e.gone /\ e.obj = secret[s] /\ Labelled(secret[s]) /\ ~Labelled(new)

(* The write is of no interest to the watch.                               *)
LogsNothing(s, new) ==
    log' = log /\ (new = secret[s] \/ (~Labelled(secret[s]) /\ ~Labelled(new)))

LEMMA WriteCases ==
    ASSUME TypeInv, NEW s \in Secrets, NEW new \in SecretType, Write(s, new)
    PROVE  /\ secret'[s] = new /\ \A r \in Secrets \ {s} : secret'[r] = secret[r]
           /\ \/ LogsNothing(s, new)
              \/ \E e \in EventType : \E n \in Nat : Logs(s, new, e, n)
<1>1. log \in Seq(EventType) /\ secret \in [Secrets -> SecretType]
  BY DEF TypeInv, TypeOK
<1>2. secret'[s] = new /\ \A r \in Secrets \ {s} : secret'[r] = secret[r]
  BY WriteTyped DEF TypeInv
<1>3. ASSUME NEW e \in EventType, log' = Append(log, e)
      PROVE  \E n \in Nat :
                /\ DOMAIN log' = DOMAIN log \cup {n} /\ log'[n] = e
                /\ \A k \in DOMAIN log : log'[k] = log[k] /\ k \in Nat /\ k < n
  <2>1. /\ DOMAIN log' = DOMAIN log \cup {Len(log) + 1} /\ log'[Len(log) + 1] = e
        /\ \A k \in DOMAIN log : log'[k] = log[k]
        /\ \A k \in DOMAIN log : k \in Nat /\ k < Len(log) + 1
    BY <1>1, <1>3, AppendFacts
  <2>2. Len(log) + 1 \in Nat
    BY <1>1
  <2> QED BY <2>1, <2>2
<1>4. CASE log' = Append(log, Event(s, new, FALSE)) /\ Labelled(new)
  <2>1. PICK e \in EventType : e = Event(s, new, FALSE)
    BY Zenon DEF Event, EventType
  <2>2. e.name = s /\ ~e.gone /\ e.obj = new
    BY <2>1 DEF Event
  <2>3. log' = Append(log, e)
    BY <1>4, <2>1
  <2> QED BY <1>2, <1>3, <1>4, <2>2, <2>3, Zenon DEF Logs
<1>5. CASE log' = Append(log, Event(s, secret[s], TRUE)) /\ Labelled(secret[s]) /\ ~Labelled(new)
  <2>1. PICK e \in EventType : e = Event(s, secret[s], TRUE)
    BY <1>1, Zenon DEF Event, EventType
  <2>2. e.name = s /\ e.gone /\ e.obj = secret[s]
    BY <2>1 DEF Event
  <2>3. log' = Append(log, e)
    BY <1>5, <2>1
  <2> QED BY <1>2, <1>3, <1>5, <2>2, <2>3, Zenon DEF Logs
<1> QED BY <1>2, <1>4, <1>5, WriteLogs, Zenon DEF LogsNothing

(* The copies stay in order through such a write.                          *)
LEMMA SilentWriteWatched ==
    ASSUME TypeInv, Watch, NEW s \in Secrets, NEW new \in SecretType, Considerate(s, new),
           secret'[s] = new, \A r \in Secrets \ {s} : secret'[r] = secret[r],
           UNCHANGED cache, LogsNothing(s, new)
    PROVE  Watch'
<1> USE DEF LogsNothing
<1>1. \A k \in DOMAIN log : log[k].name \in Secrets
  BY Numbers
<1>2. \A r \in Secrets : Labelled(secret'[r]) => secret'[r] = secret[r]
  OBVIOUS
<1>3. \A r \in Secrets : ~Labelled(secret'[r]) => ~Labelled(secret[r])
  OBVIOUS
<1>4. Copies'
  <2>1. \A r \in Secrets : /\ secret'[r].managers # {} => secret'[r].data # 0
                           /\ Pooled(r, secret'[r])
    BY DEF Watch, Copies, Considerate
  <2> QED BY <2>1 DEF Watch, Copies
<1>5. Annotated'
  BY <1>1, <1>2 DEF Watch, Annotated
<1>6. Unlabelled'
  BY <1>1, <1>2, <1>3 DEF Watch, Unlabelled
<1>7. Heard'
  <2>1. ASSUME NEW c \in Clusters, NEW r \in Secrets, Held(c, r)' PROVE Held(c, r)
    BY <1>2, <2>1 DEF Held
  <2>2. ASSUME NEW c \in Clusters, NEW r \in Secrets
        PROVE  (Silent(r) => Silent(r)') /\ (Awaited(c, r) => Awaited(c, r)')
    BY DEF Silent, Awaited
  <2> QED BY <2>1, <2>2 DEF Watch, Heard
<1> QED BY <1>4, <1>5, <1>6, <1>7 DEF Watch

LEMMA EventWriteWatched ==
    ASSUME TypeInv, Watch, NEW s \in Secrets, NEW new \in SecretType, Considerate(s, new),
           secret'[s] = new, \A r \in Secrets \ {s} : secret'[r] = secret[r],
           UNCHANGED cache, NEW e \in EventType, NEW n \in Nat, Logs(s, new, e, n)
    PROVE  Watch'
<1> USE DEF Logs
<1>1. \A k \in DOMAIN log : log[k].name \in Secrets
  BY Numbers
<1>2. Copies'
  <2>1. \A r \in Secrets : /\ secret'[r].managers # {} => secret'[r].data # 0
                           /\ Pooled(r, secret'[r])
    BY DEF Watch, Copies, Considerate
  <2>2. Labelled(e.obj) /\ Pooled(s, e.obj)
    BY DEF Watch, Copies, Considerate
  <2>3. \A k \in DOMAIN log' : Labelled(log'[k].obj) /\ Pooled(log'[k].name, log'[k].obj)
    BY <2>2, SMTT(30) DEF Watch, Copies
  <2> QED BY <2>1, <2>3 DEF Watch, Copies
<1>3. ASSUME NEW k \in DOMAIN log, log[k].name = s PROVE Labelled(secret[s])
  <2>1. CASE ~Labelled(secret[s])
    <3>1. PICK c \in Clusters : Has(c, cache[s])
      BY <1>3, <2>1 DEF Watch, Unlabelled
    <3>2. cache[s] = NoSecret
      BY <2>1 DEF Considerate
    <3> QED BY <3>1, <3>2, SMTT(30) DEF Has, NoSecret
  <2> QED BY <2>1
<1>4. ASSUME NEW c \in Clusters, Labelled(secret[s]), Has(c, secret[s])
      PROVE  Has(c, e.obj) /\ (Labelled(new) => Has(c, new))
  BY <1>4 DEF Considerate
<1>5. ASSUME NEW c \in Clusters, NEW k \in DOMAIN log, log[k].name = s,
             ~log[k].gone, Has(c, log[k].obj)
      PROVE  Has(c, e.obj) /\ (Labelled(new) => Has(c, new))
  <2>1. Labelled(secret[s])
    BY <1>3, <1>5
  <2>2. Has(c, secret[s])
    BY <1>5, <2>1 DEF Watch, Annotated
  <2> QED BY <1>4, <2>1, <2>2
<1>6. ASSUME NEW c \in Clusters, Has(c, cache[s])
      PROVE  Has(c, e.obj) /\ (Labelled(new) => Has(c, new))
  <2>1. CASE ~Labelled(secret[s])
    <3>1. cache[s] = NoSecret
      BY <2>1 DEF Considerate
    <3> QED BY <1>6, <3>1, SMTT(30) DEF Has, NoSecret
  <2>2. CASE Labelled(secret[s])
    <3>1. Has(c, secret[s])
      BY <1>6, <2>2, Zenon DEF Watch, Annotated
    <3> QED BY <1>4, <2>2, <3>1
  <2> QED BY <2>1, <2>2
<1>7. Annotated'
  <2>1. ASSUME NEW c \in Clusters, NEW r \in Secrets, Has(c, cache'[r])
        PROVE  /\ \A k \in DOMAIN log' : log'[k].name = r => Has(c, log'[k].obj)
               /\ Labelled(secret'[r]) => Has(c, secret'[r])
    <3>1. CASE r = s
      BY <1>6, <2>1, <3>1 DEF Watch, Annotated
    <3>2. CASE r # s
      BY <2>1, <3>2, ZenonT(30) DEF Watch, Annotated
    <3> QED BY <3>1, <3>2, SMTT(30)
  <2>2. ASSUME NEW c \in Clusters, NEW k \in DOMAIN log', ~log'[k].gone, Has(c, log'[k].obj)
        PROVE  /\ \A j \in DOMAIN log' :
                     k < j /\ log'[j].name = log'[k].name => Has(c, log'[j].obj)
               /\ Labelled(secret'[log'[k].name]) => Has(c, secret'[log'[k].name])
    <3>1. CASE k = n
      BY <2>2, <3>1
    <3>2. CASE k \in DOMAIN log /\ log[k].name = s
      <4>1. Has(c, e.obj) /\ (Labelled(new) => Has(c, new))
        BY <1>5, <2>2, <3>2, Zenon
      <4>2. \A j \in DOMAIN log : k < j /\ log[j].name = log[k].name => Has(c, log[j].obj)
        BY <2>2, <3>2 DEF Watch, Annotated
      <4> QED BY <3>2, <4>1, <4>2
    <3>3. CASE k \in DOMAIN log /\ log[k].name # s
      <4>1. /\ \A j \in DOMAIN log : k < j /\ log[j].name = log[k].name => Has(c, log[j].obj)
            /\ Labelled(secret[log[k].name]) => Has(c, secret[log[k].name])
        BY <2>2, <3>3 DEF Watch, Annotated
      <4> QED BY <1>1, <3>3, <4>1, ZenonT(30)
    <3> QED BY <3>1, <3>2, <3>3
  <2> QED BY <2>1, <2>2, Zenon DEF Annotated
<1>8. Unlabelled'
  <2>1. ASSUME NEW k \in DOMAIN log', log'[k].gone
        PROVE  /\ \A j \in DOMAIN log' : k < j => log'[j].name # log'[k].name
               /\ ~Labelled(secret'[log'[k].name])
    <3>1. CASE k = n
      BY <2>1, <3>1
    <3>2. CASE k \in DOMAIN log
      <4>1. /\ \A j \in DOMAIN log : k < j => log[j].name # log[k].name
            /\ ~Labelled(secret[log[k].name])
        BY <2>1, <3>2 DEF Watch, Unlabelled
      <4>2. log[k].name # s
        BY <1>3, <3>2, <4>1
      <4> QED BY <1>1, <3>2, <4>1, <4>2
    <3> QED BY <3>1, <3>2
  <2>2. ASSUME NEW k \in DOMAIN log', ~Labelled(secret'[log'[k].name])
        PROVE  \E c \in Clusters : Has(c, cache'[log'[k].name])
    <3>1. CASE log'[k].name = s
      <4>1. Labelled(secret[s]) /\ ~Labelled(new)
        BY <2>2, <3>1
      <4> QED BY <3>1, <4>1 DEF Considerate
    <3>2. CASE log'[k].name # s
      <4>1. k \in DOMAIN log /\ log'[k] = log[k] /\ log[k].name \in Secrets
        BY <1>1, <3>2
      <4>2. ~Labelled(secret[log[k].name])
        BY <2>2, <3>2, <4>1
      <4> QED BY <4>1, <4>2, Zenon DEF Watch, Unlabelled
    <3> QED BY <3>1, <3>2, Zenon
  <2> QED BY <2>1, <2>2 DEF Unlabelled
<1>9. Heard'
  <2>1. ASSUME NEW c \in Clusters, NEW r \in Secrets, Held(c, r)'
        PROVE  Silent(r)' \/ Awaited(c, r)'
    <3>1. CASE r = s
      <4>1. Labelled(new) /\ Has(c, new)
        BY <2>1, <3>1 DEF Held
      <4>2. log'[n].name = s /\ Has(c, log'[n].obj)
        BY <4>1
      <4> QED BY <3>1, <4>2, Zenon DEF Awaited
    <3>2. CASE r # s
      <4>1. Held(c, r)
        BY <2>1, <3>2, Zenon DEF Held
      <4>2. Silent(r) \/ Awaited(c, r)
        BY <4>1 DEF Watch, Heard
      <4> QED BY <3>2, <4>2 DEF Silent, Awaited
    <3> QED BY <3>1, <3>2
  <2> QED BY <2>1 DEF Heard
<1> QED BY <1>2, <1>7, <1>8, <1>9 DEF Watch

LEMMA WriteWatched ==
    ASSUME TypeInv, Watch, NEW s \in Secrets, NEW new \in SecretType, Write(s, new),
           Considerate(s, new), UNCHANGED cache
    PROVE  Watch'
BY WriteCases, SilentWriteWatched, EventWriteWatched

(* A write keeps what is to queue the cluster.                             *)
LEMMA WriteReady ==
    ASSUME TypeInv, NEW s \in Secrets, NEW new \in SecretType, Write(s, new),
           Considerate(s, new), NEW c \in Clusters, NEW r \in Secrets
    PROVE  /\ Awaited(c, r) => Awaited(c, r)'
           /\ Ready(c, r) => Ready(c, r)'
           /\ r # s /\ Silent(r) => Silent(r)'
           /\ r = s /\ Held(c, s) => new = secret[s] \/ Awaited(c, s)'
<1>1. secret'[s] = new /\ \A q \in Secrets \ {s} : secret'[q] = secret[q]
  BY WriteCases
<1>2. CASE LogsNothing(s, new)
  <2>1. (Awaited(c, r) => Awaited(c, r)') /\ (Silent(r) => Silent(r)')
    BY <1>2, SMTT(30) DEF LogsNothing, Awaited, Silent
  <2>2. Held(c, r) => Held(c, r)'
    BY <1>1, <1>2 DEF LogsNothing, Held
  <2>3. Held(c, s) => new = secret[s]
    BY <1>2 DEF LogsNothing, Held
  <2> QED BY <2>1, <2>2, <2>3, SMTT(30) DEF Ready
<1>3. ASSUME NEW e \in EventType, NEW n \in Nat, Logs(s, new, e, n)
      PROVE  /\ Awaited(c, r) => Awaited(c, r)'
             /\ Ready(c, r) => Ready(c, r)'
             /\ r # s /\ Silent(r) => Silent(r)'
             /\ r = s /\ Held(c, s) => Awaited(c, s)'
  <2>1. Awaited(c, r) => Awaited(c, r)'
    BY <1>3 DEF Logs, Awaited
  <2>2. r # s /\ Silent(r) => Silent(r)'
    BY <1>3 DEF Logs, Silent
  <2>3. ASSUME Held(c, s) PROVE Awaited(c, s)'
    <3>1. Has(c, e.obj)
      BY <1>3, <2>3 DEF Logs, Held, Considerate
    <3> QED BY <1>3, <3>1, Zenon DEF Logs, Awaited
  <2>4. ASSUME r # s, Held(c, r) PROVE Held(c, r)'
    BY <1>1, <2>4 DEF Held
  <2> QED BY <2>1, <2>2, <2>3, <2>4 DEF Ready
<1> QED BY <1>2, <1>3, WriteCases, Zenon

(* The delivery of an event, too, keeps the copies in order.               *)
LEMMA DeliverWatched ==
    ASSUME TypeInv, Watch, syncExternalResource
    PROVE  Watch'
<1> DEFINE e == log[1]
<1>1. /\ 1 \in DOMAIN log
      /\ \A k \in DOMAIN log' : k \in Nat /\ k + 1 \in DOMAIN log /\ log'[k] = log[k + 1]
      /\ \A k \in DOMAIN log : k \in Nat /\ k >= 1
      /\ \A k \in DOMAIN log : k # 1 => k - 1 \in DOMAIN log'
      /\ cache'[e.name] = IF e.gone THEN NoSecret ELSE e.obj
      /\ \A s \in Secrets \ {e.name} : cache'[s] = cache[s]
      /\ secret' = secret
  BY DeliveryFacts
<1>2. \A k \in DOMAIN log : log[k].name \in Secrets
  BY Numbers
<1>3. \A k \in DOMAIN log' : k + 1 \in DOMAIN log /\ 1 < k + 1 /\ log'[k] = log[k + 1]
  <2>1. \A k \in Nat : k + 1 # 1 => 1 < k + 1
    OBVIOUS
  <2>2. \A k \in DOMAIN log' : k >= 1
    <3>1. log' \in Seq(EventType)
      BY DeliverTyped DEF TypeInv, TypeOK
    <3> QED BY <3>1
  <2> QED BY <1>1, <2>1, <2>2
<1>4. \A j, k \in DOMAIN log' : j < k => j + 1 < k + 1
  BY <1>1
<1>5. e.name \in Secrets
  BY <1>1, <1>2
<1> HIDE DEF e
<1>6. Copies'
  <2>1. \A s \in Secrets : (cache'[s] = NoSecret \/ Labelled(cache'[s])) /\ Pooled(s, cache'[s])
    <3>1. Labelled(e.obj) /\ Pooled(e.name, e.obj)
      BY <1>1 DEF e, Watch, Copies
    <3>2. Pooled(e.name, NoSecret)
      BY DEF Pooled, NoSecret
    <3> QED BY <1>1, <3>1, <3>2 DEF Watch, Copies
  <2>2. \A k \in DOMAIN log' : Labelled(log'[k].obj) /\ Pooled(log'[k].name, log'[k].obj)
    BY <1>3 DEF Watch, Copies
  <2> QED BY <1>1, <2>1, <2>2, Zenon DEF Watch, Copies
<1>7. ASSUME NEW c \in Clusters, ~e.gone, Has(c, e.obj)
      PROVE  /\ \A k \in DOMAIN log' : log'[k].name = e.name => Has(c, log'[k].obj)
             /\ Labelled(secret[e.name]) => Has(c, secret[e.name])
  <2>1. /\ \A j \in DOMAIN log : 1 < j /\ log[j].name = e.name => Has(c, log[j].obj)
        /\ Labelled(secret[e.name]) => Has(c, secret[e.name])
    BY <1>1, <1>7 DEF e, Watch, Annotated
  <2> QED BY <1>3, <2>1, Zenon
<1>8. \A k \in DOMAIN log' : log'[k].name = e.name => ~e.gone
  <2>1. e.gone => \A j \in DOMAIN log : 1 < j => log[j].name # e.name
    BY <1>1 DEF e, Watch, Unlabelled
  <2> QED BY <1>3, <2>1, Zenon
<1>9. Annotated'
  <2>1. ASSUME NEW c \in Clusters, NEW s \in Secrets, Has(c, cache'[s])
        PROVE  /\ \A k \in DOMAIN log' : log'[k].name = s => Has(c, log'[k].obj)
               /\ Labelled(secret'[s]) => Has(c, secret'[s])
    <3>1. CASE s = e.name
      <4>1. ~e.gone /\ cache'[s] = e.obj
        BY <1>1, <2>1, <3>1, SMTT(30) DEF Has, NoSecret
      <4> QED BY <1>1, <1>7, <2>1, <3>1, <4>1
    <3>2. CASE s # e.name
      <4>1. Has(c, cache[s])
        BY <1>1, <2>1, <3>2, Zenon
      <4>2. /\ \A k \in DOMAIN log : log[k].name = s => Has(c, log[k].obj)
            /\ Labelled(secret[s]) => Has(c, secret[s])
        BY <4>1, Zenon DEF Watch, Annotated
      <4> QED BY <1>1, <1>3, <4>2, ZenonT(30)
    <3> QED BY <3>1, <3>2, SMTT(30)
  <2>2. ASSUME NEW c \in Clusters, NEW k \in DOMAIN log', ~log'[k].gone, Has(c, log'[k].obj)
        PROVE  /\ \A j \in DOMAIN log' :
                     k < j /\ log'[j].name = log'[k].name => Has(c, log'[j].obj)
               /\ Labelled(secret'[log'[k].name]) => Has(c, secret'[log'[k].name])
    <3>1. k + 1 \in DOMAIN log /\ log'[k] = log[k + 1]
      BY <1>3
    <3>2. /\ \A j \in DOMAIN log :
                k + 1 < j /\ log[j].name = log[k + 1].name => Has(c, log[j].obj)
          /\ Labelled(secret[log[k + 1].name]) => Has(c, secret[log[k + 1].name])
      BY <2>2, <3>1 DEF Watch, Annotated
    <3>3. ASSUME NEW j \in DOMAIN log', k < j, log'[j].name = log'[k].name
          PROVE  Has(c, log'[j].obj)
      <4>1. j + 1 \in DOMAIN log /\ log'[j] = log[j + 1] /\ k + 1 < j + 1
        BY <1>3, <1>4, <3>3
      <4> QED BY <3>1, <3>2, <3>3, <4>1
    <3> QED BY <1>1, <3>1, <3>2, <3>3
  <2> QED BY <2>1, <2>2, Zenon DEF Annotated
<1>10. Unlabelled'
  <2>1. ASSUME NEW k \in DOMAIN log', log'[k].gone
        PROVE  /\ \A j \in DOMAIN log' : k < j => log'[j].name # log'[k].name
               /\ ~Labelled(secret'[log'[k].name])
    <3>1. k + 1 \in DOMAIN log /\ log'[k] = log[k + 1]
      BY <1>3
    <3>2. /\ \A j \in DOMAIN log : k + 1 < j => log[j].name # log[k + 1].name
          /\ ~Labelled(secret[log[k + 1].name])
      BY <2>1, <3>1 DEF Watch, Unlabelled
    <3>3. ASSUME NEW j \in DOMAIN log', k < j PROVE log'[j].name # log'[k].name
      <4>1. j + 1 \in DOMAIN log /\ log'[j] = log[j + 1] /\ k + 1 < j + 1
        BY <1>3, <1>4, <3>3
      <4> QED BY <3>1, <3>2, <4>1
    <3> QED BY <1>1, <3>1, <3>2, <3>3
  <2>2. ASSUME NEW k \in DOMAIN log', ~Labelled(secret'[log'[k].name])
        PROVE  \E c \in Clusters : Has(c, cache'[log'[k].name])
    <3>1. /\ k + 1 \in DOMAIN log /\ log'[k] = log[k + 1] /\ log'[k].name \in Secrets
      BY <1>2, <1>3
    <3>2. PICK c \in Clusters : Has(c, cache[log'[k].name])
      BY <1>1, <2>2, <3>1 DEF Watch, Unlabelled
    <3>3. CASE log'[k].name = e.name
      <4>1. Has(c, e.obj)
        BY <1>1, <1>5, <3>2, <3>3 DEF e, Watch, Annotated
      <4>2. cache'[e.name] = e.obj
        BY <1>1, <1>8, <3>3
      <4> QED BY <3>3, <4>1, <4>2, SMTT(30)
    <3>4. CASE log'[k].name # e.name
      BY <1>1, <3>1, <3>2, <3>4
    <3> QED BY <3>3, <3>4
  <2> QED BY <2>1, <2>2, SMTT(30) DEF Unlabelled
<1>11. Heard'
  <2>1. ASSUME NEW c \in Clusters, NEW s \in Secrets, Held(c, s)', ~Silent(s)'
        PROVE  Awaited(c, s)'
    <3>1. PICK k \in DOMAIN log' : log'[k].name = s
      BY <2>1, Zenon DEF Silent
    <3>2. Held(c, s) /\ ~Silent(s)
      BY <1>1, <1>3, <2>1, <3>1 DEF Held, Silent
    <3>3. PICK j \in DOMAIN log : log[j].name = s /\ Has(c, log[j].obj)
      BY <3>2, Zenon DEF Watch, Heard, Awaited
    <3>4. CASE j = 1
      <4>1. ~e.gone /\ Has(c, e.obj) /\ e.name = s
        BY <1>8, <3>1, <3>3, <3>4 DEF e
      <4> QED BY <1>7, <3>1, <4>1 DEF Awaited
    <3>5. CASE j # 1
      <4>1. j - 1 \in DOMAIN log' /\ (j - 1) + 1 = j
        BY <1>1, <3>5
      <4>2. log'[j - 1] = log[j]
        BY <1>1, <4>1
      <4> QED BY <3>3, <4>1, <4>2 DEF Awaited
    <3> QED BY <3>4, <3>5
  <2> QED BY <2>1 DEF Heard
<1> QED BY <1>6, <1>9, <1>10, <1>11 DEF Watch

(* Every write of the operator and of the users is such a write.           *)
Writes ==
    \/ UNCHANGED <<secret, log>>
    \/ \E s \in Secrets : \E new \in SecretType : Write(s, new) /\ Considerate(s, new)

LEMMA WritesKept ==
    ASSUME TypeInv, Watch, Writes, UNCHANGED cache
    PROVE  /\ Watch'
           /\ \A c \in Clusters, r \in Secrets : Ready(c, r) => Ready(c, r)'
<1>1. CASE UNCHANGED <<secret, log>>
  <2>1. Watch'
    <3>1. Copies' /\ Annotated' /\ Unlabelled'
      BY <1>1 DEF Watch, Copies, Annotated, Unlabelled
    <3>2. \A c, r : /\ (Held(c, r)' <=> Held(c, r)) /\ (Silent(r)' <=> Silent(r))
                    /\ Awaited(c, r)' <=> Awaited(c, r)
      BY <1>1 DEF Held, Silent, Awaited
    <3>3. Heard'
      BY <3>2 DEF Watch, Heard
    <3> QED BY <3>1, <3>3, SMTT(30) DEF Watch
  <2>2. \A c \in Clusters, r \in Secrets : Ready(c, r) => Ready(c, r)'
    BY <1>1 DEF Ready, Held, Awaited
  <2> QED BY <2>1, <2>2, SMTT(30)
<1>2. ASSUME NEW s \in Secrets, NEW new \in SecretType, Write(s, new), Considerate(s, new)
      PROVE  Watch' /\ \A c \in Clusters, r \in Secrets : Ready(c, r) => Ready(c, r)'
  BY <1>2, WriteWatched, WriteReady, SMTT(30)
<1> QED BY <1>1, <1>2 DEF Writes

LEMMA LabelsWrite ==
    ASSUME TypeInv, Watch, NEW s \in Secrets, NEW r \in RoleSet, Pool(s, r),
           secret[s].data # 0, cache[s] = NoSecret, ApplyLabels(s, r)
    PROVE  /\ Writes /\ Labelled(secret'[s])
           /\ \A c \in Clusters : Has(c, secret[s]) => Has(c, secret'[s])
<1> DEFINE new == [secret[s] EXCEPT !.managers = @ \cup {r}]
<1>1. secret[s] \in SecretType
  BY DEF TypeInv, TypeOK
<1>2. new \in SecretType /\ new.data = secret[s].data /\ new.owners = secret[s].owners
  BY <1>1 DEF SecretType
<1>3. new.managers = secret[s].managers \cup {r}
  BY <1>1 DEF SecretType
<1>4. Write(s, new)
  BY DEF ApplyLabels
<1> HIDE DEF new
<1>5. Considerate(s, new)
  <2>1. Pooled(s, new)
    BY <1>3, Zenon DEF Watch, Copies, Pooled
  <2> QED BY <1>2, <1>3, <2>1, Zenon DEF Considerate, Labelled, Has
<1>6. secret'[s] = new
  BY <1>2, <1>4, WriteTyped, Zenon DEF TypeInv
<1>7. Labelled(new)
  BY <1>2, <1>3 DEF Labelled
<1> QED BY <1>2, <1>4, <1>5, <1>6, <1>7 DEF Writes, Has

LEMMA OwnerWrite ==
    ASSUME TypeInv, Watch, NEW s \in Secrets, NEW c \in Clusters, Labelled(secret[s]),
           ApplyOwner(s, c)
    PROVE  Writes /\ Held(c, s)'
<1> DEFINE new == [secret[s] EXCEPT !.owners = @ \cup {c}]
<1>1. secret[s] \in SecretType
  BY DEF TypeInv, TypeOK
<1>2. new \in SecretType /\ new.data = secret[s].data /\ new.managers = secret[s].managers
  BY <1>1 DEF SecretType
<1>3. new.owners = secret[s].owners \cup {c}
  BY <1>1 DEF SecretType
<1>4. Write(s, new)
  BY Zenon DEF ApplyOwner
<1> HIDE DEF new
<1>5. Considerate(s, new)
  <2>1. Pooled(s, new)
    BY <1>2, SMTT(30) DEF Watch, Copies, Pooled
  <2> QED BY <1>2, <1>3, <2>1, Zenon DEF Considerate, Labelled, Has
<1>6. secret'[s] = new
  BY <1>2, <1>4, WriteTyped DEF TypeInv
<1>7. Labelled(new) /\ Has(c, new)
  BY <1>2, <1>3, Zenon DEF Labelled, Has
<1> QED BY <1>2, <1>4, <1>5, <1>6, <1>7 DEF Writes, Held

LEMMA DropLabelsWrite ==
    ASSUME SecretsApart, TypeInv, Watch, NEW s \in Secrets, NEW r \in RoleSet, Pool(s, r),
           NEW c \in Clusters, Has(c, cache[s]), DropLabels(s, r)
    PROVE  /\ Writes /\ ~Labelled(secret'[s])
           /\ \A q \in Secrets \ {s} : secret'[q] = secret[q]
<1> DEFINE new == [secret[s] EXCEPT !.managers = @ \ {r}]
<1>1. secret[s] \in SecretType
  BY DEF TypeInv, TypeOK
<1>2. new \in SecretType /\ new.managers = secret[s].managers \ {r}
  BY <1>1 DEF SecretType
<1>3. Write(s, new)
  BY DEF DropLabels
<1> HIDE DEF new
<1>4. new.managers = {}
  <2>1. secret[s].managers \subseteq RoleSet
    BY <1>1, ZenonT(30) DEF SecretType
  <2>2. \A q \in secret[s].managers : Pool(s, q)
    BY DEF Watch, Copies, Pooled
  <2> QED BY <1>2, <2>1, <2>2, Zenon DEF SecretsApart
<1>5. ~Labelled(new) /\ Pooled(s, new)
  BY <1>4, Zenon DEF Labelled, Pooled
<1>6. Considerate(s, new)
  BY <1>4, <1>5, Zenon DEF Considerate
<1>7. secret'[s] = new /\ \A q \in Secrets \ {s} : secret'[q] = secret[q]
  BY <1>2, <1>3, WriteTyped DEF TypeInv
<1> QED BY <1>2, <1>3, <1>5, <1>6, <1>7 DEF Writes

LEMMA DropOwnerWrite ==
    ASSUME TypeInv, Watch, NEW s \in Secrets, NEW c \in Clusters, ~Labelled(secret[s]),
           DropOwner(s, c)
    PROVE  /\ Writes /\ ~Labelled(secret'[s])
           /\ \A q \in Secrets \ {s} : secret'[q] = secret[q]
<1> DEFINE new == [secret[s] EXCEPT !.owners = @ \ {c}]
<1>1. secret[s] \in SecretType
  BY DEF TypeInv, TypeOK
<1>2. new \in SecretType /\ new.data = secret[s].data /\ new.managers = secret[s].managers
  BY <1>1 DEF SecretType
<1>3. Write(s, new)
  BY DEF DropOwner
<1> HIDE DEF new
<1>4. ~Labelled(new) /\ Pooled(s, new)
  BY <1>2 DEF Labelled, Watch, Copies, Pooled
<1>5. Considerate(s, new)
  BY <1>2, <1>4, Zenon DEF Considerate, Watch, Copies
<1>6. secret'[s] = new /\ \A q \in Secrets \ {s} : secret'[q] = secret[q]
  BY <1>2, <1>3, WriteTyped DEF TypeInv
<1> QED BY <1>2, <1>3, <1>4, <1>5, <1>6 DEF Writes

LEMMA UserWrite ==
    ASSUME TypeInv, Watch, NEW s \in Secrets, EditSecret(s)
    PROVE  /\ \E new \in SecretType : Write(s, new) /\ Considerate(s, new) /\ new # secret[s]
           /\ \A q \in Secrets : Labelled(secret'[q]) <=> Labelled(secret[q])
           /\ \A q \in Secrets \ {s} : secret'[q] = secret[q]
           /\ UNCHANGED <<creds, cache, queued, task, using>>
<1> DEFINE new == [secret[s] EXCEPT !.data = @ + 1]
<1>1. secret[s] \in SecretType /\ secret[s].data \in Nat
  BY Numbers DEF TypeInv, TypeOK
<1>2. Write(s, new) /\ UNCHANGED <<creds, cache, queued, task, using>>
  BY DEF EditSecret
<1>3. /\ new.managers = secret[s].managers /\ new.owners = secret[s].owners
      /\ new.data = secret[s].data + 1
  BY <1>1 DEF SecretType
<1>4. new \in SecretType
  <2>1. secret[s].data + 1 \in 0 .. MaxWrites + 1
    <3>1. secret[s].data + left.writes <= MaxWrites + 1 /\ left.writes > 0
      BY DEF TypeInv, EditSecret
    <3>2. left.writes \in Nat
      BY LeftTyped, Bounds, SMTT(30)
    <3> QED BY <1>1, <3>1, <3>2, Bounds, SMTT(30)
  <2> QED BY <1>1, <2>1, SMTT(30) DEF SecretType
<1> HIDE DEF new
<1>5. new.data # 0 /\ new.data # secret[s].data
  BY <1>1, <1>3
<1>6. Labelled(new) <=> Labelled(secret[s])
  BY <1>3, <1>5, Zenon DEF Labelled, Watch, Copies
<1>7. Considerate(s, new)
  <2>1. Pooled(s, new)
    BY <1>3 DEF Watch, Copies, Pooled
  <2> QED BY <1>3, <1>5, <1>6, <2>1, Zenon DEF Considerate, Has
<1>8. secret'[s] = new /\ \A q \in Secrets \ {s} : secret'[q] = secret[q]
  BY <1>2, <1>4, WriteTyped DEF TypeInv
<1> QED BY <1>2, <1>4, <1>5, <1>6, <1>7, <1>8, ZenonT(30)

(* The role has been dealt with, as far as the events of its secret are    *)
(* concerned.                                                              *)
Done(t, j) ==
    \/ t.pc = "collect"
    \/ j < t.i
    \/ j = t.i /\ (t.pc \in {"stale", "release"} \/ (t.pc = "owner" /\ t.owned))

(* The label can be taken from the secret, or has been.                    *)
Releasable(c, t, s) ==
    Pool(s, Roles[t.i]) /\ (Has(c, cache[s]) \/ ~Labelled(secret[s]))

(* What a reconcile knows of the secrets.  What it has adopted will queue  *)
(* the cluster again, unless it is queued already.                         *)
Progress(c) ==
    LET t == task[c]
    IN  t.pc # "idle" =>
            /\ c \notin queued => t.creds = creds[c]
            /\ c \notin queued => \A j \in DOMAIN Roles :
                  Done(t, j) /\ t.creds[Roles[j]] \in Secrets => Ready(c, t.creds[Roles[j]])
            /\ t.pc = "owner" /\ ~t.owned => Labelled(secret[t.creds[Roles[t.i]]])
            /\ t.pc \in {"stale", "release"} => \A s \in t.stale : Releasable(c, t, s)
            /\ t.pc = "release" => ~Labelled(secret[t.old])

(* What a cluster that waits for events can rely on.                       *)
Settled(c) ==
    task[c].pc = "idle" /\ c \notin queued =>
        \A s \in Secrets :
            IF s \in Names(c)
            THEN Awaited(c, s) \/ (Held(c, s) /\ Silent(s) /\ using[c][s] = secret[s].data)
            ELSE using[c][s] = 0

(* The end of a reconcile that is to be repeated.                          *)
LEMMA QueuedAgain ==
    ASSUME NEW c \in Clusters, Requeue(c), task \in [Clusters -> TaskType]
    PROVE  Progress(c)' /\ Settled(c)'
<1>1. task'[c].pc = "idle" /\ c \in queued'
  BY Zenon DEF Requeue, NoTask
<1> QED BY <1>1, Zenon DEF Progress, Settled

(* The role has no secret.                                                 *)
Vacant(credentials, j) == credentials[Roles[j]] = ""

(* A step within a reconcile.                                              *)
LEMMA StepProgress ==
    ASSUME TypeInv, Watch, NEW c \in Clusters, Progress(c), task[c].pc # "idle",
           Writes, UNCHANGED <<cache, creds, queued>>,
           NEW t, task'[c] = t, t.pc # "idle", t.creds = task[c].creds,
           \A j \in DOMAIN Roles : Done(t, j) /\ t.creds[Roles[j]] \in Secrets =>
               Done(task[c], j) \/ Ready(c, t.creds[Roles[j]])' \/ Vacant(t.creds, j),
           t.pc = "owner" /\ ~t.owned => Labelled(secret'[t.creds[Roles[t.i]]]),
           t.pc \in {"stale", "release"} => \A s \in t.stale : Releasable(c, t, s)',
           t.pc = "release" => ~Labelled(secret'[t.old])
    PROVE  Progress(c)' /\ Settled(c)' /\ Watch'
<1>1. Watch' /\ \A r \in Secrets : Ready(c, r) => Ready(c, r)'
  BY WritesKept, Zenon
<1>2. ASSUME c \notin queued', NEW j \in DOMAIN Roles, Done(t, j), t.creds[Roles[j]] \in Secrets
      PROVE  Ready(c, t.creds[Roles[j]])'
  <2>1. CASE Done(task[c], j)
    <3>1. Ready(c, task[c].creds[Roles[j]])
      BY <1>2, <2>1, Zenon DEF Progress
    <3> QED BY <1>1, <1>2, <3>1, Zenon
  <2>2. ~Vacant(t.creds, j)
    BY <1>2, AdoptionAssumption, Zenon DEF Vacant
  <2> QED BY <1>2, <2>1, <2>2, Zenon
<1>3. c \notin queued' => t.creds = creds'[c]
  BY Zenon DEF Progress
<1>4. Progress(c)'
  BY <1>2, <1>3, Zenon DEF Progress
<1>5. Settled(c)'
  BY Zenon DEF Settled
<1> QED BY <1>1, <1>4, <1>5, ZenonT(30)

(* The roles that NextRole leaves behind.                                  *)
LEMMA NextRoleDone ==
    ASSUME TypeInv, NEW c \in Clusters, NEW t, NEW i \in Nat, 1 <= i, NextRole(c, t, i)
    PROVE  /\ task'[c].creds = t.creds
           /\ task'[c].pc \in {"labels", "collect"}
           /\ \A j \in DOMAIN Roles :
                 Done(task'[c], j) => j < i \/ Vacant(t.creds, j)
<1> DEFINE todo == {j \in i .. Len(Roles) : t.creds[Roles[j]] # ""}
           done == [NoTask EXCEPT !.pc = "collect", !.creds = t.creds]
           least == CHOOSE j \in todo : \A k \in todo : j <= k
           adopt == [NoTask EXCEPT !.pc = "labels", !.creds = t.creds, !.i = least]
<1>1. task' = [task EXCEPT ![c] = IF todo = {} THEN done ELSE adopt]
  BY Zenon DEF NextRole
<1>2. done.pc = "collect" /\ done.creds = t.creds
  BY DEF NoTask
<1>3. adopt.pc = "labels" /\ adopt.creds = t.creds /\ adopt.i = least
  BY Zenon DEF NoTask
<1>4. ASSUME NEW j \in DOMAIN Roles, j \notin todo PROVE j < i \/ Vacant(t.creds, j)
  <2>1. j \in i .. Len(Roles) \/ j < i
    BY Bounds
  <2>2. j \in i .. Len(Roles) => Vacant(t.creds, j)
    BY <1>4, Zenon DEF Vacant
  <2> QED BY <2>1, <2>2
<1>5. todo \subseteq Nat
  <2>1. i .. Len(Roles) \subseteq Nat
    BY Bounds
  <2> QED BY <2>1, Zenon
<1> HIDE DEF todo, done, adopt
<1>6. task \in [Clusters -> TaskType]
  BY DEF TypeInv, TypeOK
<1>7. CASE todo = {}
  <2>1. task'[c] = done
    BY <1>1, <1>6, <1>7
  <2> QED BY <1>2, <1>4, <1>7, <2>1
<1>8. CASE todo # {}
  <2>1. task'[c] = adopt
    BY <1>1, <1>6, <1>8
  <2>2. least \in todo /\ \A k \in todo : least <= k
    BY <1>5, <1>8, LeastExists, Zenon
  <2> HIDE DEF least
  <2>3. ASSUME NEW j \in DOMAIN Roles, Done(adopt, j) PROVE j < i \/ Vacant(t.creds, j)
    <3>1. j < least
      BY <1>3, <2>3 DEF Done
    <3>2. j \in Nat /\ least \in Nat
      BY <1>5, <2>2, Bounds
    <3>3. j \notin todo
      BY <2>2, <3>1, <3>2
    <3> QED BY <1>4, <3>3
  <2> QED BY <1>3, <2>1, <2>3
<1> QED BY <1>7, <1>8

LEMMA SyncProgress ==
    ASSUME TypeInv, Watch, NEW c \in Clusters, syncOwnedResource(c)
    PROVE  Progress(c)' /\ Settled(c)' /\ Watch'
<1> DEFINE t == [NoTask EXCEPT !.creds = creds[c]]
<1>1. NextRole(c, t, 1) /\ UNCHANGED <<secret, creds, log, cache, using, left>>
  BY DEF syncOwnedResource
<1>2. t.creds = creds[c]
  BY Zenon DEF NoTask
<1> HIDE DEF t
<1>3. /\ task'[c].creds = creds[c] /\ task'[c].pc \in {"labels", "collect"}
      /\ \A j \in DOMAIN Roles : Done(task'[c], j) => j < 1 \/ Vacant(creds[c], j)
  BY <1>1, <1>2, NextRoleDone
<1>4. \A j \in DOMAIN Roles : ~(j < 1)
  BY Bounds
<1>5. \A j \in DOMAIN Roles : Done(task'[c], j) => task'[c].creds[Roles[j]] \notin Secrets
  BY <1>3, <1>4, AdoptionAssumption, Zenon DEF Vacant
<1>6. Watch'
  <2>1. Writes /\ UNCHANGED cache
    BY <1>1 DEF Writes
  <2> QED BY <2>1, WritesKept
<1>7. Progress(c)'
  BY <1>1, <1>3, <1>5, Zenon DEF Progress
<1>8. Settled(c)'
  BY <1>3, Zenon DEF Settled
<1> QED BY <1>6, <1>7, <1>8

(* What is said of the secret that a reconcile adopts.                     *)
LEMMA AdopteePooled ==
    ASSUME TypeInv, NEW c \in Clusters, Adopting(task[c])
    PROVE  /\ Pool(Adoptee(c), Role(c)) /\ Adoptee(c) \in Secrets /\ Role(c) \in RoleSet
           /\ Role(c) = Roles[task[c].i] /\ Adoptee(c) = task[c].creds[Roles[task[c].i]]
<1>1. Adoptee(c) \in Secrets /\ Role(c) \in RoleSet /\ task[c] \in TaskType
  BY TaskFacts
<1>2. task[c].creds \in Credentials \cup {NoCredentials}
  BY <1>1, Zenon DEF TaskType
<1>3. task[c].creds # NoCredentials
  <2>1. NoCredentials[Role(c)] \notin Secrets
    BY <1>1, AdoptionAssumption, Zenon DEF NoCredentials
  <2> QED BY <1>1, <2>1 DEF Adoptee
<1>4. Pool(Adoptee(c), Role(c))
  BY <1>2, <1>3 DEF Pool, Adoptee
<1> QED BY <1>1, <1>4, Zenon DEF Adoptee, Role

LEMMA LabelledIsInCache ==
    ASSUME SecretsApart, TypeInv, Watch, NEW s \in Secrets, NEW r \in RoleSet, Pool(s, r),
           ~InCache(s, r)
    PROVE  cache[s] = NoSecret
<1>1. cache[s] = NoSecret \/ Labelled(cache[s])
  BY DEF Watch, Copies
<1>2. ASSUME Labelled(cache[s]) PROVE r \in cache[s].managers
  <2>1. PICK q \in cache[s].managers : TRUE
    BY <1>2, Zenon DEF Labelled
  <2>2. q \in RoleSet /\ Pool(s, q)
    BY <2>1, Zenon DEF TypeInv, TypeOK, SecretType, Watch, Copies, Pooled
  <2> QED BY <2>1, <2>2, Zenon DEF SecretsApart
<1> QED BY <1>1, <1>2, Zenon DEF InCache

(* The cache may lag, but what it says of the annotation can be relied on. *)
LEMMA CachedAnnotation ==
    ASSUME SecretsApart, TypeInv, Tracked, Watch, NEW c \in Clusters, NEW s \in Secrets,
           Labelled(cache[s])
    PROVE  /\ Has(c, cache[s]) => Ready(c, s)
           /\ ~Has(c, cache[s]) => Labelled(secret[s])
<1>1. CASE Silent(s)
  <2>1. cache[s] = Visible(secret[s])
    BY <1>1 DEF Tracked, Silent
  <2>2. Labelled(secret[s]) /\ cache[s] = secret[s]
    BY <2>1, ConstantsTyped, Zenon DEF Visible
  <2> QED BY <2>2 DEF Ready, Held
<1>2. CASE ~Silent(s)
  <2>1. PICK k \in DOMAIN log : log[k].name = s
    BY <1>2, SMTT(30) DEF Silent
  <2>2. Has(c, cache[s]) => Ready(c, s)
    BY <2>1 DEF Watch, Annotated, Ready, Awaited
  <2>3. ASSUME ~Labelled(secret[s]) PROVE Has(c, cache[s])
    <3>1. PICK d \in Clusters : Has(d, cache[s])
      BY <2>1, <2>3 DEF Watch, Unlabelled
    <3> QED BY <3>1, Zenon DEF SecretsApart
  <2> QED BY <2>2, <2>3
<1> QED BY <1>1, <1>2, SMTT(30)

(* A call that fails.                                                      *)
LEMMA CallFailsProgress ==
    ASSUME TypeInv, Watch, NEW c \in Clusters, CallFails(c) \/ (Requeue(c) /\ UNCHANGED <<secret, log>>),
           UNCHANGED cache
    PROVE  Progress(c)' /\ Settled(c)' /\ Watch'
<1>1. Requeue(c) /\ Writes
  BY DEF CallFails, Writes
<1>2. task \in [Clusters -> TaskType]
  BY DEF TypeInv, TypeOK
<1> QED BY <1>1, <1>2, QueuedAgain, WritesKept

(* The task that adoptLabels and adoptOwner go on with.                    *)
LEMMA AdoptLabelsProgress ==
    ASSUME SecretsApart, TypeInv, Tracked, Watch, NEW c \in Clusters, Progress(c), adoptLabels(c)
    PROVE  Progress(c)' /\ Settled(c)' /\ Watch'
<1>1. /\ task[c].pc = "labels" /\ Adopting(task[c]) /\ task[c] \in TaskType
      /\ UNCHANGED <<creds, cache, using>>
  BY TaskFacts, Zenon DEF adoptLabels, At, Adopting
<1>9. PICK s \in Secrets, r \in RoleSet : s = Adoptee(c) /\ r = Role(c)
  BY <1>1, AdopteePooled, Zenon
<1>2. Pool(s, r) /\ r = Roles[task[c].i] /\ s = task[c].creds[Roles[task[c].i]]
  BY <1>1, <1>9, AdopteePooled, Zenon
<1>3. CASE CallFails(c) \/ (Requeue(c) /\ UNCHANGED <<secret, log>>)
  BY <1>1, <1>3, CallFailsProgress
<1>4. ASSUME NEW owned \in BOOLEAN, UNCHANGED queued, Writes,
             task' = [task EXCEPT ![c].pc = "owner", ![c].owned = owned],
             owned => Ready(c, s)', ~owned => Labelled(secret'[s])
      PROVE  Progress(c)' /\ Settled(c)' /\ Watch'
  <2> DEFINE step == [task[c] EXCEPT !.pc = "owner", !.owned = owned]
  <2>1. task'[c] = step
    BY <1>4 DEF TypeInv, TypeOK
  <2>2. /\ step.creds = task[c].creds /\ step.i = task[c].i
        /\ step.pc = "owner" /\ step.owned = owned
    BY <1>1, Zenon DEF TaskType
  <2>6. PICK t : t = step
    OBVIOUS
  <2>7. /\ task'[c] = t /\ t.creds = task[c].creds /\ t.i = task[c].i
        /\ t.pc = "owner" /\ t.owned = owned
    BY <2>1, <2>2, <2>6, SMTT(30)
  <2> HIDE DEF step
  <2>3. ASSUME NEW j \in DOMAIN Roles, Done(t, j), t.creds[Roles[j]] \in Secrets
        PROVE  Done(task[c], j) \/ Ready(c, t.creds[Roles[j]])'
    <3>1. CASE j < task[c].i
      BY <3>1 DEF Done
    <3>2. CASE j = task[c].i /\ owned
      BY <1>2, <1>4, <2>7, <3>2
    <3> QED BY <2>7, <2>3, <3>1, <3>2, SMTT(30) DEF Done
  <2>4. t.pc = "owner" /\ ~t.owned => Labelled(secret'[t.creds[Roles[t.i]]])
    BY <1>2, <1>4, <2>7, Zenon
  <2>5. t.pc # "idle" /\ t.pc \notin {"stale", "release"} /\ t.pc # "release" /\ task[c].pc # "idle"
    BY <1>1, <2>7
  <2> QED BY <1>1, <1>4, <2>7, <2>3, <2>4, <2>5, StepProgress, Zenon
<1> DEFINE Owner(owned) == task' = [task EXCEPT ![c].pc = "owner", ![c].owned = owned]
           b1 == c \in cache[s].owners
           b2 == c \in secret[s].owners
<1>5. \/ CallFails(c) \/ (Requeue(c) /\ UNCHANGED <<secret, log>>)
      \/ InCache(s, r) /\ Owner(b1) /\ UNCHANGED <<secret, log, queued>>
      \/ ~InCache(s, r) /\ secret[s].data # 0 /\ Owner(b2) /\ UNCHANGED queued /\ ApplyLabels(s, r)
  BY <1>9 DEF adoptLabels
<1>6. b1 \in BOOLEAN /\ b2 \in BOOLEAN /\ (b1 <=> Has(c, cache[s])) /\ (b2 <=> Has(c, secret[s]))
  BY DEF Has
<1> HIDE DEF b1, b2
<1>7. CASE InCache(s, r) /\ Owner(b1) /\ UNCHANGED <<secret, log, queued>>
  <2>1. Labelled(cache[s]) /\ Writes
    BY <1>7, Zenon DEF InCache, Writes
  <2>2. (b1 => Ready(c, s)) /\ (~b1 => Labelled(secret[s]))
    BY <1>2, <1>6, <2>1, CachedAnnotation, Zenon
  <2>3. Ready(c, s) => Ready(c, s)'
    BY <1>1, <1>2, <2>1, WritesKept, Zenon
  <2> QED BY <1>4, <1>6, <1>7, <2>1, <2>2, <2>3, Zenon
<1>8. CASE /\ ~InCache(s, r) /\ secret[s].data # 0 /\ Owner(b2)
           /\ UNCHANGED queued /\ ApplyLabels(s, r)
  <2>1. cache[s] = NoSecret
    BY <1>2, <1>8, LabelledIsInCache, Zenon
  <2>2. /\ Writes /\ Labelled(secret'[s])
        /\ Has(c, secret[s]) => Has(c, secret'[s])
    BY <1>2, <1>8, <2>1, LabelsWrite, Zenon
  <2>3. b2 => Ready(c, s)'
    BY <1>6, <2>2 DEF Ready, Held
  <2> QED BY <1>4, <1>6, <1>8, <2>2, <2>3, ZenonT(30)
<1> QED BY <1>3, <1>5, <1>7, <1>8

LEMMA AdoptOwnerProgress ==
    ASSUME SecretsApart, TypeInv, Tracked, Watch, NEW c \in Clusters, Progress(c), adoptOwner(c)
    PROVE  Progress(c)' /\ Settled(c)' /\ Watch'
<1>1. /\ task[c].pc = "owner" /\ Adopting(task[c]) /\ task[c] \in TaskType
      /\ UNCHANGED <<creds, cache, using>>
  BY TaskFacts, Zenon DEF adoptOwner, At, Adopting
<1>2. PICK s \in Secrets, r \in RoleSet : s = Adoptee(c) /\ r = Role(c)
  BY <1>1, AdopteePooled, Zenon
<1>3. Pool(s, r) /\ r = Roles[task[c].i] /\ s = task[c].creds[Roles[task[c].i]]
  BY <1>1, <1>2, AdopteePooled, Zenon
<1>4. CASE CallFails(c)
  BY <1>1, <1>4, CallFailsProgress
<1>5. CASE ~CallFails(c)
  <2> DEFINE step == [task[c] EXCEPT !.pc = "stale", !.stale = Stale(c)]
  <2>1. /\ task' = [task EXCEPT ![c].pc = "stale", ![c].stale = Stale(c)]
        /\ UNCHANGED <<queued, left>>
        /\ task[c].owned => UNCHANGED <<secret, log>>
        /\ ~task[c].owned => ApplyOwner(s, c)
    BY <1>2, <1>5 DEF adoptOwner
  <2>2. task'[c] = step
    BY <2>1 DEF TypeInv, TypeOK
  <2>3. step.creds = task[c].creds /\ step.i = task[c].i /\ step.pc = "stale" /\ step.stale = Stale(c)
    BY <1>1, Zenon DEF TaskType
  <2>4. PICK t : t = step
    OBVIOUS
  <2>5. /\ task'[c] = t /\ t.creds = task[c].creds /\ t.i = task[c].i
        /\ t.pc = "stale" /\ t.stale = Stale(c)
    BY <2>2, <2>3, <2>4
  <2> HIDE DEF step
  <2>6. ~task[c].owned => Labelled(secret[s])
    BY <1>1, <1>3, Zenon DEF Progress
  <2>7. Writes /\ (~task[c].owned => Ready(c, s)')
    <3>1. CASE task[c].owned
      BY <2>1, <3>1 DEF Writes
    <3>2. CASE ~task[c].owned
      BY <2>1, <2>6, <3>2, OwnerWrite DEF Ready
    <3> QED BY <3>1, <3>2
  <2>8. ASSUME NEW j \in DOMAIN Roles, Done(t, j), t.creds[Roles[j]] \in Secrets
        PROVE  Done(task[c], j) \/ Ready(c, t.creds[Roles[j]])'
    <3>1. CASE j < task[c].i \/ (j = task[c].i /\ task[c].owned)
      BY <1>1, <3>1, Zenon DEF Done
    <3>2. CASE j = task[c].i /\ ~task[c].owned
      <4>1. t.creds[Roles[j]] = s
        BY <1>3, <2>5, <3>2
      <4> QED BY <2>7, <3>2, <4>1, Zenon
    <3> QED BY <2>5, <2>8, <3>1, <3>2, Zenon DEF Done
  <2>9. ASSUME NEW q \in t.stale PROVE Releasable(c, t, q)'
    <3>1. q \in Secrets /\ Labelled(cache[q]) /\ (r # "" => r \in cache[q].managers) /\ Has(c, cache[q])
      BY <1>2, <2>5, <2>9, Zenon DEF Stale, InCache, Has
    <3>2. Pooled(q, cache[q]) /\ cache[q].managers \subseteq RoleSet /\ cache[q].managers # {}
      BY <3>1, Zenon DEF Watch, Copies, TypeInv, TypeOK, SecretType, Labelled
    <3>3. r = "" => r \in cache[q].managers
      BY <3>2, Zenon DEF SecretsApart
    <3>4. Pool(q, Roles[t.i])
      BY <1>3, <2>5, <3>1, <3>2, <3>3, Zenon DEF Pooled
    <3> QED BY <1>1, <3>1, <3>4, Zenon DEF Releasable
  <2>10. t.pc # "idle" /\ t.pc # "owner" /\ t.pc # "release" /\ task[c].pc # "idle" /\ UNCHANGED queued
    BY <1>1, <2>1, <2>5
  <2> QED BY <1>1, <2>5, <2>7, <2>8, <2>9, <2>10, StepProgress, Zenon
<1> QED BY <1>4, <1>5

LEMMA ReleaseLabelsProgress ==
    ASSUME SecretsApart, TypeInv, Tracked, Watch, NEW c \in Clusters, Progress(c), releaseLabels(c)
    PROVE  Progress(c)' /\ Settled(c)' /\ Watch'
<1>1. /\ task[c].pc = "stale" /\ Adopting(task[c]) /\ task[c] \in TaskType
      /\ UNCHANGED <<creds, cache, using>>
  BY TaskFacts, Zenon DEF releaseLabels, At, Adopting
<1>2. PICK r \in RoleSet : r = Role(c) /\ r = Roles[task[c].i]
  BY <1>1, AdopteePooled, Zenon
<1>3. CASE CallFails(c)
  BY <1>1, <1>3, CallFailsProgress
<1>4. CASE NextRole(c, task[c], task[c].i + 1) /\ UNCHANGED <<secret, log, queued>>
  <2>1. PICK old : old = task[c]
    OBVIOUS
  <2>2. task[c].i \in Nat /\ task[c].i + 1 \in Nat /\ 1 <= task[c].i + 1
    <3>1. task[c].i \in 0 .. Len(Roles)
      BY <1>1, Zenon DEF TaskType
    <3> QED BY <3>1, Bounds
  <2>3. /\ task'[c].creds = old.creds /\ task'[c].pc \in {"labels", "collect"}
        /\ \A j \in DOMAIN Roles : Done(task'[c], j) => j < task[c].i + 1 \/ Vacant(old.creds, j)
    BY <1>4, <2>1, <2>2, NextRoleDone, Zenon
  <2>4. PICK t : t = task'[c]
    OBVIOUS
  <2>5. \A j \in DOMAIN Roles : Done(t, j) => Done(task[c], j) \/ Vacant(t.creds, j)
    <3>1. \A j \in DOMAIN Roles : j < task[c].i + 1 => j < task[c].i \/ j = task[c].i
      BY <2>2, Bounds
    <3> QED BY <1>1, <2>3, <2>4, <3>1, Zenon DEF Done
  <2>6. Writes /\ UNCHANGED <<cache, creds, queued>>
    BY <1>1, <1>4, Zenon DEF Writes
  <2>7. t.pc # "idle" /\ t.pc \notin {"owner", "stale", "release"} /\ task[c].pc # "idle"
    BY <1>1, <2>3, <2>4, Zenon
  <2>8. task'[c] = t /\ t.creds = task[c].creds
    BY <2>1, <2>3, <2>4
  <2> QED BY <2>5, <2>6, <2>7, <2>8, StepProgress, Zenon
<1>5. ASSUME NEW s \in task[c].stale, UNCHANGED <<queued, left>>,
             task' = [task EXCEPT ![c].pc = "release", ![c].stale = @ \ {s}, ![c].old = s],
             IF cache[s].owners = {c} THEN DropLabels(s, Role(c)) ELSE UNCHANGED <<secret, log>>
      PROVE  Progress(c)' /\ Settled(c)' /\ Watch'
  <2>1. s \in Secrets /\ Releasable(c, task[c], s)
    BY <1>1, <1>5, Zenon DEF TaskType, Progress
  <2> DEFINE t1 == [task[c] EXCEPT !.pc = "release", !.stale = @ \ {s}]
             step == [t1 EXCEPT !.old = s]
  <2>2. task'[c] = step
    BY <1>5 DEF TypeInv, TypeOK
  <2>3. /\ t1 \in TaskType /\ t1.creds = task[c].creds /\ t1.i = task[c].i /\ t1.pc = "release"
        /\ t1.stale = task[c].stale \ {s}
    BY <1>1, Zenon DEF TaskType
  <2> HIDE DEF t1
  <2>4. /\ step.creds = task[c].creds /\ step.i = task[c].i /\ step.pc = "release"
        /\ step.stale = task[c].stale \ {s} /\ step.old = s
    BY <2>3, Zenon DEF TaskType
  <2> HIDE DEF step
  <2>5. PICK t : t = step
    BY Zenon
  <2>6. /\ task'[c] = t /\ t.creds = task[c].creds /\ t.i = task[c].i /\ t.pc = "release"
        /\ t.stale = task[c].stale \ {s} /\ t.old = s
    BY <2>2, <2>4, <2>5
  <2>7. Writes /\ ~Labelled(secret'[s]) /\ \A q \in Secrets \ {s} : secret'[q] = secret[q]
    <3>1. CASE cache[s].owners = {c}
      <4>1. Has(c, cache[s]) /\ DropLabels(s, r) /\ Pool(s, r)
        BY <1>2, <1>5, <2>1, <3>1 DEF Has, Releasable
      <4> QED BY <2>1, <4>1, DropLabelsWrite
    <3>2. CASE cache[s].owners # {c}
      <4>1. UNCHANGED <<secret, log>>
        BY <1>5, <3>2, Zenon
      <4>2. cache[s].owners \subseteq Clusters
        BY <2>1 DEF TypeInv, TypeOK, SecretType
      <4>3. ~Has(c, cache[s])
        BY <3>2, <4>2, Zenon DEF Has, SecretsApart
      <4>4. ~Labelled(secret[s])
        BY <2>1, <4>3 DEF Releasable
      <4> QED BY <4>1, <4>4 DEF Writes
    <3> QED BY <3>1, <3>2, Zenon
  <2>8. \A j \in DOMAIN Roles : Done(t, j) => Done(task[c], j)
    BY <1>1, <2>6, Zenon DEF Done
  <2>9. ASSUME NEW q \in t.stale PROVE Releasable(c, t, q)'
    <3>1. q \in Secrets \ {s} /\ Releasable(c, task[c], q)
      BY <1>1, <2>6, <2>9, Zenon DEF TaskType, Progress
    <3> QED BY <1>1, <2>6, <2>7, <3>1 DEF Releasable
  <2>10. t.pc # "idle" /\ t.pc # "owner" /\ task[c].pc # "idle" /\ UNCHANGED <<cache, creds, queued>>
    BY <1>1, <1>5, <2>6
  <2>11. t.pc = "release" => ~Labelled(secret'[t.old])
    BY <2>6, <2>7
  <2> QED BY <2>6, <2>7, <2>8, <2>9, <2>10, <2>11, StepProgress, Zenon
<1> QED BY <1>3, <1>4, <1>5, Zenon DEF releaseLabels

LEMMA ReleaseOwnerProgress ==
    ASSUME SecretsApart, TypeInv, Tracked, Watch, NEW c \in Clusters, Progress(c), releaseOwner(c)
    PROVE  Progress(c)' /\ Settled(c)' /\ Watch'
<1>1. /\ task[c].pc = "release" /\ Adopting(task[c]) /\ task[c] \in TaskType
      /\ UNCHANGED <<creds, cache, using>>
  BY TaskFacts, Zenon DEF releaseOwner, At, Adopting
<1>2. CASE CallFails(c)
  BY <1>1, <1>2, CallFailsProgress
<1>3. CASE ~CallFails(c)
  <2>1. PICK s \in Secrets : s = task[c].old
    BY <1>1, TaskFacts
  <2>2. /\ task' = [task EXCEPT ![c].pc = "stale", ![c].old = ""]
        /\ UNCHANGED <<queued, left>> /\ DropOwner(s, c)
    BY <1>3, <2>1, Zenon DEF releaseOwner
  <2>3. ~Labelled(secret[s])
    BY <1>1, <2>1 DEF Progress
  <2>4. Writes /\ ~Labelled(secret'[s]) /\ \A q \in Secrets \ {s} : secret'[q] = secret[q]
    BY <2>2, <2>3, DropOwnerWrite, Zenon
  <2> DEFINE t1 == [task[c] EXCEPT !.pc = "stale"]
             step == [t1 EXCEPT !.old = ""]
  <2>5. task'[c] = step
    BY <2>2, Zenon DEF TypeInv, TypeOK
  <2>6. /\ t1 \in TaskType /\ t1.creds = task[c].creds /\ t1.i = task[c].i /\ t1.pc = "stale"
        /\ t1.stale = task[c].stale
    BY <1>1, Zenon DEF TaskType
  <2> HIDE DEF t1
  <2>7. /\ step.creds = task[c].creds /\ step.i = task[c].i /\ step.pc = "stale"
        /\ step.stale = task[c].stale
    BY <2>6, Zenon DEF TaskType
  <2> HIDE DEF step
  <2>8. PICK t : t = step
    OBVIOUS
  <2>9. /\ task'[c] = t /\ t.creds = task[c].creds /\ t.i = task[c].i /\ t.pc = "stale"
        /\ t.stale = task[c].stale
    BY <2>5, <2>7, <2>8, Zenon
  <2>10. \A j \in DOMAIN Roles : Done(t, j) => Done(task[c], j)
    BY <1>1, <2>9 DEF Done
  <2>11. ASSUME NEW q \in t.stale PROVE Releasable(c, t, q)'
    <3>1. q \in Secrets /\ Releasable(c, task[c], q)
      BY <1>1, <2>9, <2>11, Zenon DEF TaskType, Progress
    <3> QED BY <1>1, <2>4, <2>9, <3>1, Zenon DEF Releasable
  <2>12. /\ t.pc # "idle" /\ t.pc # "owner" /\ t.pc # "release" /\ task[c].pc # "idle"
         /\ UNCHANGED <<cache, creds, queued>>
    BY <1>1, <2>2, <2>9, Zenon
  <2> QED BY <2>4, <2>9, <2>10, <2>11, <2>12, StepProgress, Zenon
<1> QED BY <1>2, <1>3

(* The last step of a reconcile: what it has found is what there is, or an *)
(* event is under way.                                                     *)
LEMMA CollectProgress ==
    ASSUME TypeInv, Tracked, Watch, NEW c \in Clusters, Progress(c), collectSecrets(c)
    PROVE  Progress(c)' /\ Settled(c)' /\ Watch'
<1> DEFINE named == {task[c].creds[r] : r \in RoleSet}
           found == [s \in Secrets |-> IF s \in named /\ Labelled(cache[s]) THEN cache[s].data ELSE 0]
<1>1. /\ task[c].pc = "collect" /\ task[c].pc # "idle"
      /\ using' = [using EXCEPT ![c] = found]
      /\ task' = [task EXCEPT ![c] = NoTask]
      /\ queued' = IF found = using[c] THEN queued ELSE queued \cup {c}
      /\ UNCHANGED <<secret, creds, log, cache, left>>
  BY DEF collectSecrets, At
<1>2. \A s \in Secrets : /\ s \notin named => found[s] = 0
                         /\ s \in named /\ Labelled(cache[s]) => found[s] = cache[s].data
  <2> HIDE DEF named
  <2> QED OBVIOUS
<1> HIDE DEF found
<1>3. using'[c] = found /\ task'[c] = NoTask /\ task'[c].pc = "idle"
  BY <1>1, Zenon DEF TypeInv, TypeOK, NoTask
<1>4. c \notin queued' => c \notin queued
  BY <1>1
<1>5. ASSUME c \notin queued' PROVE \A s \in Secrets : s \in Names(c)' <=> s \in named
  <2>1. task[c].creds = creds[c] /\ creds' = creds
    BY <1>1, <1>4, <1>5, Zenon DEF Progress
  <2> QED BY <2>1, AdoptionAssumption, Zenon DEF Names
<1>6. ASSUME c \notin queued, NEW s \in named, s \in Secrets PROVE Ready(c, s)
  <2>1. PICK r \in RoleSet : s = task[c].creds[r]
    BY <1>6, Zenon
  <2>2. PICK j \in DOMAIN Roles : r = Roles[j]
    BY Zenon DEF RoleSet
  <2>3. Done(task[c], j)
    BY <1>1 DEF Done
  <2> QED BY <1>1, <1>6, <2>1, <2>2, <2>3, Zenon DEF Progress
<1>7. Writes /\ UNCHANGED cache
  BY <1>1 DEF Writes
<1>8. Watch'
  BY <1>7, WritesKept
<1>9. Progress(c)'
  BY <1>3, Zenon DEF Progress
<1> HIDE DEF named
<1>10. ASSUME c \notin queued', NEW s \in Secrets, s \in named, ~Awaited(c, s)
       PROVE  Held(c, s) /\ Silent(s) /\ found[s] = secret[s].data
  <2>1. Held(c, s)
    BY <1>4, <1>6, <1>10 DEF Ready
  <2>2. Silent(s)
    BY <1>10, <2>1 DEF Watch, Heard
  <2>3. cache[s] = Visible(secret[s])
    BY <2>2 DEF Tracked, Silent
  <2>4. cache[s] = secret[s] /\ Labelled(cache[s])
    BY <2>1, <2>3, Zenon DEF Visible, Held
  <2> QED BY <1>2, <1>10, <2>1, <2>2, <2>4
<1>11. ASSUME NEW s \in Secrets
       PROVE  /\ Awaited(c, s)' <=> Awaited(c, s)
              /\ Held(c, s)' <=> Held(c, s)
              /\ Silent(s)' <=> Silent(s)
  BY <1>1, Zenon DEF Awaited, Held, Silent
<1>12. ASSUME c \notin queued', NEW s \in Secrets
       PROVE  IF s \in Names(c)'
              THEN \/ Awaited(c, s)'
                   \/ Held(c, s)' /\ Silent(s)' /\ using'[c][s] = secret'[s].data
              ELSE using'[c][s] = 0
  <2>1. CASE s \in named
    <3>1. s \in Names(c)'
      BY <1>5, <1>12, <2>1
    <3> QED BY <1>1, <1>3, <1>10, <1>11, <1>12, <2>1, <3>1, Zenon
  <2>2. CASE s \notin named
    <3>1. s \notin Names(c)'
      BY <1>5, <1>12, <2>2, SMTT(30)
    <3> QED BY <1>2, <1>3, <2>2, <3>1, Zenon
  <2> QED BY <2>1, <2>2
<1>13. Settled(c)'
  BY <1>12 DEF Settled
<1> QED BY <1>8, <1>9, <1>13, Zenon

(* An event without the cluster takes away nothing that it waits for, and  *)
(* one with the cluster queues it.                                         *)
LEMMA DeliverReady ==
    ASSUME TypeInv, syncExternalResource, NEW c \in Clusters, c \notin queued'
    PROVE  /\ c \notin queued
           /\ \A s \in Secrets : /\ Awaited(c, s) => Awaited(c, s)'
                                 /\ Held(c, s) => Held(c, s)'
                                 /\ Silent(s) => Silent(s)'
<1>1. /\ 1 \in DOMAIN log
      /\ \A k \in DOMAIN log' : k \in Nat /\ k + 1 \in DOMAIN log /\ log'[k] = log[k + 1]
      /\ \A k \in DOMAIN log : k \in Nat /\ k >= 1
      /\ \A k \in DOMAIN log : k # 1 => k - 1 \in DOMAIN log'
      /\ secret' = secret
  BY DeliveryFacts, SMTT(30)
<1>2. log \in Seq(EventType) /\ log # <<>>
  BY DEF TypeInv, TypeOK, syncExternalResource
<1>3. Head(log) = log[1]
  BY <1>2, SMTT(30)
<1>4. queued' = queued \cup log[1].obj.owners
  BY <1>3 DEF syncExternalResource
<1>5. c \notin queued /\ ~Has(c, log[1].obj)
  BY <1>4 DEF Has
<1>6. ASSUME NEW s \in Secrets, Awaited(c, s) PROVE Awaited(c, s)'
  <2>1. PICK k \in DOMAIN log : log[k].name = s /\ Has(c, log[k].obj)
    BY <1>6 DEF Awaited
  <2>2. k # 1
    BY <1>5, <2>1, SMTT(30)
  <2>3. k - 1 \in DOMAIN log' /\ (k - 1) + 1 = k
    BY <1>1, <2>2
  <2>4. log'[k - 1] = log[k]
    BY <1>1, <2>3
  <2> QED BY <2>1, <2>3, <2>4 DEF Awaited
<1>7. ASSUME NEW s \in Secrets PROVE (Held(c, s) => Held(c, s)') /\ (Silent(s) => Silent(s)')
  BY <1>1, Zenon DEF Held, Silent
<1> QED BY <1>5, <1>6, <1>7, SMTT(30)

LEMMA DeliverReleasable ==
    ASSUME TypeInv, Watch, syncExternalResource, NEW c \in Clusters, NEW t, NEW s \in Secrets,
           Releasable(c, t, s)
    PROVE  Releasable(c, t, s)'
<1>1. /\ 1 \in DOMAIN log
      /\ cache'[log[1].name] = IF log[1].gone THEN NoSecret ELSE log[1].obj
      /\ \A q \in Secrets \ {log[1].name} : cache'[q] = cache[q]
      /\ secret' = secret
  BY DeliveryFacts, Zenon
<1>2. ASSUME Has(c, cache[s]), s = log[1].name
      PROVE  Has(c, cache'[s]) \/ ~Labelled(secret[s])
  <2>1. Has(c, log[1].obj)
    BY <1>1, <1>2, Zenon DEF Watch, Annotated
  <2>2. log[1].gone => ~Labelled(secret[s])
    BY <1>1, <1>2, Zenon DEF Watch, Unlabelled
  <2>3. ~log[1].gone => cache'[s] = log[1].obj
    BY <1>1, <1>2
  <2> QED BY <2>1, <2>2, <2>3, Zenon
<1> QED BY <1>1, <1>2, Zenon DEF Releasable

LEMMA DeliverProgress ==
    ASSUME TypeInv, Watch, NEW c \in Clusters, Progress(c), Settled(c), syncExternalResource
    PROVE  Progress(c)' /\ Settled(c)' /\ Watch'
<1>1. UNCHANGED <<secret, creds, task, using>>
  BY DEF syncExternalResource
<1>2. Watch'
  BY DeliverWatched
<1>3. ASSUME c \notin queued'
      PROVE  c \notin queued /\ \A s \in Secrets : Ready(c, s) => Ready(c, s)'
  BY <1>3, DeliverReady, SMTT(30) DEF Ready
<1>4. ASSUME NEW s \in task[c].stale, Releasable(c, task[c], s) PROVE Releasable(c, task[c], s)'
  <2>1. s \in Secrets
    BY TaskFacts, Zenon DEF TaskType
  <2>2. PICK t : t = task[c]
    BY SMTT(30)
  <2>3. Releasable(c, t, s)'
    BY <1>4, <2>1, <2>2, DeliverReleasable
  <2> QED BY <1>1, <2>2, <2>3
<1>5. Progress(c)'
  BY <1>1, <1>3, <1>4, ZenonT(30) DEF Progress
<1>6. Settled(c)'
  <2>1. Names(c)' = Names(c)
    BY <1>1 DEF Names
  <2> QED BY <1>1, <2>1, DeliverReady DEF Settled
<1> QED BY <1>2, <1>5, <1>6

LEMMA EditSecretProgress ==
    ASSUME TypeInv, Watch, NEW c \in Clusters, Progress(c), Settled(c),
           NEW s \in Secrets, EditSecret(s)
    PROVE  Progress(c)' /\ Settled(c)' /\ Watch'
<1>1. /\ \A q \in Secrets : Labelled(secret'[q]) <=> Labelled(secret[q])
      /\ \A q \in Secrets \ {s} : secret'[q] = secret[q]
      /\ UNCHANGED <<creds, cache, queued, task, using>>
  BY UserWrite
<1>2. PICK new \in SecretType : Write(s, new) /\ Considerate(s, new) /\ new # secret[s]
  BY UserWrite, ZenonT(30)
<1>3. Watch'
  BY <1>1, <1>2, WriteWatched, Zenon
<1>4. \A r \in Secrets : /\ Awaited(c, r) => Awaited(c, r)'
                         /\ Ready(c, r) => Ready(c, r)'
                         /\ r # s /\ Silent(r) => Silent(r)'
                         /\ r = s /\ Held(c, s) => Awaited(c, s)'
  BY <1>2, WriteReady
<1>5. Progress(c)'
  <2>1. task[c].stale \subseteq Secrets /\ (task[c].pc = "release" => task[c].old \in Secrets)
    BY TaskFacts, Zenon DEF TaskType
  <2>2. task[c].pc = "owner" => task[c].creds[Roles[task[c].i]] \in Secrets
    BY AdopteePooled DEF Adopting
  <2>3. PICK t : t = task[c]
    OBVIOUS
  <2>4. \A q \in t.stale : Releasable(c, t, q) => Releasable(c, t, q)'
    BY <1>1, <2>1, <2>3, Zenon DEF Releasable
  <2> QED BY <1>1, <1>4, <2>1, <2>2, <2>3, <2>4, Zenon DEF Progress
<1>6. Settled(c)'
  <2>1. Names(c)' = Names(c)
    BY <1>1, Zenon DEF Names
  <2>2. ASSUME NEW q \in Secrets, Held(c, q), Silent(q), using[c][q] = secret[q].data
        PROVE  \/ Awaited(c, q)'
               \/ Held(c, q)' /\ Silent(q)' /\ using'[c][q] = secret'[q].data
    <3>1. CASE q = s
      BY <1>4, <2>2, <3>1
    <3>2. CASE q # s
      BY <1>1, <1>4, <2>2, <3>2, Zenon DEF Held
    <3> QED BY <3>1, <3>2, ZenonT(30)
  <2> QED BY <1>1, <1>4, <2>1, <2>2, Zenon DEF Settled
<1> QED BY <1>3, <1>5, <1>6, ZenonT(30)

LEMMA EditCredentialsProgress ==
    ASSUME TypeInv, Watch, NEW c \in Clusters, Progress(c), EditCredentials(c)
    PROVE  Progress(c)' /\ Settled(c)' /\ Watch'
<1>1. c \in queued' /\ UNCHANGED <<secret, log, cache, task, using>>
  BY DEF EditCredentials
<1>2. Writes /\ UNCHANGED cache
  BY <1>1 DEF Writes
<1>3. Watch'
  BY <1>2, WritesKept
<1>4. Progress(c)'
  BY <1>1, ZenonT(30) DEF Progress, Releasable
<1>5. Settled(c)'
  BY <1>1 DEF Settled
<1> QED BY <1>3, <1>4, <1>5

(* What is known of the one cluster and its secrets.                       *)
Noticed == Watch /\ \A c \in Clusters : Progress(c) /\ Settled(c)

LEMMA InitiallyNoticed == Init => Noticed
<1> SUFFICES ASSUME Init PROVE Noticed
  OBVIOUS
<1>1. /\ DOMAIN log = {} /\ queued = Clusters
      /\ \A s \in Secrets : cache[s] = NoSecret
      /\ \A c \in Clusters : task[c] = NoTask
  BY DEF Init
<1>2. \A s \in Secrets : secret[s].managers = {}
  BY DEF Init, NoSecret
<1>3. Watch
  <2>1. \A s \in Secrets : Pooled(s, secret[s]) /\ Pooled(s, cache[s])
    BY <1>1, <1>2, SMTT(30) DEF Pooled, NoSecret
  <2>2. Copies
    BY <1>1, <1>2, <2>1, Zenon DEF Copies
  <2>3. Annotated
    BY <1>1, SMTT(30) DEF Annotated, Has, NoSecret
  <2>4. Unlabelled /\ Heard
    BY <1>1 DEF Unlabelled, Heard, Silent
  <2> QED BY <2>2, <2>3, <2>4, Zenon DEF Watch
<1>4. \A c \in Clusters : task[c].pc = "idle" /\ c \in queued
  <2>1. NoTask.pc = "idle"
    BY DEF NoTask
  <2> QED BY <1>1, <2>1, Zenon
<1> QED BY <1>3, <1>4, Zenon DEF Noticed, Progress, Settled

LEMMA NoticedStep ==
    ASSUME SecretsApart, TypeInv, Tracked, Noticed, [Next]_vars
    PROVE  Noticed'
<1>1. ASSUME NEW c \in Clusters, Progress(c)' /\ Settled(c)' /\ Watch' PROVE Noticed'
  BY <1>1, Zenon DEF SecretsApart, Noticed
<1>2. ASSUME NEW c \in Clusters, Reconcile(c) PROVE Noticed'
  <2>1. Progress(c) /\ Watch
    BY DEF Noticed
  <2> QED BY <1>1, <1>2, <2>1, SyncProgress, AdoptLabelsProgress, AdoptOwnerProgress,
             ReleaseLabelsProgress, ReleaseOwnerProgress, CollectProgress DEF Reconcile
<1>3. ASSUME NEW c \in Clusters, EditCredentials(c) PROVE Noticed'
  BY <1>1, <1>3, EditCredentialsProgress DEF Noticed
<1>4. ASSUME NEW s \in Secrets, EditSecret(s) PROVE Noticed'
  <2>1. Watch'
    <3>1. /\ UNCHANGED cache
          /\ \E new \in SecretType : Write(s, new) /\ Considerate(s, new) /\ new # secret[s]
      BY <1>4, UserWrite DEF Noticed
    <3> QED BY <3>1, WriteWatched, ZenonT(30) DEF Noticed
  <2> QED BY <1>4, <2>1, EditSecretProgress DEF Noticed
<1>5. CASE syncExternalResource
  BY <1>5, DeliverWatched, DeliverProgress DEF Noticed
<1>6. CASE UNCHANGED vars
  <2>1. UNCHANGED <<secret, creds, log, cache, queued, task, using>>
    BY <1>6 DEF vars
  <2>2. Writes /\ UNCHANGED cache
    BY <2>1 DEF Writes
  <2>3. Watch'
    BY <2>2, WritesKept DEF Noticed
  <2>4. ASSUME NEW c \in Clusters PROVE Progress(c)' /\ Settled(c)'
    <3>1. Progress(c) /\ Settled(c)
      BY Zenon DEF Noticed
    <3>2. \A s : (Ready(c, s)' <=> Ready(c, s)) /\ (Awaited(c, s)' <=> Awaited(c, s))
      BY <2>1 DEF Ready, Awaited, Held
    <3>3. \A s : (Held(c, s)' <=> Held(c, s)) /\ (Silent(s)' <=> Silent(s))
      BY <2>1 DEF Held, Silent
    <3>4. Progress(c)'
      BY <2>1, <3>1, <3>2, Zenon DEF Progress, Releasable
    <3>5. Names(c)' = Names(c)
      BY <2>1 DEF Names
    <3>6. Settled(c)'
      BY <2>1, <3>1, <3>2, <3>3, <3>5, Zenon DEF Settled
    <3> QED BY <3>4, <3>6
  <2> QED BY <2>3, <2>4 DEF Noticed
<1> QED BY <1>2, <1>3, <1>4, <1>5, <1>6 DEF Next

(* Where a cluster and its roles have secrets of their own, no edit of a   *)
(* secret or of the credentials is lost, whatever is in progress when it   *)
(* is made, however far behind the informer is and whichever calls fail:   *)
(* once the queue and the watch have nothing more, the cluster uses what   *)
(* there is.                                                               *)
THEOREM AdoptionQuietMeansCurrent ==
    ASSUME SecretsApart
    PROVE  Spec => []QuietMeansCurrent
<1>1. Noticed /\ TypeInv => QuietMeansCurrent
  <2> SUFFICES ASSUME Noticed, TypeInv, NEW c \in Clusters,
                      log = <<>>, c \notin queued, task[c].pc = "idle"
               PROVE  /\ using[c] = [s \in Secrets |-> IF s \in Names(c) THEN secret[s].data ELSE 0]
                      /\ \A s \in Names(c) : c \in secret[s].owners
    BY DEF QuietMeansCurrent, At
  <2>1. \A s \in Secrets : ~Awaited(c, s)
    BY SMTT(30) DEF Awaited
  <2>2. \A s \in Secrets : IF s \in Names(c) THEN Held(c, s) /\ using[c][s] = secret[s].data
                           ELSE using[c][s] = 0
    BY <2>1 DEF Noticed, Settled
  <2>3. using[c] \in [Secrets -> 0 .. MaxWrites + 1]
    BY Zenon DEF TypeInv, TypeOK
  <2>4. using[c] = [s \in Secrets |-> IF s \in Names(c) THEN secret[s].data ELSE 0]
    BY <2>2, <2>3
  <2>5. Names(c) \subseteq Secrets
    <3>1. creds[c] \in [RoleSet -> Secrets \cup {""}]
      BY AdoptionAssumption, Zenon DEF TypeInv, TypeOK
    <3> QED BY <3>1, Zenon DEF Names
  <2> QED BY <2>2, <2>4, <2>5 DEF Held, Has
<1>2. TypeInv /\ Tracked /\ Noticed /\ [Next]_vars => Noticed'
  BY NoticedStep
<1> QED BY <1>1, <1>2, InitiallyNoticed, TypeInvariant, TrackedInvariant, PTL DEF Spec
=============================================================================
