---------------------------- MODULE PatchMetadata ----------------------------
(***************************************************************************)
(* What the resolver of patch metadata promises the reconciles that use    *)
(* it: the schemas of a group-version are fetched at most once in the life *)
(* of a resolver, and every caller is told the outcome of that one fetch,  *)
(* an error included.                                                      *)
(***************************************************************************)
CONSTANTS
    Callers,
    GroupVersions,
    Outcomes        \* of a fetch, as a caller can tell them apart

VARIABLES
    outcome,        \* of the fetch of each group-version, "none" before it
    asked,          \* the group-version each caller waits for, or none
    told            \* the answers given: <<group-version, outcome>>

vars == <<outcome, asked, told>>

Init ==
    /\ outcome = [gv \in GroupVersions |-> "none"]
    /\ asked = [c \in Callers |-> {}]
    /\ told = {}

Ask(c) ==
    /\ asked[c] = {}
    /\ \E gv \in GroupVersions : asked' = [asked EXCEPT ![c] = {gv}]
    /\ UNCHANGED <<outcome, told>>

Fetch(gv) ==
    /\ outcome[gv] = "none"
    /\ \E c \in Callers : gv \in asked[c]
    /\ \E o \in Outcomes : outcome' = [outcome EXCEPT ![gv] = o]
    /\ UNCHANGED <<asked, told>>

Answer(c) ==
    /\ \E gv \in asked[c] :
          /\ outcome[gv] # "none"
          /\ told' = told \cup {<<gv, outcome[gv]>>}
    /\ asked' = [asked EXCEPT ![c] = {}]
    /\ UNCHANGED outcome

(* The process starts again, with another resolver.                        *)
Renew ==
    /\ outcome' = [gv \in GroupVersions |-> "none"]
    /\ asked' = [c \in Callers |-> {}]
    /\ told' = {}

Next ==
    \/ \E c \in Callers : Ask(c) \/ Answer(c)
    \/ \E gv \in GroupVersions : Fetch(gv)
    \/ Renew

Spec == Init /\ [][Next]_vars
=============================================================================
