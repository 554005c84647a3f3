----------------------------- MODULE MCUpdateWalk -----------------------------
(***************************************************************************)
(* Small instances of UpdateWalk: every channel over four releases with    *)
(* forward edges listed in order, in which each release either keeps or    *)
(* changes the migration of the one before.                                *)
(***************************************************************************)
EXTENDS UpdateWalk, FiniteSets

N == 4
Id(i) == <<"v1", "v2", "v3", "v4">>[i]

(* The edge list to a set of releases, oldest first: the generator of the  *)
(* shipped graphs sorts its edges this way.                                *)
Ascending(set) == SelectSeq([i \in 1..N |-> Id(i)], LAMBDA id : id \in {Id(i) : i \in set})

(* The migration of release i when the releases in breaks start new ones.  *)
MigrationOf(breaks, i) == <<"m0", "m1", "m2", "m3", "m4">>[1 + Cardinality(breaks \cap 1..i)]

Node(breaks, i) == [id |-> Id(i), tag |-> Id(i), migration |-> MigrationOf(breaks, i), phase |-> ""]

Channel(name, default, out, breaks) ==
    [name |-> name, datastore |-> "crdb", default |-> default,
     nodes |-> [i \in 1..N |-> Node(breaks, N + 1 - i)],
     edges |-> [id \in {Id(i) : i \in {i \in 1..N : out[i] # {}}} |->
                    Ascending(out[CHOOSE i \in 1..N : Id(i) = id])]]

OutSets == {out \in [1..N -> SUBSET (1..N)] : \A i \in 1..N : out[i] \subseteq (i + 1)..N}

(* An update that jumps over a release is also an update from it.  Every   *)
(* channel of the shipped update graph has this property.                  *)
SuffixClosed(out) ==
    \A i \in 1..N : \A k \in out[i] : \A j \in (i + 1)..(k - 1) : k \in out[j]

Stable(out, breaks) == Channel("stable", TRUE, out, breaks)

SingleChannel(outs, breakSets) ==
    {g \in {<<Stable(out, breaks)>> : out \in outs, breaks \in breakSets} :
        NewMemorySourceOK(g[1])}

ShippedGraphs == SingleChannel({out \in OutSets : SuffixClosed(out)}, {{3}, {2, 4}})

(* A second channel that lacks release v3 of the first.                    *)
Rapid == [name |-> "rapid", datastore |-> "crdb", default |-> FALSE,
          nodes |-> <<Node({4}, 4), Node({4}, 2), Node({4}, 1)>>,
          edges |-> [id \in {"v1", "v2"} |-> IF id = "v1" THEN <<"v2", "v4">> ELSE <<"v4">>]]

TwoChannelGraphs ==
    {<<Stable([i \in 1..N |-> (i + 1)..(IF i < 3 THEN 3 ELSE N)], breaks), Rapid>> :
        breaks \in {{}, {2}, {3, 4}}}

AllGraphs == ShippedGraphs \cup TwoChannelGraphs

SomeChannels == {"", "stable", "rapid"}
Pins == {"", "v1", "v2", "v3", "v4"}
SomePins == {"", "v1", "v3"}

(* What the theorems about the walk ask of the graphs.                     *)
ASSUME ShapeAssumption ==
    \A g \in AllGraphs :
        /\ \A i \in DOMAIN g :
              /\ DOMAIN g[i].edges \subseteq Ids(g[i])
              /\ UpdatesLeadForward(g[i]) /\ UpdatesAscend(g[i]) /\ NoBypass(g[i])
        /\ UNION {Ids(g[i]) : i \in DOMAIN g} = {Id(i) : i \in 1..N}
=============================================================================
