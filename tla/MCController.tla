----------------------------- MODULE MCController -----------------------------
(***************************************************************************)
(* Instances of Controller: three releases of one channel.  v1 to v2 is a  *)
(* direct update, v2 to v3 runs a migration.                               *)
(***************************************************************************)
EXTENDS Controller

Node(id, migration) == [id |-> id, tag |-> id, migration |-> migration, phase |-> ""]

Releases ==
    <<[name |-> "stable", datastore |-> "crdb", default |-> TRUE,
       nodes |-> <<Node("v3", "m2"), Node("v2", "m1"), Node("v1", "m1")>>,
       edges |-> [id \in {"v1", "v2"} |-> IF id = "v1" THEN <<"v2">> ELSE <<"v3">>]]>>

Config(version) == [valid |-> TRUE, conf |-> "a", skip |-> FALSE, image |-> "",
                    version |-> version, channel |-> ""]

TwoReleases ==
    <<[name |-> "stable", datastore |-> "crdb", default |-> TRUE,
       nodes |-> <<Node("v2", "m2"), Node("v1", "m1")>>, edges |-> [id \in {"v1"} |-> <<"v2">>]]>>

PinThenHead == {Config("v1"), Config("")}

(* An invalid spec, an invalid config, another config, skipped migrations. *)
Settings ==
    {Config("v1"), [Config("") EXCEPT !.valid = FALSE], [Config("") EXCEPT !.conf = "bad"],
     [Config("") EXCEPT !.conf = "b"], [Config("") EXCEPT !.skip = TRUE]}

(* A pinned image, and then the head of the channel.                       *)
ImageThenHead == {[Config("") EXCEPT !.image = "pinned"], Config("")}

(* The in-memory datastore, which needs no migration.                      *)
InMemory ==
    <<[name |-> "stable", datastore |-> "memory", default |-> TRUE,
       nodes |-> <<Node("v2", ""), Node("v1", "")>>, edges |-> [id \in {"v1"} |-> <<"v2">>]]>>

(* Other options, which the user takes back.                               *)
BackAndForth == {Config(""), [Config("") EXCEPT !.conf = "b"]}

(* Pins and the head of one channel are what the theorems on the rollout   *)
(* are about.                                                              *)
ASSUME RolloutAssumption == Specs = PinThenHead => VersionsOnly /\ NoWayBack
=============================================================================
