--------------------------- MODULE MCSecretAdoption ---------------------------
(***************************************************************************)
(* Instances of SecretAdoption.                                            *)
(***************************************************************************)
EXTENDS SecretAdoption

TwoRoles == <<"datastore-uri", "preshared-key">>

Uses(uri, key) == [r \in RoleSet |-> IF r = "datastore-uri" THEN uri ELSE key]

(* Each role has secrets of its own.                                       *)
OwnSecrets == {Uses("d1", "k"), Uses("d2", "k")}

(* One secret serves both roles, until the key moves to another.           *)
SharedSecret == {Uses("d1", "d1"), Uses("d1", "d2")}

(* One role, whose secret several clusters share.                          *)
OneRole == <<"datastore-uri">>

EitherSecret == {Uses("d1", ""), Uses("d2", "")}

ASSUME ApartAssumption == Credentials = OwnSecrets => SecretsApart
=============================================================================
