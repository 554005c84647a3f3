---------------------------- MODULE MCUpgradePath ----------------------------
(***************************************************************************)
(* UpgradePath on the graph that the operator ships with.                  *)
(***************************************************************************)
EXTENDS ShippedGraph, UpgradePath

ShippedDatastores == {Shipped[i].datastore : i \in DOMAIN Shipped} \cup {"other"}
=============================================================================
