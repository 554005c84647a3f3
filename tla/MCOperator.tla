------------------------------ MODULE MCOperator ------------------------------
(***************************************************************************)
(* Two workers, and two watched namespaces with a cluster each.            *)
(***************************************************************************)
EXTENDS Operator

TwoNamespaces == <<{"c1"}, {"c2"}>>
=============================================================================
