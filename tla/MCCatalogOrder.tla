--------------------------- MODULE MCCatalogOrder ---------------------------
(* One order of a product, one client, one proof, one operator.              *)
EXTENDS CatalogOrder

CONSTANTS o1, shirt, client, p1, operator

MCProductOf == [o \in Order |-> shirt]
=============================================================================
