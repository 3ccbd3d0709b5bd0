--------------------------- MODULE MCEventCatalog ---------------------------
(* Instances of EventCatalog for TLC.                                      *)
EXTENDS EventCatalog, TLC

CONSTANTS e1, e2, k1, k2, o1, o2, r1, r2, hall

(* Rows and requests are interchangeable identities.                       *)
CatalogSymmetry ==
  Permutations(Events) \cup Permutations(Types) \cup Permutations(Orders)
    \cup Permutations(Requests)
=============================================================================
