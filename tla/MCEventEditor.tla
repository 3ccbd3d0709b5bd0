--------------------------- MODULE MCEventEditor ---------------------------
(* Instances of EventEditor for TLC.                                       *)
EXTENDS EventEditor, TLC

CONSTANTS e1, e2, w1, w2

(* Writes are interchangeable identities.                                  *)
WriteSymmetry == Permutations(Writes) \cup Permutations(Events)
=============================================================================
