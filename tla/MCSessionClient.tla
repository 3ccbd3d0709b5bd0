-------------------------- MODULE MCSessionClient --------------------------
(* Instances of SessionClient for TLC.                                     *)
EXTENDS SessionClient, TLC

CONSTANTS a, b, boot, c1, f1, f2

(* Users and flights are interchangeable identities.                       *)
SessionSymmetry == Permutations(Users) \cup Permutations(Flights)
=============================================================================
