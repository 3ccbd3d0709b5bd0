---------------------------- MODULE MCWebScreens ----------------------------
(* Instances of WebScreens for TLC.                                        *)
EXTENDS WebScreens, TLC

CONSTANTS a, b, c1, c2

(* Requests are interchangeable identities.                                *)
CallSymmetry == Permutations(Calls)
=============================================================================
