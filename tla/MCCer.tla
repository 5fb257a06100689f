------------------------------- MODULE MCCer -------------------------------
(* Instances of Cer for TLC. *)
EXTENDS Cer, TLC

CONSTANTS c1, p1, p2

MCRoutePartner == [c \in Cer |-> IF c = c1 THEN p1 ELSE p2]

RequestSymmetry == Permutations(Request)
=============================================================================
