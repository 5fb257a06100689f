------------------------------ MODULE MCCerLog ------------------------------
(* Instances of CerLog for TLC. *)
EXTENDS CerLog, TLC

CONSTANTS p1

MCRoutePartner == [c \in Cer |-> p1]

RequestSymmetry == Permutations(Request)
=============================================================================
