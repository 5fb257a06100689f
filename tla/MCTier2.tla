------------------------------ MODULE MCTier2 ------------------------------
(* Instances of Tier2 for TLC.                                             *)
EXTENDS Tier2, TLC

CONSTANTS f1, g1, g2, v1, v2, n1, t1, t2, h1, h2, c1, c2, c3

(* One gap that reads the field overrides change, one that reads nothing.  *)
ReadsOne == g1 :> {f1} @@ g2 :> {}

(* A distributor with a priority that came later, and one without.         *)
Tenants == {[id |-> t1, branch |-> "distributor", priority |-> Null, created |-> 1],
            [id |-> t2, branch |-> "distributor", priority |-> 1, created |-> 2]}
(* n1 is no string, but is kept as v1 is: the number 1, say, and "1".      *)
Texts == v1 :> v1 @@ v2 :> v2 @@ n1 :> v1

(* A human overrides the field, another human does and agrees in another   *)
(* form, or a rescan disagrees, and a conflict there is is resolved.       *)
Over(v, a) == [op |-> "override", field |-> f1, value |-> v, actor |-> a]
Settle(v, a) == [op |-> "resolve", field |-> f1, value |-> v, actor |-> a]
Requests == c1 :> {Over(v1, h1)} @@ c2 :> {Over(n1, h2), Over(v2, "system")}
              @@ c3 :> {Settle(v1, h1)}
Symmetry == Permutations(Publish)
=============================================================================
