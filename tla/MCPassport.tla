----------------------------- MODULE MCPassport -----------------------------
(* A Passport for TLC: one key on which the founder's story, some of it    *)
(* told to the founder's own lens only, meets evidence.                    *)
EXTENDS Passport

FactOf(value, layer, audiences) ==
  [key |-> "arr", group |-> "financials", value |-> value, layer |-> layer, ts |-> 1,
   audiences |-> audiences, illustrative |-> FALSE]

FactsArriving ==
  {FactOf(v, l, a) : v \in {1, 2}, l \in {"declared", "attested"},
                     a \in {AnyAudience, {"founder"}}}

NoEngagements == {}
=============================================================================
