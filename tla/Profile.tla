------------------------------ MODULE Profile -------------------------------
(***************************************************************************)
(* A founder's account as a fold of what was appended to it:               *)
(* memory-derive.js turns statements and cold reads into claims,           *)
(* memory-store-file.js reconstructs the claims that stand, and            *)
(* profile-projections.js lights six tiles from them.                      *)
(*                                                                         *)
(* A claim is the whole of the evidence, observation and claim the code    *)
(* writes for one fact: the three carry the same field and value and the   *)
(* folds read nothing else of them. No code writes a claim whose state is  *)
(* not "believed", so retraction is left out.                              *)
(***************************************************************************)
EXTENDS Naturals, Sequences, FiniteSets, SequencesExt

CONSTANT Null

ExplicitFactFields ==
  {"company_name", "website", "stage", "sector", "product_type", "customer_type",
   "data_sensitivity", "geo_market", "handles_payments", "handles_personal_data",
   "uses_ai", "has_backup", "pen_test_completed", "aws_program_enrolled",
   "microsoft_program_enrolled", "team_size", "revenue", "funding_stage",
   "cloud_provider"}

(* Only "system" is the system; whatever else a fact says of its author,   *)
(* and a fact that says nothing, is the founder.                           *)
NormalizeFact(fact, from) ==
  [field |-> fact.field, value |-> fact.value, from |-> from,
   actor |-> IF fact.actor = "system" THEN "system" ELSE "founder"]

KeepFact(kept, fact) ==
  IF fact.field \in ExplicitFactFields /\ fact.value \notin {Null, "Unknown"}
  THEN Append(kept, fact) ELSE kept

FactRecords(facts, from) ==
  LET kept == FoldLeft(KeepFact, << >>, facts)
  IN  [i \in DOMAIN kept |-> NormalizeFact(kept[i], from)]

(* The session's company name and site, then its signals in their order: a *)
(* signal the founder made is his, the rest is the read's.                 *)
SessionAttachRecords(session, id) ==
  LET System(field, value) == [field |-> field, value |-> value, actor |-> "system"]
      Source(signal) == IF signal.actor = "founder" THEN "founder" ELSE "system"
      Signal(signal) == [field |-> signal.field, value |-> signal.value, actor |-> Source(signal)]
  IN  FactRecords(<<System("company_name", session.company), System("website", session.website)>>
                    \o [i \in DOMAIN session.signals |-> Signal(session.signals[i])], id)

-----------------------------------------------------------------------------

NoClaims == [f \in ExplicitFactFields |-> Null]

(* Mutant: the cold read may replace what the founder said. *)
NewestClaim(current, claim) == [current EXCEPT ![claim.field] = claim]

ApplyClaim(current, claim) ==
  LET existing == current[claim.field]
  IN  IF existing # Null /\ claim.actor # "founder" /\ existing.actor = "founder"
      THEN current
      ELSE [current EXCEPT ![claim.field] = claim]

Reconstruct(log) == FoldLeft(ApplyClaim, NoClaims, log)

-----------------------------------------------------------------------------

Tile == {"investor", "vendors", "aws", "microsoft", "posture", "spv"}

TileFields ==
  [investor  |-> {"company_name", "website", "stage", "sector", "product_type", "customer_type"},
   vendors   |-> {"sector", "product_type", "customer_type", "data_sensitivity",
                  "handles_personal_data"},
   aws       |-> {"website", "cloud_provider", "stage", "uses_ai", "has_backup"},
   microsoft |-> {"cloud_provider", "stage", "uses_ai", "customer_type"},
   posture   |-> {"handles_personal_data", "data_sensitivity", "has_backup",
                  "pen_test_completed"},
   spv       |-> {"company_name", "website", "stage", "sector", "revenue", "team_size"}]

(* The states a tile has, with the number of its claims each one needs.    *)
Ladder ==
  [investor  |-> <<<<4, "partial">>, <<2, "emerging">>>>,
   vendors   |-> <<<<3, "likely">>, <<1, "emerging">>>>,
   aws       |-> <<<<2, "possible">>>>,
   microsoft |-> <<<<2, "possible">>>>,
   posture   |-> <<<<3, "partial">>, <<1, "emerging">>>>,
   spv       |-> <<<<4, "emerging">>, <<2, "forming">>>>]

CloudNames == [aws |-> {"aws"}, microsoft |-> {"azure", "microsoft"}]
Enrolled == [aws |-> "aws_program_enrolled", microsoft |-> "microsoft_program_enrolled"]

HasSignal(current, tile) ==
  /\ tile \in DOMAIN Enrolled
  /\ \/ current[Enrolled[tile]] # Null
     \/ /\ current["cloud_provider"] # Null
        /\ current["cloud_provider"].value \in CloudNames[tile]

Contributing(current, tile) == {f \in TileFields[tile] : current[f] # Null}

(* Mutant: a rung asks for its exact number of claims. *)
StateAtExactly(current, tile) ==
  LET held == Cardinality(Contributing(current, tile))
      rung == SelectInSeq(Ladder[tile], LAMBDA step : held = step[1])
  IN  IF HasSignal(current, tile) THEN "likely"
      ELSE IF rung = 0 THEN "unknown" ELSE Ladder[tile][rung][2]

ProjectionState(current, tile) ==
  LET held == Cardinality(Contributing(current, tile))
      rung == SelectInSeq(Ladder[tile], LAMBDA step : held >= step[1])
  IN  IF HasSignal(current, tile) THEN "likely"
      ELSE IF rung = 0 THEN "unknown" ELSE Ladder[tile][rung][2]

(* lit_tiles, and what utils/projectionTiles.js makes of the states: a     *)
(* state is dark when it is unknown or blocked, and none is blocked.       *)
LitTiles(current) == {t \in Tile : ProjectionState(current, t) # "unknown"}

(* The sentence under the tile, and the confidence beside it.              *)
Confidence(current, tile) ==
  LET held == Contributing(current, tile)
      risk == {"handles_personal_data", "data_sensitivity"}
  IN  CASE tile \in DOMAIN Enrolled -> IF HasSignal(current, tile) THEN "medium" ELSE "low"
        [] tile \in {"investor", "spv"} -> IF Cardinality(held) >= 5 THEN "medium" ELSE "low"
        [] tile = "vendors" -> IF Cardinality(held) >= 4 THEN "medium" ELSE "low"
        [] tile = "posture" -> IF held \cap risk # {} /\ held \ risk # {} THEN "medium" ELSE "low"
=============================================================================
