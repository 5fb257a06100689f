------------------------------ MODULE Passport ------------------------------
(***************************************************************************)
(* The Passport, vehicle-projection.js: facts several sources assert of    *)
(* one customer, folded by a lattice of layers and then by time, shown to  *)
(* each audience through its lens (config/vehicle-lenses.js).              *)
(*                                                                         *)
(* The module is pure; facts only ever arrive. A fact is                   *)
(* [key, group, value, layer, ts, audiences, illustrative], audiences      *)
(* being AnyAudience where the fact names none.                            *)
(***************************************************************************)
EXTENDS Naturals, Sequences, FiniteSets, SequencesExt

CONSTANTS
  Fact,        \* the facts that may arrive
  AnyAudience,
  NoFact,      \* what a fold of no fact stands on
  Engagements, \* set of [family, audiences]
  MaxFacts     \* bound

(* layerRank throws for any other layer. *)
ASSUME PassportAssumption ==
  /\ \A fact \in Fact : fact.layer \in {"inferred", "declared", "corrected", "attested"}
  /\ NoFact \notin Fact

VARIABLE facts

PassportInit == facts = << >>

(* The record grows in whatever order its sources report.                  *)
Arrive(fact) ==
  /\ Len(facts) < MaxFacts
  /\ facts' = Append(facts, fact)

PassportNext == \E fact \in Fact : Arrive(fact)

PassportSpec == PassportInit /\ [][PassportNext]_facts

-----------------------------------------------------------------------------
(* The lattice.                                                            *)

FactLayers == <<"inferred", "declared", "corrected", "attested">>
LayerRank(layer) == CHOOSE i \in DOMAIN FactLayers : FactLayers[i] = layer

Beats(fact, best) ==
  IF fact.layer = best.layer THEN fact.ts > best.ts
  ELSE LayerRank(fact.layer) > LayerRank(best.layer)

Better(best, fact) == IF best = NoFact \/ Beats(fact, best) THEN fact ELSE best
WinningFact(record) == FoldLeft(Better, NoFact, record)

On(record, key) == SelectSeq(record, LAMBDA fact : fact.key = key)
Keys(record) == {record[i].key : i \in DOMAIN record}

(* The winner of each key: of equals, the first stands.                    *)
FoldFact(folded, fact) ==
  [k \in DOMAIN folded \cup {fact.key} |->
     IF k # fact.key THEN folded[k]
     ELSE Better(IF k \in DOMAIN folded THEN folded[k] ELSE NoFact, fact)]
FoldFacts(record) == FoldLeft(FoldFact, << >>, record)

-----------------------------------------------------------------------------
(* Where the founder's story disagrees with the evidence.                  *)

IsEvidenceBacked(fact) == ~fact.illustrative /\ fact.layer \in {"inferred", "attested"}

Declared(record, key) == SelectSeq(On(record, key), LAMBDA fact : fact.layer = "declared")

Conflicting(record, key) ==
  LET declared == WinningFact(Declared(record, key))
  IN  SelectSeq(On(record, key),
                LAMBDA fact : IsEvidenceBacked(fact) /\ fact.value # declared.value)

Disagree(record, key) ==
  /\ \A i \in DOMAIN On(record, key) : On(record, key)[i].layer # "corrected"
  /\ Declared(record, key) # << >>
  /\ Conflicting(record, key) # << >>

Disagreement(record, key) ==
  LET declared == WinningFact(Declared(record, key))
      evidence == WinningFact(Conflicting(record, key))
  IN  [key |-> key, declared |-> declared.value, evidence |-> evidence.value,
       stands |-> WinningFact(<<declared, evidence>>).layer,
       others |-> Len(Conflicting(record, key)) - 1]

Disagreements(record) == {Disagreement(record, k) : k \in {k \in Keys(record) : Disagree(record, k)}}

-----------------------------------------------------------------------------
(* The lenses: who asks, and the sections fed by facts, disagreements and  *)
(* engagements. Posture and usage are handed over as they are.             *)

FactLens(audience, groups, others) == [audience |-> audience, groups |-> groups, others |-> others]

VehicleLenses ==
  [filled     |-> FactLens("founder", {"identity", "context"}, {"engagements"}),
   dd         |-> FactLens("investor", {"raise", "financials", "traction", "cap_table", "team",
                                        "market", "legal"}, {"disagreements", "capital"}),
   enterprise |-> FactLens("enterprise_buyer", {"certifications", "privacy", "continuity",
                                                "references"}, {"engagements"}),
   ciso       |-> FactLens("ciso", {"cloud_posture", "provenance"}, {"engagements"}),
   commercial |-> FactLens("ethiks360_admin", {}, {"engagements"})]

(* A lens for one person: a base lens, perhaps another audience, perhaps   *)
(* fewer sections.                                                         *)
MintLens(base, audience, drop) ==
  LET parent == VehicleLenses[base]
  IN  FactLens(audience, parent.groups \ drop, parent.others \ drop)

VisibleTo(of, audience) == of.audiences = AnyAudience \/ audience \in of.audiences

(* Mutant: what the audience may not see is left out before the fold. *)
FoldWhatIsVisible(record, audience) ==
  FoldFacts(SelectSeq(record, LAMBDA fact : VisibleTo(fact, audience)))

Visible(record, audience) ==
  LET folded == FoldFacts(record)
  IN  Restrict(folded, {k \in DOMAIN folded : VisibleTo(folded[k], audience)})

(* A section with nothing behind it is "not yet sourced", never absent.    *)
Section(body) ==
  [status |-> IF body = {} THEN "not_yet_sourced" ELSE "sourced", entries |-> body]

FactSection(record, audience, group) ==
  LET visible == Visible(record, audience)
  IN  Section({[key |-> k, value |-> visible[k].value, layer |-> visible[k].layer,
                superseded |-> Len(On(record, k)) - 1] :
               k \in {k \in DOMAIN visible : visible[k].group = group}})

EngagementSection(audience, kind) ==
  Section({e \in Engagements : /\ VisibleTo(e, audience)
                               /\ kind = "capital" => e.family = "capital_introduction"})

OtherSection(record, audience, kind) ==
  IF kind = "disagreements" THEN Section(Disagreements(record))
  ELSE EngagementSection(audience, kind)

ProjectVehicleForViewer(record, lens) ==
  [facts |-> [g \in lens.groups |-> FactSection(record, lens.audience, g)],
   others |-> [k \in lens.others |-> OtherSection(record, lens.audience, k)],
   entries |-> Cardinality(DOMAIN Visible(record, lens.audience)) + Cardinality(Engagements)]

-----------------------------------------------------------------------------

Entries(view, group) == view.facts[group].entries

(* In the sections fed by facts, two people who are shown a fact are shown *)
(* the same: what an audience may not see is withheld there, never         *)
(* replaced by an older or a weaker value it may see                       *)
(* (projectVehicleForViewer folds, then filters); and no fact of the       *)
(* record outranks what is shown. Of the disagreements section it says     *)
(* nothing: that one is not filtered (RenderedIsVisible).                  *)
ViewersNeverDisagree ==
  \A base \in DOMAIN VehicleLenses :
    LET lens == VehicleLenses[base]
        view == ProjectVehicleForViewer(facts, lens)
        person(a) == ProjectVehicleForViewer(facts, MintLens(base, a, {}))
    IN  \A g \in lens.groups : \A e \in Entries(view, g) :
          /\ \A b \in DOMAIN VehicleLenses :
               \A o \in Entries(person(VehicleLenses[b].audience), g) : o.key = e.key => o = e
          /\ \A i \in DOMAIN facts :
               facts[i].key = e.key => LayerRank(facts[i].layer) <= LayerRank(e.layer)

(* The values a view renders of each key. *)
Rendered(view) ==
  {<<e.key, e.value>> : e \in UNION {Entries(view, g) : g \in DOMAIN view.facts}}
  \cup UNION {{<<e.key, e.declared>>, <<e.key, e.evidence>>} :
              e \in UNION {view.others[k].entries :
                           k \in DOMAIN view.others \cap {"disagreements"}}}

(* "A fact that names [audiences] is filtered here, before it is ever      *)
(* rendered" (visibleTo): whatever a lens renders of a key is the value of *)
(* a fact its audience may see. The code breaks it: the section of         *)
(* disagreements is computed from every fact and shown as it is.           *)
RenderedIsVisible ==
  \A base \in DOMAIN VehicleLenses :
    LET lens == VehicleLenses[base]
    IN  \A shown \in Rendered(ProjectVehicleForViewer(facts, lens)) :
          \E i \in DOMAIN facts :
            /\ facts[i].key = shown[1] /\ facts[i].value = shown[2]
            /\ VisibleTo(facts[i], lens.audience)
=============================================================================
