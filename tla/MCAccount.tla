----------------------------- MODULE MCAccount ------------------------------
(* For TLC: the accounts of two founders on two pages, a Passport, the     *)
(* admin's batches and the registers' advice. They share no state, so each *)
(* is explored while the others stand at their beginning: their product    *)
(* would show nothing more.                                                *)
EXTENDS Account, Passport, Preread, Advisory

CONSTANTS f1, f2, p1, p2, p3, s1, s2

\* By Auth0, by Cloudflare Access, and with a token that does not verify.
Requests ==
  p1 :> [bearer |-> f1, access |-> f2, verified |-> TRUE] @@
  p2 :> [bearer |-> Null, access |-> f2, verified |-> TRUE] @@
  p3 :> [bearer |-> f1, access |-> Null, verified |-> FALSE]

Claimed(field, value, actor) == [field |-> field, value |-> value, actor |-> actor]

Sessions ==
  s1 :> [company |-> "c1", website |-> "w1",
         signals |-> <<Claimed("stage", "Seed", "founder"), Claimed("stage", "Series A", "extractor"),
                       Claimed("infrastructure", "AWS", "recon"),
                       Claimed("data_sensitivity", "Unknown", "extractor")>>] @@
  s2 :> [company |-> Null, website |-> "w2",
         signals |-> <<Claimed("has_backup", "yes", "extractor"),
                       Claimed("handles_personal_data", "yes", "extractor"),
                       Claimed("sector", "fintech", "extractor")>>]

Names == ExplicitFactFields \cup {"infrastructure", "founder", "system", "extractor", "recon"}

Values == {"c1", "w1", "w2", "w3", "w4", "Seed", "Series A", "AWS", "aws", "azure", "yes",
           "fintech", "healthcare", "Unknown", Null}

Statements ==
  p1 :> {<<Claimed("website", "w3", "founder"), Claimed("cloud_provider", "aws", "founder")>>,
         <<Claimed("cloud_provider", "azure", Null), Claimed("website", "w4", "system"),
           Claimed("revenue", "Unknown", "founder"), Claimed("sector", "healthcare", "founder")>>} @@
  p2 :> {} @@ p3 :> {}

FactOf(value, layer, ts, audiences, illustrative) ==
  [key |-> "arr", group |-> "financials", value |-> value, layer |-> layer, ts |-> ts,
   audiences |-> audiences, illustrative |-> illustrative]

FactsArriving ==
  {FactOf(v, l, t, AnyAudience, FALSE) : v \in {1, 2}, l \in Range(FactLayers), t \in {1, 2}}
  \cup {FactOf(v, l, 1, AnyAudience, TRUE) : v \in {1, 2}, l \in {"inferred", "attested"}}
  \cup {FactOf(2, l, 2, {"founder"}, FALSE) : l \in Range(FactLayers)}
  \cup {[FactOf(1, "declared", 1, {"investor"}, FALSE) EXCEPT !.key = "headcount"]}

EngagementsHeld == {[family |-> "capital_introduction", audiences |-> AnyAudience],
                    [family |-> "service", audiences |-> {"founder"}]}

Ask(words) == [words |-> words, asks |-> TRUE]
Questions ==
  {Ask({"which", "model", "images"}), Ask({"find", "data", "soil", "rain"}), Ask({"data", "rain"}),
   Ask({"soil"}), Ask({"model"}), [words |-> {"our", "data"}, asks |-> FALSE]}

ModelOf(name, modalities) ==
  [name |-> name, provider |-> {"open"}, id |-> name, modalities |-> modalities]
ModelRegister == <<ModelOf({"tts"}, {"AUDIO"}), ModelOf({"nova"}, {"IMAGE", "TEXT"}),
                   ModelOf({"images"}, {"TEXT"})>>
DataOf(name, tags, description, commercial) ==
  [name |-> name, tags |-> tags, description |-> description, commercial |-> commercial]
DataRegister ==
  <<DataOf({"soil"}, {"soil", "rain"}, {"rain"}, "paid"), DataOf({"radar"}, {}, {"rain"}, "free"),
    DataOf({"rain"}, {"rain"}, {}, "paid"), DataOf({"moisture"}, {"soil"}, {}, "free")>>
CapabilityTerms == [images |-> "IMAGE", audio |-> "AUDIO"]

NoAccount == log = [f \in Founder |-> << >>] /\ said = 0 /\ crashes = 0
             /\ call = [p \in Page |-> NoCall]
NoPassport == facts = << >>
NoAdvice == advice = Silent
NoBatch == now = 0 /\ stamps = << >> /\ restarts = 0

Init == AccountInit /\ PassportInit /\ PrereadInit /\ AdvisoryInit

Next ==
  \/ AccountNext /\ NoPassport /\ NoBatch /\ NoAdvice /\ UNCHANGED <<facts, prereadVars, advice>>
  \/ PassportNext /\ NoAccount /\ NoBatch /\ NoAdvice /\ UNCHANGED <<accountVars, prereadVars, advice>>
  \/ PrereadNext /\ NoAccount /\ NoPassport /\ NoAdvice /\ UNCHANGED <<accountVars, facts, advice>>
  \/ AdvisoryNext /\ NoAccount /\ NoPassport /\ NoBatch /\ UNCHANGED <<accountVars, facts, prereadVars>>

Spec == Init /\ [][Next]_<<accountVars, facts, prereadVars, advice>> /\ ReadsEnd
=============================================================================
