---------------------------- MODULE ProgramRules ----------------------------
(***************************************************************************)
(* The partner programs of config/aws-programs.js, microsoft-programs.js   *)
(* and capability-register.json, and the two evaluators that read them:    *)
(* the record panel's (programs-matcher.js), which compares with ===, and  *)
(* the shortlist's (trigger-evaluator.js), which compares normalised text. *)
(*                                                                         *)
(* A trigger is a set of conditions, all of which must hold; = is "in" a   *)
(* singleton. A company is a function from the fields that are known to    *)
(* values.                                                                 *)
(***************************************************************************)
EXTENDS TLC

In(f, vs) == [field |-> f, op |-> "in", values |-> vs]
Is(f, v) == In(f, {v})
Present(f) == [field |-> f, op |-> "exists", values |-> {}]
Not(f, v) == [field |-> f, op |-> "not_eq", values |-> {v}]

(* The triggers of the configuration hold the booleans true and false, a   *)
(* claim and the register hold their text.                                 *)
Boolean(b) == IF b THEN "boolean true" ELSE "boolean false"

Early == {"Pre-seed", "Seed", "Series A"}
Later == {"Series A", "Series B+"}
Products == {"B2B SaaS", "Platform", "API", "Software product"}
Anz == {"Australia", "ANZ"}
Unmigrated == {"on_prem", "legacy_hosted", "multi_cloud_fragmented"}

AwsStartupCredits ==
       "activate_founders" :>
          {In("stage", Early), Is("has_raised_institutional", Boolean(FALSE))}
    @@ "activate_portfolio" :> {Is("has_raised_institutional", Boolean(TRUE))}
    @@ "global_startup_program" :>
          {In("stage", Later), Is("has_raised_institutional", Boolean(TRUE))}
    @@ "genai_accelerator" :>
          {In("stage", {"Seed", "Series A"}), In("sector", {"saas", "infrastructure"})}
    @@ "saas_spotlight" :>
          {Is("product_type", "B2B SaaS"), In("stage", {"Pre-seed", "Seed"})}

AwsPartnerAndFunding ==
       "isv_accelerate" :> {In("product_type", Products)}
    @@ "well_architected_partner" :> {Present("infrastructure")}
    @@ "marketplace_seller" :> {In("product_type", Products)}
    @@ "solution_provider" :> {Present("product_type")}
    @@ "migration_acceleration" :> {In("infrastructure", Unmigrated)}
    @@ "poc_funding" :> {Present("infrastructure")}

AwsSectors ==
       "imagine_grant" :> {Is("abn_entity_type", "not_for_profit")}
    @@ "nonprofit_credit" :> {Is("abn_entity_type", "not_for_profit")}
    @@ "clean_energy_accelerator" :> {Is("sector", "energy")}
    @@ "public_sector" :> {Is("sector", "government")}
    @@ "financial_services" :> {In("sector", {"fintech", "financial_services"})}
    @@ "healthcare_programs" :> {Is("sector", "healthcare")}
    @@ "cybersecurity_accelerator" :>
          {In("sector", {"saas", "infrastructure"}), In("stage", Early)}

MicrosoftStartups ==
       "founders_hub" :> {In("stage", Early)}
    @@ "azure_for_startups" :>
          {In("stage", Early \cup Later), Present("infrastructure")}
    @@ "ai_cloud_partner" :>
          {In("sector", {"saas", "infrastructure", "ai"}),
           In("stage", {"Seed", "Series A", "Series B+"})}
    @@ "isv_success" :> {In("product_type", Products), In("stage", Later)}
    @@ "cloud_partner_program" :> {In("product_type", Products)}
    @@ "azure_marketplace_seller" :>
          {In("product_type", {"B2B SaaS", "Platform", "Software product"}),
           Is("has_raised_institutional", Boolean(TRUE))}

MicrosoftFundingAndSectors ==
       "azure_migrate_modernize" :> {Present("infrastructure"), Not("stage", "Pre-seed")}
    @@ "azure_innovate" :> {In("stage", Later), Present("infrastructure")}
    @@ "ingram_amp_azure" :>
          {Present("infrastructure"), In("geo_market", Anz \cup {"Asia Pacific"})}
    @@ "ingram_xvantage_csp" :>
          {In("stage", Early), In("geo_market", Anz \cup {"Asia Pacific"})}
    @@ "govtech_accelerator" :>
          {In("sector", {"government", "govtech", "defence", "public sector"}),
           In("geo_market", Anz)}
    @@ "nonprofit_azure" :>
          {In("abn_entity_type", {"nonprofit", "nfp", "charity", "foundation"})}

PROGRAMS ==
    AwsStartupCredits @@ AwsPartnerAndFunding @@ AwsSectors
       @@ MicrosoftStartups @@ MicrosoftFundingAndSectors

-----------------------------------------------------------------------------
(* The record panel. A trigger on a field the company does not have fails. *)

EvaluateTrigger(t, signals) ==
    CASE t.op = "in" -> signals[t.field] \in t.values
      [] t.op = "not_eq" -> signals[t.field] \notin t.values
      [] t.op = "exists" -> TRUE

MatchedPrograms(signals) ==
    {p \in DOMAIN PROGRAMS :
        \A t \in PROGRAMS[p] :
           t.field \in DOMAIN signals /\ EvaluateTrigger(t, signals)}

-----------------------------------------------------------------------------
(* The shortlist. Spelling lists the ways of writing a value that norm()   *)
(* (lower case, spaces and dashes to underscores) sends to one text; the   *)
(* canonical spelling stands for that text.                                *)

Spelling ==
       "seed" :> "Seed" @@ "series a" :> "Series A" @@ "platform" :> "Platform"
    @@ "boolean true" :> "true" @@ "boolean false" :> "false"

Norm(v) == IF v \in DOMAIN Spelling THEN Spelling[v] ELSE v

(* evaluateTrigger of trigger-evaluator.js over a parsed expression: every *)
(* condition needs a testified claim of its field, != included.            *)
Fires(trigger, testified) ==
    \A t \in trigger :
       /\ t.field \in DOMAIN testified
       /\ LET v == Norm(testified[t.field])
              values == {Norm(x) : x \in t.values}
          IN CASE t.op = "in" -> v \in values
               [] t.op = "not_eq" -> v \notin values
               [] t.op = "exists" -> TRUE
=============================================================================
