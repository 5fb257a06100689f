------------------------------ MODULE GapRules ------------------------------
(***************************************************************************)
(* What the gap engines share: the gap definitions of config/gaps.js, the  *)
(* peer sentence, the framework impact and the field accesses publish      *)
(* tracks, as functions of a context. A context gives every field a value, *)
(* Null where JavaScript has undefined or null. Copy is left out.          *)
(*                                                                         *)
(* JavaScript's true and false are Yes and No; "true" and "false" are the  *)
(* strings, which is what a TEXT column makes of them.                     *)
(***************************************************************************)
EXTENDS Integers, FiniteSets, FiniteSetsExt

CONSTANT Null

Yes == "yes"
No == "no"

(* null is none of the words a rule compares with.                         *)
ASSUME NullAssumption ==
  Null \notin {Yes, No, "missing", "none", "open", "B", "C", "D", "F", "T", "M", "aws", "azure"}

SignalField ==
  {"product_type", "customer_type", "data_sensitivity", "infrastructure", "stage",
   "sector", "geo_market", "handles_payments", "uses_ai", "handles_personal_data",
   "pen_test_completed", "has_backup", "aws_program_enrolled",
   "microsoft_program_enrolled"}

\* Fields no extractor emits: only a founder's word sets them.
FounderField ==
  {"identity_model", "insurance_status", "compliance_status",
   "questionnaire_experience", "founder_profile_completed"}

ProbeField ==
  {"dmarc_policy", "spf_policy", "mx_provider", "has_hsts", "has_csp",
   "tls_is_current", "cert_expiry_days", "cdn_provider", "waf_detected",
   "has_staging_exposure", "cloud_provider", "hosting_provider",
   "domain_in_breach", "ssl_grade", "has_old_tls", "abuse_confidence_score",
   "ip_is_abusive"}

Field == SignalField \cup FounderField \cup ProbeField
----------------------------------------------------------------------------
(* triggerCondition, section by section of GAP_DEFINITIONS.                *)

AssuranceGaps(c) ==
  [soc2              |-> c.compliance_status \in {"none", "unknown"},
   mfa               |-> c.identity_model = "password_only",
   cyber_insurance   |-> c.insurance_status \in {"none", "unknown"},
   incident_response |-> c.compliance_status \in {"none", "planning"}]

AccessGaps(c) ==
  [vendor_questionnaire |-> c.questionnaire_experience = "stalled_deal",
   edr           |-> c.identity_model \in {"password_only", "mfa_only"},
   sso           |-> c.identity_model \in {"password_only", "mfa_only"},
   founder_trust |-> c.founder_profile_completed # Yes]

MailGaps(c) ==
  [dmarc |-> c.dmarc_policy \in {"missing", "none"},
   spf   |-> c.spf_policy \in {"missing", "open"}]

SectorGaps(c) ==
  [hipaa_security  |-> \/ c.sector = "healthcare"
                       \/ c.data_sensitivity = "Healthcare data",
   pci_dss         |-> \/ c.handles_payments \in {Yes, "true"}
                       \/ c.sector \in {"fintech", "ecommerce"},
   apra_prudential |-> c.sector = "financial_services" /\ c.geo_market \in {"AU", "Global"},
   essential_eight |-> c.sector = "government" \/ c.geo_market = "AU"]

\* gradeToNum(worst grade) < 8; a grade the table lacks (E) has no number.
GradeBelowEight(grade) == grade \in {"B", "C", "D", "F", "T", "M"}

PerimeterGaps(c) ==
  [security_headers  |-> c.has_hsts = No \/ c.has_csp = No,
   staging_exposure  |-> c.has_staging_exposure = Yes,
   domain_breach     |-> c.domain_in_breach = Yes,
   tls_configuration |-> \/ c.tls_is_current = No
                         \/ c.has_old_tls = Yes
                         \/ GradeBelowEight(c.ssl_grade)
                         \/ c.cert_expiry_days # Null /\ c.cert_expiry_days < 14]

PracticeGaps(c) ==
  [ai_governance       |-> c.uses_ai = Yes,
   data_privacy        |-> c.handles_personal_data = Yes,
   penetration_testing |-> /\ c.pen_test_completed # Yes
                           /\ c.compliance_status \in {"none", "planning", "unknown"},
   backup_dr           |-> c.has_backup # Yes]

CommercialGaps(c) ==
  [aws_program_eligibility |->
     /\ c.infrastructure = "aws" \/ c.cloud_provider = "aws"
     /\ c.aws_program_enrolled # Yes,
   microsoft_program_eligibility |->
     /\ c.infrastructure = "azure" \/ c.cloud_provider \in {"azure", "microsoft"}
     /\ c.microsoft_program_enrolled # Yes,
   ip_reputation |-> c.ip_is_abusive = Yes]

Sections(c) == <<AssuranceGaps(c), AccessGaps(c), MailGaps(c), SectorGaps(c),
                 PerimeterGaps(c), PracticeGaps(c), CommercialGaps(c)>>

(* GAP_DEFINITIONS.filter(gap => gap.triggerCondition(context)).           *)
Triggered(c) ==
  LET sections == Sections(c)
  IN UNION {{g \in DOMAIN sections[i] : sections[i][g]} : i \in 1..7}

GapId == UNION {DOMAIN Sections([f \in Field |-> Null])[i] : i \in 1..7}
----------------------------------------------------------------------------
Critical == {"soc2", "mfa", "cyber_insurance", "hipaa_security", "pci_dss",
             "apra_prudential", "domain_breach"}

Medium == {"sso", "spf", "security_headers", "tls_configuration",
           "aws_program_eligibility", "microsoft_program_eligibility"}

Severity(g) ==
  IF g \in Critical THEN "critical" ELSE IF g \in Medium THEN "medium" ELSE "high"

SEVERITY_WEIGHTS == [critical |-> 20, high |-> 10, medium |-> 5]

EligibilityGap == {"aws_program_eligibility", "microsoft_program_eligibility"}

\* observedBy: () => true, the probes' findings and the eligibilities.
AlwaysObserved ==
  {"dmarc", "spf", "security_headers", "staging_exposure", "domain_breach",
   "tls_configuration", "ip_reputation"} \cup EligibilityGap

(* What the founder said, for the gaps whose observedBy asks it. A gap with*)
(* no observedBy is never observed.                                        *)
FounderSaid(c) ==
  [soc2                 |-> c.compliance_status \in {"none", "planning"},
   mfa                  |-> c.identity_model = "password_only",
   cyber_insurance      |-> c.insurance_status = "none",
   vendor_questionnaire |-> c.questionnaire_experience = "stalled_deal",
   edr                  |-> c.identity_model \in {"password_only", "mfa_only"},
   sso                  |-> c.identity_model \in {"password_only", "mfa_only"},
   penetration_testing  |-> c.pen_test_completed = No,
   backup_dr            |-> c.has_backup = No]

Observed(c) ==
  LET said == FounderSaid(c)
  IN {g \in Triggered(c) : \/ g \in AlwaysObserved
                           \/ g \in DOMAIN said /\ said[g]}

(* 100 minus the weights of what was observed, never below zero.           *)
TrustScore(gaps) ==
  LET weighing(s) == SEVERITY_WEIGHTS[s] * Cardinality({g \in gaps : Severity(g) = s})
      penalty == weighing("critical") + weighing("high") + weighing("medium")
  IN IF penalty > 100 THEN 0 ELSE 100 - penalty
----------------------------------------------------------------------------
(* The fields a gap's triggerCondition and claimTemplate read.             *)
TriggerFields ==
  [soc2 |-> {"compliance_status", "customer_type", "infrastructure"},
   mfa |-> {"identity_model", "infrastructure"},
   cyber_insurance |-> {"insurance_status", "data_sensitivity"},
   incident_response |-> {"compliance_status", "customer_type"},
   vendor_questionnaire |-> {"questionnaire_experience", "compliance_status"},
   edr |-> {"identity_model", "infrastructure"},
   sso |-> {"identity_model", "customer_type"},
   founder_trust |-> {"founder_profile_completed", "stage", "customer_type"},
   dmarc |-> {"dmarc_policy", "spf_policy", "mx_provider"},
   spf |-> {"spf_policy", "dmarc_policy", "mx_provider"},
   hipaa_security |-> {"sector", "data_sensitivity", "compliance_status"},
   pci_dss |-> {"sector", "handles_payments", "compliance_status"},
   apra_prudential |-> {"sector", "geo_market", "compliance_status"},
   essential_eight |-> {"sector", "geo_market", "identity_model", "compliance_status"},
   security_headers |-> {"has_hsts", "has_csp"},
   staging_exposure |-> {"has_staging_exposure"},
   domain_breach |-> {"domain_in_breach"},
   tls_configuration |-> {"tls_is_current", "has_old_tls", "ssl_grade", "cert_expiry_days"},
   ai_governance |-> {"uses_ai", "product_type", "compliance_status"},
   data_privacy |-> {"handles_personal_data", "geo_market", "customer_type"},
   penetration_testing |-> {"pen_test_completed", "compliance_status"},
   backup_dr |-> {"has_backup", "infrastructure"},
   aws_program_eligibility |-> {"infrastructure", "cloud_provider", "aws_program_enrolled"},
   microsoft_program_eligibility |->
     {"infrastructure", "cloud_provider", "microsoft_program_enrolled"},
   ip_reputation |-> {"ip_is_abusive", "abuse_confidence_score"}]
----------------------------------------------------------------------------
(* The peer sentence of an absence: only for a cohort that was read, and   *)
(* only a pursuit that cohort usually goes for.                            *)
Cohort(c) ==
  CASE c.customer_type = "Enterprise (B2B)" -> "enterprise"
    [] c.customer_type = "SMB (B2B)" -> "smb"
    [] OTHER -> Null

FrameworkCohorts(framework) ==
  CASE framework = "soc2" -> {"banks", "enterprise", "mid_market"}

PeerCohorts ==
  [soc2 |-> FrameworkCohorts("soc2"),
   incident_response |-> {"enterprise", "smb"}, pci_dss |-> {"enterprise", "smb"},
   apra_prudential |-> {"banks"}, essential_eight |-> {"government"},
   ai_governance |-> {"enterprise", "smb"}, data_privacy |-> {"enterprise", "smb"},
   penetration_testing |-> {"enterprise", "smb"}, backup_dr |-> {"enterprise", "smb"}]

HasPeerLine(g, c) == g \in DOMAIN PeerCohorts /\ Cohort(c) \in PeerCohorts[g]
----------------------------------------------------------------------------
(* generateFrameworkImpact: the frameworks a gap is said to touch. Controls*)
(* and blockers are copy; which framework is named for whom is not.        *)
BaseFrameworks ==
  [soc2 |-> {"SOC 2"}, mfa |-> {"SOC 2", "ISO 27001"},
   cyber_insurance |-> {"Enterprise contracts"},
   incident_response |-> {"SOC 2", "ISO 27001"},
   vendor_questionnaire |-> {"Enterprise procurement"},
   edr |-> {"SOC 2", "ISO 27001"}, sso |-> {"SOC 2", "Enterprise procurement"},
   founder_trust |-> {"Fundraising due diligence"},
   dmarc |-> {"SOC 2", "ISO 27001"}, spf |-> {"ISO 27001"},
   hipaa_security |-> {"HIPAA"}, pci_dss |-> {"PCI DSS"},
   apra_prudential |-> {"APRA CPS 234"}, essential_eight |-> {"Essential Eight"},
   security_headers |-> {"SOC 2", "ISO 27001"},
   staging_exposure |-> {"SOC 2", "ISO 27001"},
   domain_breach |-> {"SOC 2", "Enterprise procurement"},
   tls_configuration |-> {"PCI DSS", "SOC 2"}]

\* An overlay is a set of <<framework, the gaps it stands on>>.
SectorOverlay(sector) ==
  CASE sector = "healthcare" ->
         {<<"HIPAA", {"mfa", "incident_response", "soc2", "dmarc", "edr", "cyber_insurance"}>>}
    [] sector = "fintech" ->
         {<<"PCI DSS", {"mfa", "incident_response", "soc2", "edr", "cyber_insurance"}>>}
    [] sector = "financial_services" ->
         {<<"APRA CPS 234", {"mfa", "incident_response", "soc2", "edr", "dmarc"}>>}
    [] sector = "government" ->
         {<<"Essential Eight", {"mfa", "edr", "incident_response", "dmarc", "spf"}>>,
          <<"IRAP", {"mfa", "incident_response", "soc2"}>>, <<"ACSC", {"dmarc"}>>}
    [] sector = "ecommerce" ->
         {<<"PCI DSS", {"mfa", "incident_response", "cyber_insurance"}>>}
    [] sector = "legal" ->
         {<<"Privacy Act 1988 (AU)", {"incident_response"}>>,
          <<"Legal Professional Privilege", {"mfa"}>>, <<"Legal sector", {"cyber_insurance"}>>}
    [] sector = "education" ->
         {<<"Privacy Act 1988 (AU)", {"incident_response"}>>, <<"FERPA", {"mfa"}>>}
    [] OTHER -> {}

GeoOverlay(geo) ==
  CASE geo = "AU" -> {<<"Privacy Act 1988", {"incident_response"}>>, <<"ACSC", {"dmarc"}>>,
                      <<"Essential Eight", {"edr", "mfa"}>>}
    [] geo = "SG" -> {<<"PDPA (Singapore)", {"incident_response"}>>, <<"MAS TRM", {"mfa"}>>}
    [] geo = "UK" -> {<<"UK GDPR", {"incident_response", "mfa", "cyber_insurance"}>>}
    [] geo = "US" -> {<<"State breach notification laws", {"incident_response"}>>}
    [] OTHER -> {}

PaymentsOverlay(c) ==
  IF c.handles_payments \in {Yes, "true"}
  THEN {<<"PCI DSS v4", {"mfa", "incident_response", "edr", "sso", "cyber_insurance"}>>}
  ELSE {}

\* "Treat as healthcare sector even if sector wasn't detected".
DataOverlay(data) ==
  CASE data = "Healthcare data" -> {<<"HIPAA", {"mfa", "incident_response", "edr", "dmarc"}>>}
    [] data = "Financial data" -> {<<"PCI DSS", {"mfa", "incident_response"}>>}
    [] OTHER -> {}

Frameworks(g, c) ==
  LET overlays == SectorOverlay(c.sector) \cup DataOverlay(c.data_sensitivity)
                  \cup GeoOverlay(c.geo_market) \cup PaymentsOverlay(c)
  IN (IF g \in DOMAIN BaseFrameworks THEN BaseFrameworks[g] ELSE {})
     \cup {o[1] : o \in {o \in overlays : g \in o[2]}}
=============================================================================
