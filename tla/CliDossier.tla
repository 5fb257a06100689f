----------------------------- MODULE CliDossier -----------------------------
(***************************************************************************)
(* What the command line (cli.mjs) makes of what it finds of a company and *)
(* of what the founder answers: the context, the gaps with the strength of *)
(* their evidence, the score and the AWS programs.                         *)
(*                                                                         *)
(* A company is a record: pages, how many of the five pages could be read; *)
(* text, the value the model extracted for each signal field, Null when    *)
(* the call failed; web, the web intelligence in the same form; probe, how *)
(* each source's lookups ended (see Probes).                               *)
(***************************************************************************)
EXTENDS Probes, ProgramRules, Sequences

CONSTANT Company   \* the companies that may be given to the command line

Unknown == "Unknown"
Told(v) == v \notin {Null, Unknown}
----------------------------------------------------------------------------
(* The traces: what a source reports, and what the ledger then says of it. *)

\* Every DNS lookup catches its failure as an empty answer: a failed one is missing.
TraceDns(a) ==
  LET policy(p) == IF p = "fail" THEN "missing" ELSE p
  IN Says([dmarc_policy |-> policy(a.dmarc), spf_policy |-> policy(a.spf),
           mx_provider |-> "custom"])

\* Only the cached grade is asked for: nothing is said of old protocols.
TraceSslLabsCached(a) ==
  CASE a.how = "not ready" -> Skipped [] a.how = "timeout" -> Failed
    [] OTHER -> Says([ssl_grade |-> a.grade])

(* Nothing is cut after 12 seconds: each lookup runs to its own end, and a *)
(* name server or a host that never answers is a failed lookup of dns or a *)
(* silent hop of http, never a "timeout" of either.                        *)
Trace(s, a) ==
  CASE s = "dns" -> TraceDns(a)
    [] s = "ssllabs" -> TraceSslLabsCached(a)
    [] s = "ports" -> Says(<< >>)
    [] OTHER -> Recon(s, a)

TraceRecon(of) == [s \in Source |-> Trace(s, of.probe[s])]

(* withTrace: an error is FAIL, anything else RX. Only a source without its*)
(* key is skipped; an SSL Labs answer that is not ready counts as received.*)
LedgerStatus(s, result) ==
  CASE result.kind = "error" -> "failed"
    [] result.kind = "skipped" /\ s \in {"hibp", "abuseipdb"} -> "skipped"
    [] OTHER -> "ok"

(* traceVector: without a page the model is not asked; a call that fails   *)
(* leaves the fallback, which names a product and a customer type.         *)
VectorAttempted(of) == of.pages > 0
VectorOk(of) == VectorAttempted(of) /\ of.text # Null

FallbackExtraction ==
  [product_type |-> "Software product", customer_type |-> "Enterprise (B2B)"]

Extraction(of) == IF VectorOk(of) THEN of.text ELSE FallbackExtraction

WebOk(of) == of.web # Null
WebSignals(of) == IF WebOk(of) THEN of.web ELSE << >>
----------------------------------------------------------------------------
\* The signals the model is asked for; the host is not among them.
ExtractionKey ==
  {"product_type", "customer_type", "data_sensitivity", "stage", "sector", "geo_market",
   "handles_payments", "uses_ai", "handles_personal_data"}
WebIntelKey == {"stage", "sector", "geo_market"}

AskedOnlyField == {"has_raised_institutional", "abn_entity_type"}
CliField == Field \cup AskedOnlyField

At(r, f) == IF f \in DOMAIN r THEN r[f] ELSE Null

(* buildBaseContext: the probes first, then the first signal of a type, the*)
(* page's before the web's; the host the probes name is the infrastructure.*)
baseContexts == [of \in Company |->
  LET probed == extractReconContext(TraceRecon(of))
      signal(f) ==
        CASE f \in ExtractionKey /\ Told(At(Extraction(of), f)) -> At(Extraction(of), f)
          [] /\ f \in WebIntelKey /\ Told(At(WebSignals(of), f))
             /\ ~Told(At(Extraction(of), f)) -> At(WebSignals(of), f)
          [] OTHER -> Null
      first == [f \in CliField |-> IF At(probed, f) # Null THEN At(probed, f) ELSE signal(f)]
  IN IF first.infrastructure # Null THEN first
     ELSE [first EXCEPT !.infrastructure = first.cloud_provider]]

BaseContext(of) == baseContexts[of]

(* What the founder is asked to confirm of a field.                        *)
Guess(of, f) ==
  LET read == At(Extraction(of), f)
      base == BaseContext(of)
      told == IF base[f] # Null THEN base[f] ELSE read
  IN CASE f \in {"product_type", "customer_type"} ->
            IF read # Null THEN read ELSE FallbackExtraction[f]
       [] f \in {"stage", "sector", "geo_market"} -> IF Told(told) THEN told ELSE Unknown
       [] f = "infrastructure" -> IF base[f] # Null THEN base[f] ELSE Unknown

(* The end of collectFounderContext: the answers over the base context, no *)
(* compliance found is "none", and an unknown infrastructure is no value.  *)
FounderContext(of, answers) ==
  LET base == BaseContext(of)
      said == [f \in CliField |-> IF f \in DOMAIN answers THEN answers[f].value ELSE base[f]]
  IN [said EXCEPT !.compliance_status = IF @ = Null THEN "none" ELSE @,
                  !.infrastructure = IF @ = Unknown THEN Null ELSE @]

FieldStates(answers) ==
  [f \in DOMAIN answers |-> answers[f].state] ## [compliance_status |-> "probable"]
----------------------------------------------------------------------------
GAP_DEPENDENCIES ==
  [soc2 |-> {"compliance_status"}, mfa |-> {"identity_model"},
   cyber_insurance |-> {"insurance_status"}, incident_response |-> {"compliance_status"},
   vendor_questionnaire |-> {"questionnaire_experience"},
   edr |-> {"identity_model"}, sso |-> {"identity_model"},
   founder_trust |-> {"founder_profile_completed"},
   dmarc |-> {"dmarc_policy"}, spf |-> {"spf_policy"},
   hipaa_security |-> {"sector", "data_sensitivity"},
   pci_dss |-> {"handles_payments", "sector"},
   apra_prudential |-> {"sector", "geo_market"}, essential_eight |-> {"sector", "geo_market"},
   security_headers |-> {"has_hsts", "has_csp"},
   staging_exposure |-> {"has_staging_exposure"}, domain_breach |-> {"domain_in_breach"},
   tls_configuration |-> {"tls_is_current", "has_old_tls", "ssl_grade", "cert_expiry_days"},
   ai_governance |-> {"uses_ai"}, data_privacy |-> {"handles_personal_data"},
   penetration_testing |-> {"pen_test_completed", "compliance_status"},
   backup_dr |-> {"has_backup"},
   aws_program_eligibility |-> {"infrastructure", "cloud_provider", "aws_program_enrolled"},
   ip_reputation |-> {"ip_is_abusive"}]

(* Mutant: the entry of penetration testing names one of its two fields.   *)
DependenciesForgottenTest(g) ==
  CASE g = "penetration_testing" -> {"compliance_status"}
    [] g \in DOMAIN GAP_DEPENDENCIES -> GAP_DEPENDENCIES[g]
    [] OTHER -> {}

\* microsoft_program_eligibility has no entry.
Dependencies(g) == IF g \in DOMAIN GAP_DEPENDENCIES THEN GAP_DEPENDENCIES[g] ELSE {}

EVIDENCE_SOURCE_BY_GAP ==
  [dmarc |-> "dns", spf |-> "dns", security_headers |-> "http",
   tls_configuration |-> "http", staging_exposure |-> "certs",
   domain_breach |-> "hibp", ip_reputation |-> "abuseipdb"]

ANSWER_GAPS == {"mfa", "sso", "edr", "cyber_insurance", "penetration_testing",
                "backup_dr", "aws_program_eligibility"}

UnverifiedFields(g, context, states) ==
  {f \in Dependencies(g) : At(states, f) = "not_sure" \/ context[f] = Null}

Strength(g, context, states) ==
  IF UnverifiedFields(g, context, states) # {} THEN "UNVERIFIED"
  ELSE IF g \in DOMAIN EVIDENCE_SOURCE_BY_GAP THEN "HIGH" ELSE "PROBABLE"

(* analyseGaps: the gaps shown, each with its strength. A gap only an      *)
(* answer could settle is shown although it did not trigger.               *)
AnalyseGaps(context, states) ==
  LET unasked == {g \in ANSWER_GAPS : UnverifiedFields(g, context, states) # {}}
  IN [g \in Triggered(context) \cup unasked |-> Strength(g, context, states)]

CliScore(gaps) == TrustScore({g \in DOMAIN gaps : gaps[g] # "UNVERIFIED"})

AWS_PROGRAMS ==
  [p \in DOMAIN AwsStartupCredits \cup DOMAIN AwsPartnerAndFunding \cup DOMAIN AwsSectors |->
     PROGRAMS[p]]

StateOf(f, context, states) ==
  IF f \in DOMAIN states THEN states[f]
  ELSE IF context[f] = Null THEN "not_asked" ELSE "probable"

(* evaluateAwsPrograms: "possible" when a trigger rests on weak evidence.  *)
EvaluateAwsPrograms(context, states) ==
  LET known == [f \in {f \in CliField : context[f] # Null} |-> context[f]]
      weak(p) == \E t \in AWS_PROGRAMS[p] :
                   StateOf(t.field, context, states) \in {"not_sure", "probable", "not_asked"}
  IN [p \in MatchedPrograms(known) \cap DOMAIN AWS_PROGRAMS |->
        IF weak(p) THEN "possible" ELSE "eligible"]

(* printEvidenceQuality: nothing read and nothing useful from a model.     *)
EvidencePoor(of) == of.pages = 0 /\ ~VectorOk(of) /\ ~WebOk(of)

Dossier(of, context, states) ==
  LET gaps == AnalyseGaps(context, states)
  IN [gaps |-> gaps, score |-> CliScore(gaps), poor |-> EvidencePoor(of),
      programs |-> EvaluateAwsPrograms(context, states)]
=============================================================================
