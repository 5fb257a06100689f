---------------------------- MODULE VendorRules ----------------------------
(***************************************************************************)
(* The vendor catalog of config/vendors.js and what is chosen from it:     *)
(* selectVendors for the observed gaps of a reading, buildVendorIntel-     *)
(* ligence for every gap, and each vendor's primary route. Copy, prices    *)
(* and links are left out; the order of the catalog is kept, because a     *)
(* pick is the first vendor that fits.                                     *)
(***************************************************************************)
EXTENDS GapRules, Sequences, SequencesExt

\* stock: "native" to AWS, sold on its "market"place, or neither. partner: is_partner.
V(id, base, closes, partner, stock, party) ==
  [id |-> id, base |-> base, closes |-> closes, partner |-> partner,
   stock |-> stock, party |-> party]

Grc == <<
  V("aws_security_hub", "aws", {"soc2", "essential_eight", "incident_response"},
    FALSE, "native", "vendor"),
  V("vanta", "vanta",
    {"soc2", "incident_response", "pci_dss", "hipaa_security", "essential_eight",
     "data_privacy", "ai_governance", "penetration_testing", "backup_dr"},
    TRUE, "market", "john"),
  V("vanta_msp", "vanta",
    {"soc2", "incident_response", "data_privacy", "ai_governance", "penetration_testing"},
    TRUE, "none", "john"),
  V("drata", "drata", {"soc2", "incident_response", "pci_dss"}, TRUE, "market", "john"),
  V("secureframe", "secureframe", {"soc2"}, FALSE, "none", "john"),
  V("apollo_secure", "apollo", {"soc2", "data_privacy", "penetration_testing"},
    FALSE, "none", "john")>>

\* docusign closes nothing a gap definition names.
Trust == <<
  V("trustwave", "trustwave", {"soc2", "penetration_testing"}, FALSE, "none", "john"),
  V("reachlx", "reachlx", {"founder_trust"}, TRUE, "none", "john"),
  V("cognitiveview", "cognitiveview", {"ai_governance"}, FALSE, "none", "john")>>

\* keeper, jamf and cisco_umbrella close nothing a gap definition names.
Identity == <<
  V("aws_iam_identity_center", "aws", {"mfa", "sso"}, FALSE, "native", "vendor"),
  V("okta", "okta", {"mfa", "sso"}, FALSE, "market", "john"),
  V("cisco_duo", "cisco", {"mfa"}, TRUE, "market", "john"),
  V("microsoft", "microsoft", {"mfa", "sso"}, FALSE, "none", "john"),
  V("rsa", "rsa", {"mfa"}, FALSE, "none", "john")>>

\* fortinet, sonicwall and juniper close nothing a gap definition names.
Network == <<
  V("aws_waf", "aws", {"security_headers", "dmarc"}, FALSE, "native", "vendor"),
  V("cloudflare", "cloudflare",
    {"dmarc", "security_headers", "data_privacy", "ai_governance"}, TRUE, "none", "john"),
  V("palo_alto", "palo", {"edr"}, FALSE, "none", "john")>>

\* trellix, trendmicro and sophos close nothing a gap definition names.
Endpoint == <<V("crowdstrike", "crowdstrike", {"edr"}, FALSE, "market", "john")>>

\* cohesity, netapp, nutanix, veritas: nothing a gap definition names.
Backup == <<
  V("aws_backup", "aws", {"backup_dr"}, FALSE, "native", "vendor"),
  V("veeam", "veeam", {"backup_dr"}, FALSE, "none", "john")>>

\* opentext, proofpoint and blancco close nothing a gap definition names.
Programs == <<
  V("aws_programs", "aws", {"aws_program_eligibility"}, TRUE, "native", "john"),
  V("microsoft_programs", "microsoft", {"microsoft_program_eligibility"},
    TRUE, "none", "john"),
  V("austbrokers", "austbrokers", {"cyber_insurance"}, TRUE, "none", "john")>>

VENDORS == Grc \o Trust \o Identity \o Network \o Endpoint \o Backup \o Programs

Closers(g) == SelectSeq(VENDORS, LAMBDA v : g \in v.closes)
----------------------------------------------------------------------------
(* selectVendors.                                                          *)

Priority(v, gaps) ==
  LET closed == {Severity(g) : g \in v.closes \cap gaps}
  IN CASE "critical" \in closed -> 0 [] "high" \in closed -> 1 [] OTHER -> 2

CorpusConfirms(v, gaps, slugs) == \E g \in v.closes \cap gaps : v.base \in slugs[g]

(* A vendor that closes a gap of gaps goes to its tier; there, those the   *)
(* corpus confirms come first, and else as the catalog lists them.         *)
NoVendors == [at \in (0..2) \X BOOLEAN |-> << >>]

PutInTier(matched, v) ==
  LET at == <<Priority(v, matched.gaps), CorpusConfirms(v, matched.gaps, matched.slugs)>>
  IN  IF v.closes \cap matched.gaps = {} THEN matched
      ELSE [matched EXCEPT !.tier[at] = Append(@, v)]

SelectVendors(gaps, slugs) ==
  LET matched == FoldLeft(PutInTier, [gaps |-> gaps, slugs |-> slugs, tier |-> NoVendors], VENDORS)
      in(tier) == matched.tier[tier, TRUE] \o matched.tier[tier, FALSE]
  IN  in(0) \o in(1) \o in(2)

Ids(vendors) == {vendors[i].id : i \in DOMAIN vendors}
----------------------------------------------------------------------------
(* buildVendorIntelligence.                                                *)

Category(g) ==
  CASE g \in {"soc2", "incident_response", "pci_dss", "hipaa_security",
              "apra_prudential", "essential_eight"} -> "GRC"
    [] g = "founder_trust" -> "Founder trust"
    [] g \in {"mfa", "sso"} -> "Identity & IAM"
    [] g = "edr" -> "Endpoint protection"
    [] g \in {"dmarc", "spf", "security_headers", "tls_configuration"} -> "Network security"
    [] OTHER -> Null

HasIntelligence(g) == Category(g) # Null /\ Closers(g) # << >>

First(vendors, P(_)) == SelectSeq(vendors, P)[1]
Some(vendors, P(_)) == \E i \in DOMAIN vendors : P(vendors[i])

(* On AWS a native tool, then a partner on its marketplace; else a partner.*)
SelectPick(g, c) ==
  LET all == Closers(g)
      native(v) == v.stock = "native"
      market(v) == v.partner /\ v.stock = "market"
      partner(v) == v.partner
      aws == c.cloud_provider = "AWS"
  IN CASE aws /\ Some(all, native) -> First(all, native)
       [] aws /\ ~Some(all, native) /\ Some(all, market) -> First(all, market)
       [] ~(aws /\ (Some(all, native) \/ Some(all, market))) /\ Some(all, partner) ->
            First(all, partner)
       [] OTHER -> all[1]

(* is_pick, vendor by vendor: the entry's id against the pick's vendor_id, *)
(* a key the catalog's entries do not have.                                *)
MarkedPick(g, c) ==
  LET pick == SelectPick(g, c)
      vendor_id == IF "vendor_id" \in DOMAIN pick THEN pick.vendor_id ELSE Null
  IN {v.id : v \in {v \in Range(Closers(g)) : v.id = vendor_id}}

AlreadyInUse(v, c) ==
  v.id = "cloudflare" /\ (c.cdn_provider = "Cloudflare" \/ c.waf_detected = "Cloudflare WAF")

\* A pick already in use is never offered with a deal or a referral link.
PickCard(g, c) ==
  LET v == SelectPick(g, c)
  IN [gap |-> g, vendor |-> v.id, already_using |-> AlreadyInUse(v, c),
      referral |-> ~AlreadyInUse(v, c) /\ v.partner]
=============================================================================
