------------------------------- MODULE Probes -------------------------------
(***************************************************************************)
(* The reconnaissance probes (services/recon-*.js) and the flattening of   *)
(* what they answered into the context the gap rules read                  *)
(* (recon-pipeline.js). The API runs them all at once behind a 12-second   *)
(* limit; the command line runs the same probes one after another, with    *)
(* its own DNS and SSL Labs lookups, and records each in its ledger.       *)
(***************************************************************************)
EXTENDS GapRules, SequencesExt, TLC

Source == {"dns", "http", "certs", "ip", "github", "jobs", "hibp", "ports",
           "ssllabs", "abuseipdb"}
----------------------------------------------------------------------------
(* The probes: what each source returns for what its lookups answered. A   *)
(* source that times out after 12 seconds is an error; ports never runs.   *)

Failed == [kind |-> "error", said |-> << >>]
Skipped == [kind |-> "skipped", said |-> << >>]
Says(fields) == [kind |-> "ok", said |-> fields]

\* A lookup that failed is 'unknown'; only a real absence is 'missing'.
ReconDns(a) ==
  Says([dmarc_policy |-> IF a.dmarc = "fail" THEN "unknown" ELSE a.dmarc,
        spf_policy   |-> IF a.spf = "fail" THEN "unknown" ELSE a.spf,
        mx_provider  |-> "custom"])

(* a.hops are the hosts that answered, the site's own first, then those it *)
(* redirected to: however many (the comment says one), each a public host. *)
(* No answer, or a redirect to nowhere, is a page without headers.         *)
NoPage == [headers |-> {}, protocol |-> Null, days |-> Null]

Reached(hops) == hops[Len(hops)].answers /\ \A i \in 2..Len(hops) : hops[i].public

FetchWithCert(hops) == IF Reached(hops) THEN hops[Len(hops)].page ELSE NoPage

IsTlsCurrent(protocol) ==
  IF protocol = Null THEN Null ELSE IF protocol \in {"TLSv1.3", "TLSv1.2"} THEN Yes ELSE No

\* The headers a provider is known by, in the order they are looked for.
CdnMarks ==
  <<[by |-> {"cf-ray", "server: cloudflare"}, is |-> "Cloudflare"],
    [by |-> {"x-amz-cf-id", "x-amz-cf-pop", "via: CloudFront"}, is |-> "AWS CloudFront"],
    [by |-> {"fastly-restarts", "x-served-by: cache"}, is |-> "Fastly"],
    [by |-> {"x-akamai-transformed", "server: akamai"}, is |-> "Akamai"],
    [by |-> {"x-azure-ref"}, is |-> "Azure CDN"], [by |-> {"x-cache: hit"}, is |-> "CDN (unknown)"]>>
WafMarks ==
  <<[by |-> {"x-sucuri-id"}, is |-> "Sucuri"], [by |-> {"x-cdn: imperva", "x-iinfo"}, is |-> "Imperva"],
    [by |-> {"cf-ray"}, is |-> "Cloudflare WAF"], [by |-> {"x-waf-status"}, is |-> "WAF (unknown)"]>>

Detect(marks, headers, none) ==
  LET i == SelectInSeq(marks, LAMBDA mark : mark.by \cap headers # {})
  IN  IF i = 0 THEN none ELSE marks[i].is

ReconHttp(a) ==
  LET page == FetchWithCert(a.hops)
      Has(header) == IF header \in page.headers THEN Yes ELSE No
  IN  Says([has_hsts |-> Has("strict-transport-security"), has_csp |-> Has("content-security-policy"),
            tls_is_current |-> IsTlsCurrent(page.protocol), cert_expiry_days |-> page.days,
            cdn_provider |-> Detect(CdnMarks, page.headers, Null),
            waf_detected |-> Detect(WafMarks, page.headers, No)])

ReconCerts(a) ==
  IF a.how = "fail" THEN Failed ELSE Says([has_staging_exposure |-> a.staging])

\* Without an enrichment nothing names the host; Cloudflare's addresses hide it.
ReconIp(a) ==
  IF a.how = "unresolved" THEN Failed
  ELSE Says([cloud_provider |-> a.org,
             hosting_provider |-> IF a.cloudflare THEN "Cloudflare" ELSE a.org])

\* Two queries; one that fails counts as an empty answer.
ReconHibp(a) ==
  IF a.how = "no key" THEN Skipped
  ELSE Says([domain_in_breach |-> IF Yes \in {a.accounts, a.breaches} THEN Yes ELSE No])

ReconSslLabs(a) ==
  IF a.how = "not ready" THEN Skipped
  ELSE Says([ssl_grade |-> a.grade, has_old_tls |-> a.old])

ReconAbuseIpdb(a) ==
  CASE a.how = "no key" -> Skipped [] a.how = "fail" -> Failed
    [] OTHER -> Says([abuse_confidence_score |-> a.score])

(* safe(): a source that takes longer than 12 seconds is an error, and a   *)
(* host that is not public is not probed at all. Ports is disabled; github *)
(* and jobs say nothing a gap reads.                                       *)
Recon(s, a) ==
  CASE a.how = "timeout" -> Failed
    [] a.how = "not public" \/ s = "ports" -> Skipped
    [] OTHER -> CASE s = "dns" -> ReconDns(a)
                  [] s = "http" -> ReconHttp(a)
                  [] s = "certs" -> ReconCerts(a)
                  [] s = "ip" -> ReconIp(a)
                  [] s = "hibp" -> ReconHibp(a)
                  [] s = "ssllabs" -> ReconSslLabs(a)
                  [] s = "abuseipdb" -> ReconAbuseIpdb(a)
                  [] OTHER -> Says(<< >>)

runReconPipeline(of) == [s \in Source |-> Recon(s, of.probe[s])]

(* Mutant: what is missing is false, whatever the field.                   *)
SaidOrFalse(entry, f, default) ==
  IF f \in DOMAIN entry.said THEN entry.said[f] ELSE IF default = Null THEN No ELSE default

Said(entry, f, default) == IF f \in DOMAIN entry.said THEN entry.said[f] ELSE default

HttpField == {"has_hsts", "has_csp", "tls_is_current", "cert_expiry_days",
              "cdn_provider", "waf_detected"}

(* A record's fields over another's.                                       *)
over ## under ==
  [f \in DOMAIN over \cup DOMAIN under |-> IF f \in DOMAIN over THEN over[f] ELSE under[f]]

(* What the sources say of a site, all together: no two say the same field.*)
Gather(said) ==
  [f \in UNION {DOMAIN said[s] : s \in DOMAIN said} |->
     said[CHOOSE s \in DOMAIN said : f \in DOMAIN said[s]][f]]

(* extractReconContext: which default a source that failed or was skipped  *)
(* leaves is chosen source by source.                                      *)
Flatten(s, entry) ==
  CASE s = "dns" -> entry.said
    [] s = "http" -> [f \in HttpField |-> Said(entry, f, Null)]
    [] s = "certs" -> [has_staging_exposure |-> Said(entry, "has_staging_exposure", No)]
    [] s = "ip" -> [f \in {"cloud_provider", "hosting_provider"} |-> Said(entry, f, Null)]
    [] s = "hibp" /\ entry.kind # "skipped" ->
         [domain_in_breach |-> Said(entry, "domain_in_breach", No)]
    [] s = "ssllabs" /\ entry.kind # "skipped" ->
         [f \in {"ssl_grade", "has_old_tls"} |-> Said(entry, f, Null)]
    [] s = "abuseipdb" /\ entry.kind = "ok" ->
         LET score == Said(entry, "abuse_confidence_score", 0)
         IN  [abuse_confidence_score |-> score, ip_is_abusive |-> IF score >= 25 THEN Yes ELSE No]
    [] OTHER -> << >>

extractReconContext(p) == Gather([s \in Source |-> Flatten(s, p[s])])
=============================================================================
