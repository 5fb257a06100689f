------------------------------ MODULE Reading ------------------------------
(***************************************************************************)
(* What one site's reading says of it, by the two engines that say it: the *)
(* analysis of the session record (context-normalizer.js, gap-mapper.js)   *)
(* and the recompute kernel over the Postgres rows (recompute.js). Both    *)
(* start from one extraction: the signals a model read off the pages, and  *)
(* the reconnaissance probes, each of which may answer, fail or be skipped.*)
(*                                                                         *)
(* The extraction's own steps are ColdRead's; here it is one step, because *)
(* the session record is written once, when all of it is known.            *)
(***************************************************************************)
EXTENDS VendorRules, Probes

CONSTANTS
  Sites,      \* what may be found of the site: [text, sure, probe], see below
  Override,   \* <<field, value>> pairs a founder may override, values as text
  Slugs       \* what the corpus search may answer: [GapId -> SUBSET vendor names]

ASSUME SiteAssumption == Null \notin Sites

\* text: the value of each signal field, Null where the pages do not say; sure:
\* the model's confidence is not "probable"; probe: for each source a record
\* with "how" its lookups ended and what they answered.

VARIABLES
  site,       \* the site being read, Null before
  recon,      \* session.recon_context: what the pipeline made of its probes
  analysis,   \* what runGapAnalysis left on the session, Null before
  stored,     \* recon_outputs.payload, by source
  toStore,    \* persistExtractionResults has still to come to these
  current,    \* signals.current_value, by field
  class,      \* gaps.veritas_class, by gap
  published   \* sessions.status = 'tier2_published'

readingVars == <<site, recon, analysis, stored, toStore, current, class, published>>

Nothing == [f \in Field |-> Null]
----------------------------------------------------------------------------
(* The analysis: normalizeContext over the session record.                 *)

\* "value (probable)": a text no rule compares with.
Hedged == "probable"
Inferred(of, f) == IF of.sure THEN of.text[f] ELSE Hedged

(* correctable_fields: the probe names the host before the pages do, and   *)
(* the edge when neither does.                                             *)
CorrectableFields(of, probed) ==
  LET host == IF probed.cloud_provider # Null THEN probed.cloud_provider
              ELSE probed.hosting_provider
      edge == probed.cdn_provider
  IN [infrastructure |->
        CASE host # Null -> host
          [] host = Null /\ of.text.infrastructure # Null -> Inferred(of, "infrastructure")
          [] host = Null /\ of.text.infrastructure = Null /\ edge # Null -> "Behind an edge"
          [] OTHER -> "Unknown"]
     ## [f \in {f \in {"customer_type", "data_sensitivity"} : of.text[f] # Null} |->
           Inferred(of, f)]

\* product_type is read and shown, and not passed through.
PassthroughSignals == SignalField \ {"product_type"}

(* Corrections and answers are never passed: the correctable fields hold   *)
(* what was inferred, compliance is 'unknown' for want of a signal, and    *)
(* what the probes say is put over all of it, null included.               *)
normalizeContext ==
  LET probed == extractReconContext(recon)
  IN probed ## CorrectableFields(site, probed) ## [compliance_status |-> "unknown"]
     ## [f \in PassthroughSignals |-> site.text[f]] ## Nothing

runGapAnalysis(c, slugs) ==
  LET all == Triggered(c)
      seen == Observed(c)
      charted == {g \in all : HasIntelligence(g)}
  IN [triggered |-> all, observed |-> seen, trust_score |-> TrustScore(seen),
      vendors |-> Ids(SelectVendors(seen, slugs)),
      picks |-> {PickCard(g, c) : g \in charted},
      marked |-> {MarkedPick(g, c) : g \in charted},
      framed |-> UNION {Frameworks(g, c) : g \in all},
      peers |-> {g \in all \ seen : HasPeerLine(g, c)}]
----------------------------------------------------------------------------
(* The recompute kernel over the rows.                                     *)

(* buildContext: the overridden values, then every stored payload as it is *)
(* over them. An inferred row's current_value is NULL and says nothing.    *)
buildContext == Gather(stored) ## current ## Nothing

(* applyVeritasRenderMapping: what was inferred or unknown buys nothing.   *)
(* Mutant: only UNKNOWN is left out.                                       *)
MatrixIncludedInferred(gaps) ==
  {g \in gaps : g \in DOMAIN class => class[g] # "UNKNOWN"}

MatrixIncluded(gaps) == {g \in gaps : g \in DOMAIN class => class[g] = "ATTESTED"}

NoSlugs == [g \in GapId |-> {}]

triggered == Triggered(buildContext)
observed == Observed(buildContext)

\* The tier boundary: the score and the vendors are for a published session.
recommended ==
  IF ~published THEN {}
  ELSE LET gaps == MatrixIncluded(observed) IN ToSet(SelectVendors(gaps, NoSlugs))
----------------------------------------------------------------------------
ReadingInit ==
  /\ site = Null /\ analysis = Null
  /\ recon = Null /\ stored = << >> /\ toStore = << >>
  /\ current = [f \in {} |-> Null]
  /\ class = [g \in {} |-> Null] /\ published = FALSE

(* Mutant: a source of the pipeline is missing from the list to store.     *)
RECON_SOURCESWithoutSsl == <<"dns", "http", "certs", "ip", "github", "jobs", "hibp", "ports",
                             "abuseipdb">>

RECON_SOURCES == <<"dns", "http", "certs", "ip", "github", "jobs", "hibp", "ports",
                   "ssllabs", "abuseipdb">>

\* Only a source that failed is left out: a skipped one has a payload.
Worth(s) == recon[s].kind # "error"

(* The extraction ends: the session record is complete and the rows are    *)
(* still to be written, unawaited.                                         *)
ReadSite ==
  /\ site = Null
  /\ \E of \in Sites : site' = of /\ recon' = runReconPipeline(of)
  /\ toStore' = RECON_SOURCES
  /\ UNCHANGED <<analysis, stored, current, class, published>>

Persist ==
  /\ toStore # << >> /\ toStore' = Tail(toStore)
  /\ LET s == Head(toStore)
     IN  stored' = IF Worth(s) THEN [x \in {s} |-> recon[s].said] ## stored ELSE stored
  /\ UNCHANGED <<site, recon, analysis, current, class, published>>

\* A failed insert is logged, and nothing after it is tried.
PersistFails ==
  /\ toStore # << >> /\ Worth(Head(toStore)) /\ toStore' = << >>
  /\ UNCHANGED <<site, recon, analysis, stored, current, class, published>>

(* The analysis runs once: a session with a trust score is not analysed    *)
(* again. The corpus search may be down, or confirm vendors.               *)
Analyze ==
  /\ site # Null /\ analysis = Null
  /\ \E slugs \in Slugs : analysis' = runGapAnalysis(normalizeContext, slugs)
  /\ UNCHANGED <<site, recon, stored, toStore, current, class, published>>

OverrideField ==
  /\ site # Null
  /\ \E o \in Override : o[1] \notin DOMAIN current /\ current' = o[1] :> o[2] @@ current
  /\ UNCHANGED <<site, recon, analysis, stored, toStore, class, published>>

(* Publish attests the gap rows it finds. No code of the repository writes *)
(* those rows; they are taken to be the gaps the kernel triggers.          *)
AttestAndPublish ==
  /\ site # Null /\ ~published
  /\ \E k \in {"ATTESTED", "INFERRED", "UNKNOWN"} : class' = [g \in triggered |-> k]
  /\ DOMAIN class' # {}
  /\ published' = TRUE
  /\ UNCHANGED <<site, recon, analysis, stored, toStore, current>>

ReadingNext ==
  \/ ReadSite \/ Persist \/ PersistFails \/ Analyze
  \/ OverrideField \/ AttestAndPublish

ReadingSpec == ReadingInit /\ [][ReadingNext]_readingVars
----------------------------------------------------------------------------
ProbeGap == AlwaysObserved \ EligibilityGap

\* The sources a probe's gap can be seen by.
SeenBy(g) ==
  CASE g \in {"dmarc", "spf"} -> {"dns"}
    [] g = "security_headers" -> {"http"}
    [] g = "staging_exposure" -> {"certs"}
    [] g = "domain_breach" -> {"hibp"}
    [] g = "tls_configuration" -> {"http", "ssllabs"}
    [] g = "ip_reputation" -> {"abuseipdb"}

\* What a source returned of a gap though nothing answered its lookup. Not
\* security_headers: the page nobody fetched is a page without headers.
Unspoken(g, s, a) ==
  \/ g = "dmarc" /\ a.dmarc = "fail"
  \/ g = "spf" /\ a.spf = "fail"
  \/ g = "tls_configuration" /\ s = "http" /\ ~Reached(a.hops)

Answered(g) ==
  {s \in SeenBy(g) : recon[s].kind = "ok" /\ ~Unspoken(g, s, site.probe[s])}

(* A lookup that failed, was skipped or ran out of time never puts a gap to*)
(* the company: a gap only a probe can see is triggered, by either engine, *)
(* only when a source that sees it was really answered (BRAIN.md law 5).   *)
(* The exception is security_headers, which only the 12-second limit or a  *)
(* host that is not public spares: of a host that never answers, or that   *)
(* redirects to nowhere, recon-http.js:44-47 says has_hsts and has_csp are *)
(* false, and the gap follows.                                             *)
NoVerdictFromSilence ==
  /\ analysis # Null => \A g \in ProbeGap \cap analysis.triggered : Answered(g) # {}
  /\ site # Null => \A g \in ProbeGap \cap triggered :
       TriggerFields[g] \cap DOMAIN current = {} => Answered(g) \cap DOMAIN stored # {}

(* The session record and the Postgres rows tell the same story: once every*)
(* source is stored, the two engines trigger the same probe gaps, although *)
(* one reads a flattened context and the other the raw payloads. Not so for*)
(* ip_reputation, whose flag only the flattening computes.                 *)
SameProbesSameGaps ==
  analysis # Null /\ DOMAIN stored = {s \in ToSet(RECON_SOURCES) : Worth(s)} =>
    LET probed == {g \in ProbeGap \ {"ip_reputation"} : TriggerFields[g] \cap DOMAIN current = {}}
    IN analysis.triggered \cap probed = triggered \cap probed

(* A vendor is recommended on the published page only for a gap that was   *)
(* observed and that VERITAS did not call inferred or unknown.             *)
UnattestedBuysNoVendor ==
  published =>
    LET attested == {g \in DOMAIN class : class[g] = "ATTESTED"}
        buying == observed \ (DOMAIN class \ attested)
    IN \A v \in recommended : v.closes \cap buying # {}
=============================================================================
