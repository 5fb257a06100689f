----------------------------- MODULE MCReading -----------------------------
(* Instances of Reading for TLC: one clean site, and every site that       *)
(* differs from it by one or two probe answers, by one signal read, or by  *)
(* one of each.                                                            *)
EXTENDS Reading

How(h) == [how |-> h]
Safe == {"strict-transport-security", "content-security-policy"}
Hop(headers, protocol, days) ==
  [public |-> TRUE, answers |-> TRUE,
   page |-> [headers |-> headers, protocol |-> protocol, days |-> days]]
Silent == [public |-> TRUE, answers |-> FALSE]
Inside == [public |-> FALSE, answers |-> TRUE]
Over(hops) == [how |-> "asked", hops |-> hops]
CleanHop == Hop(Safe, "TLSv1.3", 60)
BehindCloudflare == Hop({"content-security-policy", "server: cloudflare"}, "TLSv1.2", 60)
Dns(dmarc, spf) == [how |-> "answered", dmarc |-> dmarc, spf |-> spf]
IpOf(org, cf) == [how |-> "resolved", org |-> org, cloudflare |-> cf]
HibpOf(a, b) == [how |-> "asked", accounts |-> a, breaches |-> b]
Ssl(grade, old) == [how |-> "ready", grade |-> grade, old |-> old]
Score(n) == [how |-> "asked", score |-> n]

CleanProbe ==
  [dns |-> Dns("reject", "strict"), http |-> Over(<<CleanHop>>),
   certs |-> [how |-> "listed", staging |-> No], ip |-> IpOf("GCP", FALSE),
   github |-> How("none"), jobs |-> How("none"), hibp |-> HibpOf(No, No),
   ports |-> How("off"), ssllabs |-> Ssl("A", No), abuseipdb |-> Score(0)]

Answers ==
  [dns |-> {How("timeout"), Dns("fail", "missing"), Dns("missing", "fail"), Dns("none", "open")},
   http |-> {How("timeout"), Over(<<Silent>>), Over(<<CleanHop, Inside>>),
             Over(<<BehindCloudflare>>), Over(<<CleanHop, Hop(Safe, "TLSv1.1", 60)>>),
             Over(<<Hop(Safe \cup {"cf-ray"}, "TLSv1.2", 13)>>)},
   certs |-> {How("timeout"), How("fail"), [how |-> "listed", staging |-> Yes]},
   ip |-> {How("timeout"), How("unresolved"), IpOf("AWS", FALSE), IpOf(Null, TRUE)},
   hibp |-> {How("timeout"), How("no key"), HibpOf(Yes, "fail"), HibpOf("fail", "fail")},
   ssllabs |-> {How("timeout"), How("not ready"), Ssl("B", No), Ssl("A", Yes)},
   abuseipdb |-> {How("timeout"), How("no key"), How("fail"), Score(24), Score(25)}]

CleanText == [f \in SignalField |-> Null]
Signals ==
  {<<"sector", "healthcare">>, <<"sector", "government">>, <<"sector", "fintech">>,
   <<"geo_market", "AU">>, <<"data_sensitivity", "Healthcare data">>,
   <<"customer_type", "Enterprise (B2B)">>, <<"infrastructure", "AWS">>,
   <<"handles_payments", Yes>>, <<"uses_ai", Yes>>, <<"has_backup", Yes>>}

NotPublic == [s \in DOMAIN CleanProbe |-> How("not public")]

Deviates(probe, s) == {[probe EXCEPT ![s] = a] : a \in Answers[s]}
OneOff == UNION {Deviates(CleanProbe, s) : s \in DOMAIN Answers}

\* Sources whose answers meet: in one gap, or in the host named.
Unread == {[CleanProbe EXCEPT !["http"] = h] : h \in {How("timeout"), Over(<<Silent>>)}}
Edged == [CleanProbe EXCEPT !["http"] = Over(<<BehindCloudflare>>)]
TwoOff == UNION {Deviates(p, "ssllabs") : p \in Unread} \cup Deviates(Edged, "ip")

Texts(signals) == {[CleanText EXCEPT ![s[1]] = s[2]] : s \in signals}
Correctable == {s \in Signals : s[1] \in {"customer_type", "data_sensitivity", "infrastructure"}}
SitesOf(texts, sure, probes) ==
  {[text |-> t, sure |-> sure, probe |-> p] : t \in texts, p \in probes}

SiteSet ==
  SitesOf({CleanText}, TRUE, {NotPublic} \cup TwoOff \cup OneOff)
  \cup SitesOf(Texts(Signals), TRUE, {CleanProbe})
  \cup SitesOf(Texts(Correctable), FALSE, {CleanProbe})
  \cup SitesOf({[CleanText EXCEPT !["infrastructure"] = "AWS"]}, TRUE, Deviates(CleanProbe, "ip"))
  \cup SitesOf({[CleanText EXCEPT !["data_sensitivity"] = "Healthcare data"],
                [CleanText EXCEPT !["sector"] = "government"]}, TRUE, Deviates(CleanProbe, "dns"))

(* The founder's word, as the TEXT column holds it.                        *)
Overrides == {<<"identity_model", "password_only">>, <<"has_hsts", "false">>,
              <<"compliance_status", "none">>}

SlugSets == {[g \in GapId |-> {"cloudflare"}]}
=============================================================================
