------------------------------- MODULE MCCli -------------------------------
(* Instances of Cli for TLC: companies that differ in what was read, what  *)
(* the probes answered and what a program or a sector rule turns on.       *)
EXTENDS Cli

How(h) == [how |-> h]
CleanHop ==
  [public |-> TRUE, answers |-> TRUE,
   page |-> [headers |-> {"strict-transport-security", "content-security-policy"},
             protocol |-> "TLSv1.3", days |-> 60]]
Silent == [how |-> "asked", hops |-> <<[public |-> TRUE, answers |-> FALSE]>>]
CleanProbe ==
  [dns |-> [how |-> "answered", dmarc |-> "reject", spf |-> "strict"],
   http |-> [how |-> "asked", hops |-> <<CleanHop>>],
   certs |-> [how |-> "listed", staging |-> No],
   ip |-> [how |-> "resolved", org |-> Null, cloudflare |-> FALSE],
   github |-> How("none"), jobs |-> How("none"), hibp |-> How("no key"),
   ports |-> How("on"), ssllabs |-> [how |-> "ready", grade |-> "A"],
   abuseipdb |-> How("no key")]

PoorProbe ==
  [CleanProbe EXCEPT !.dns = [how |-> "answered", dmarc |-> "fail", spf |-> "none"],
                     !.http = Silent, !.certs = [how |-> "listed", staging |-> Yes],
                     !.ip = [how |-> "resolved", org |-> "AWS", cloudflare |-> FALSE],
                     !.ssllabs = How("not ready"),
                     !.hibp = [how |-> "asked", accounts |-> Yes, breaches |-> No],
                     !.abuseipdb = How("fail")]

HealthText == [product_type |-> "B2B SaaS", customer_type |-> "Enterprise (B2B)", sector |-> "healthcare",
               stage |-> "Seed", geo_market |-> "AU", uses_ai |-> Yes, handles_payments |-> No]
WebSeed == [stage |-> "Seed", sector |-> "fintech", geo_market |-> Unknown]

Companies ==
  {[pages |-> 3, text |-> HealthText, web |-> Null, probe |-> CleanProbe],
   [pages |-> 0, text |-> Null, web |-> WebSeed, probe |-> PoorProbe],
   [pages |-> 2, text |-> Null, web |-> Null,
    probe |-> [CleanProbe EXCEPT !.http = Silent, !.ssllabs = How("timeout"),
                                 !.dns = [how |-> "answered", dmarc |-> "fail", spf |-> "fail"]]]}

TypedValues ==
  [f \in {"product_type", "customer_type", "stage", "sector", "geo_market", "infrastructure"} |->
     CASE f = "product_type" -> {"Platform"} [] f = "customer_type" -> {"SMB (B2B)"}
       [] f = "stage" -> {"Series A"} [] f = "sector" -> {"government"}
       [] f = "geo_market" -> {"US"} [] f = "infrastructure" -> {"aws"}]

UsualChoice ==
  [has_raised_institutional |-> Boolean(FALSE), abn_entity_type |-> "pty_ltd",
   identity_model |-> "mfa_only", insurance_status |-> "active",
   pen_test_completed |-> Yes, has_backup |-> Yes, aws_program_enrolled |-> No]
=============================================================================
