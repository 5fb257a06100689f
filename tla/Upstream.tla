------------------------------ MODULE Upstream ------------------------------
(***************************************************************************)
(* What the services a cold read waits for come to: whether a host is      *)
(* provably public (ssrf-guard.js), whether a page of the site can be read *)
(* (site-reader.js), whether the model answers (lib/inference.js).         *)
(* No variables: ColdRead builds on this module.                           *)
(***************************************************************************)
EXTENDS Naturals, Sequences, FiniteSets

(* Addresses by the range they are in, an IPv4 address mapped into IPv6 by *)
(* the range of the IPv4 one.                                              *)
BlockedRange ==
  {"this network", "private", "carrier NAT", "loopback", "link local", "protocol assignment",
   "benchmark", "multicast", "reserved", "unspecified", "unique local"}

(* A local name is refused unasked; a literal address is its own answer; a *)
(* name with no address, or with one blocked address among others, is not  *)
(* provably public.                                                        *)
AssertPublicHost(host) ==
  /\ host.name # "local"
  /\ host.addresses # {}
  /\ host.addresses \cap BlockedRange = {}

MaxRedirects == 4

(* page.hosts are the hosts the redirects lead through, each asserted      *)
(* before it is fetched; the fifth redirect is not followed.               *)
FetchGuarded(page) ==
  LET followed == {i \in DOMAIN page.hosts : i <= MaxRedirects + 1}
  IN  CASE \E i \in followed : ~AssertPublicHost(page.hosts[i]) -> "thrown"
        [] Len(page.hosts) > MaxRedirects + 1 -> "too many redirects"
        [] page.answer \in {"thrown", "error status", "not a page"} -> page.answer
        [] OTHER -> "bytes"

(* A page with too little text is rendered by a browser, where one is      *)
(* configured, and must have text enough then.                             *)
ScrapeUrl(page) ==
  /\ FetchGuarded(page) = "bytes"
  /\ page.answer = "text" \/ page.rendered = "text"

Public == [name |-> "name", addresses |-> {"public"}]
HostAnswer ==
  {Public, [name |-> "name", addresses |-> {}], [name |-> "local", addresses |-> {"loopback"}],
   [name |-> "name", addresses |-> {"public", "private"}]}

PageAnswer ==
  [hosts : {<<Public, h>> : h \in HostAnswer}
             \cup {[i \in 1..n |-> Public] : n \in {MaxRedirects + 1, MaxRedirects + 2}},
   answer : {"text", "too little text", "not a page", "error status", "thrown"},
   rendered : {"off", "thrown", "too little text", "text"}]

(* What a scrape can come to. *)
Scraped == {read \in BOOLEAN : \E page \in PageAnswer : ScrapeUrl(page) = read}

(* Only a fault of volume goes to the other region, and there only once.   *)
WithOverflow(primary, overflow) ==
  primary = "answer" \/ (primary = "throttled" /\ overflow = "answer")

ModelSays == {"answer", "throttled", "refused"}
Answered == {answered \in BOOLEAN : \E p, o \in ModelSays : WithOverflow(p, o) = answered}

-----------------------------------------------------------------------------
(* A turn's chips: one question of each persona, short enough; anything    *)
(* else is no chips at all, and is not kept, so the next fetch asks again. *)
Personas == {"sofia", "edison", "leonardo"}

ParseFollowups(list) ==
  /\ Len(list) = Cardinality(Personas)
  /\ {list[i].persona : i \in DOMAIN list} = Personas
  /\ \A i \in DOMAIN list : list[i].fits

FollowupsWritten ==
  {<<>>} \cup [1..Cardinality(Personas) ->
              [persona : Personas \cup {"another"}, fits : BOOLEAN]]

(* Whether a fetch brings chips; a model that does not answer brings none. *)
Followups ==
  {some \in BOOLEAN :
     \E list \in FollowupsWritten, answered \in Answered :
       some = (answered /\ ParseFollowups(list))}
=============================================================================
