------------------------------ MODULE ColdRead ------------------------------
(* The cold read on the server: session/start begins a pipeline nobody     *)
(* awaits, which checks the door, reads the site with a pool of workers     *)
(* under a budget while the perimeter probe runs in the background, asks    *)
(* two research engines, correlates, looks in the corpus and stamps the     *)
(* identity verdict; analyze then weighs the gaps and writes the reading.   *)
(* Every act is narrated to the session's log.  Of the log the model keeps  *)
(* the lines that open and close an act or end the stream; of the body      *)
(* lines, the one each page of the site is owed (`said`).                   *)
EXTENDS Upstream, Integers

CONSTANTS
  Session,             \* the sessions a page may start
  RestPages,           \* pages after the homepage: 4 in the code
  ScrapeConcurrency    \* scrapes in flight at once: 2 in the code

ASSUME ColdReadAssumption ==
  RestPages \in Nat /\ ScrapeConcurrency \in Nat \ {0}

VARIABLES
  session,   \* the stored session, as far as a read writes it
  log,       \* its lines, in order
  scan,      \* the locals of the pipeline that is reading it
  said,      \* lines spoken about each page of the site, homepage is 0
  analysis   \* where the page's analyze request stands

serverVars == <<session, log, scan, said, analysis>>

Page == 0 .. RestPages
Line(act, phase) == [act |-> act, phase |-> phase]
StreamDone == Line("stream", "__done__")
DoorDone == Line("stream", "done")

-----------------------------------------------------------------------------
(* What the pipeline makes of its witnesses.                                *)

NothingFound ==
  [pages |-> 0, engines |-> {}, recon |-> FALSE, signals |-> "placeholder",
   summary |-> "none"]

(* The identity verdict: their own pages, a holding that names them, or a   *)
(* summary that does.                                                       *)
IdentityConfirmed(found, corpus) ==
  \/ found.pages > 0
  \/ corpus = "confirmed"
  \/ found.summary = "confirmed"

(* A lookup that failed stays null; holdings nobody can tie to the company  *)
(* are an honest zero; the model is asked only about the confirmed ones.    *)
PositionSignals(corpus) ==
  CASE corpus = "null" -> {"null"}
    [] corpus \in {"empty", "unconfirmed"} -> {"empty"}
    [] OTHER -> {"null", "empty", "signals"}

EvidenceTags(x) ==
  {t \in {"STRONG", "HEDGE", "SUMMARY", "CORPUS", "IDENTITY"} :
     CASE t = "STRONG" -> x.recon
       [] t = "HEDGE" -> x.signals # "none"
       [] t = "SUMMARY" -> x.summary = "confirmed"
       [] t = "CORPUS" -> x.corpus = "confirmed"
       [] t = "IDENTITY" -> ~ x.identity}

Anchors(x) ==
  {a \in {"probe", "No pages readable", "Site narrative signals",
          "Company research", "Company summary", "corpus"} :
     CASE a = "probe" -> x.recon
       [] a = "No pages readable" -> x.pages = 0
       [] a = "Site narrative signals" -> x.pages > 0 /\ x.signals # "none"
       [] a = "Company research" -> x.summary # "none" /\ x.engines # {}
       [] a = "Company summary" -> x.summary # "none" /\ x.engines = {}
       [] a = "corpus" -> x.corpus \in {"unconfirmed", "confirmed"}}

NoReading == [text |-> "null", tags |-> {}, anchors |-> {}]

(* The prompt asks for a profile or, when nothing ties the evidence to the  *)
(* domain, for three sentences that refuse one.  No text, no anchors.       *)
GenerateReading(x, answered) ==
  IF answered
  THEN [text |-> IF x.identity THEN "profile" ELSE "refusal",
        tags |-> EvidenceTags(x), anchors |-> Anchors(x)]
  ELSE NoReading

-----------------------------------------------------------------------------
NewSession ==
  [infer |-> "absent", pages |-> 0, engines |-> {}, recon |-> FALSE,
   signals |-> "none", summary |-> "none", corpus |-> "absent",
   position |-> "absent", identity |-> FALSE, reading |-> NoReading]

NewScan ==
  [at |-> "idle", pages |-> 0, next |-> 1, flying |-> {}, spent |-> FALSE,
   probe |-> "off", engines |-> {}, corpus |-> "absent",
   found |-> NothingFound]

ServerInit ==
  /\ session = [s \in Session |-> NewSession]
  /\ log = [s \in Session |-> <<>>]
  /\ scan = [s \in Session |-> NewScan]
  /\ said = [s \in Session |-> [p \in Page |-> 0]]
  /\ analysis = [s \in Session |-> "none"]

At(s, here) == scan[s].at = here
(* The pipeline is over: only the scrapes that outlived their act remain.   *)
Over(s) ==
  scan' = [scan EXCEPT ![s] = [NewScan EXCEPT !.at = "end",
                                             !.flying = scan[s].flying]]
Goto(s, there) == scan' = [scan EXCEPT ![s].at = there]
Narrate(s, lines) == log' = [log EXCEPT ![s] = @ \o lines]

(* session/start: the rows exist and the pipeline runs before the reply.    *)
Start(s) ==
  /\ At(s, "idle")
  /\ session' = [session EXCEPT ![s].infer = "processing"]
  /\ Goto(s, "door")
  /\ UNCHANGED <<log, said, analysis>>

(* The address does not resolve: nothing else runs.                         *)
DoorShut(s) ==
  /\ At(s, "door")
  /\ Narrate(s, <<Line("preflight", "start"), Line("preflight", "done"),
                  DoorDone>>)
  /\ session' = [session EXCEPT ![s].infer = "address_not_found"]
  /\ Over(s)
  /\ UNCHANGED <<said, analysis>>

DoorOpen(s) ==
  /\ At(s, "door")
  /\ Goto(s, "guard")
  /\ UNCHANGED <<session, log, said, analysis>>

(* The host is not provably public, or the site read is off: placeholders,  *)
(* and no call that costs anything.                                         *)
FallBack(s) ==
  /\ At(s, "guard")
  /\ \E host \in HostAnswer : ~AssertPublicHost(host)
  /\ Goto(s, "assemble")
  /\ UNCHANGED <<session, log, said, analysis>>

OpenActs(s) ==
  /\ At(s, "guard")
  /\ \E host \in HostAnswer : AssertPublicHost(host)
  /\ Narrate(s, <<Line("perimeter", "start"), Line("site", "start")>>)
  /\ scan' = [scan EXCEPT ![s].at = "home", ![s].probe = "running"]
  /\ UNCHANGED <<session, said, analysis>>

(* The background probe answers, or its error or the 20 s timer ends it.    *)
ProbeSettles(s) ==
  /\ scan[s].probe = "running"
  /\ \E result \in {"context", "lost"} :
       scan' = [scan EXCEPT ![s].probe = result]
  /\ UNCHANGED <<session, log, said, analysis>>

-----------------------------------------------------------------------------
(* The site act: the homepage alone, then ScrapeConcurrency workers over    *)
(* the rest, each claiming the next page until the deadline; the pool races *)
(* the budget's timer, and what is still in flight then has missed the read.*)

(* A worker that finds the deadline passed claims nothing.                  *)
Claimable(s) ==
  IF scan[s].spent THEN {} ELSE scan[s].next .. RestPages

Claim(s, n) == {p \in Claimable(s) : p < scan[s].next + n}

SiteOpen(s) == scan[s].at \in {"home", "pages"}

(* Mutant: a late scrape is spoken of as well. *)
EmitLate(s, p) == said' = [said EXCEPT ![s][p] = @ + 1]

(* `emit` speaks of a page only while the act is open.                      *)
Emit(s, p) ==
  said' = [said EXCEPT ![s][p] = @ + (IF SiteOpen(s) THEN 1 ELSE 0)]

(* A page joins the read only while the act is open.                        *)
Read(s, ok) == scan[s].pages + (IF ok /\ SiteOpen(s) THEN 1 ELSE 0)

HomeLands(s, ok) ==
  /\ At(s, "home")
  /\ Emit(s, 0)
  /\ LET taken == Claim(s, ScrapeConcurrency) IN
       scan' = [scan EXCEPT ![s].at = "pages", ![s].pages = Read(s, ok),
                            ![s].flying = taken,
                            ![s].next = @ + Cardinality(taken)]
  /\ UNCHANGED <<session, log, analysis>>

(* One scrape lands: in the read its worker claims the next page, after the *)
(* act has closed nothing is said and nothing is claimed.                   *)
PageLands(s, p, ok) ==
  /\ p \in scan[s].flying
  /\ Emit(s, p)
  /\ LET taken == IF SiteOpen(s) THEN Claim(s, 1) ELSE {} IN
       scan' = [scan EXCEPT ![s].pages = Read(s, ok),
                            ![s].flying = (@ \ {p}) \cup taken,
                            ![s].next = @ + Cardinality(taken)]
  /\ UNCHANGED <<session, log, analysis>>

DeadlinePasses(s) ==
  /\ SiteOpen(s) /\ ~ scan[s].spent
  /\ scan' = [scan EXCEPT ![s].spent = TRUE]
  /\ UNCHANGED <<session, log, said, analysis>>

Unreported(s) == {p \in Page \ {0} : said[s][p] = 0}

(* The pool is empty, or the timer fired: every page nobody spoke of is     *)
(* named, and the act closes over what it had; queue and deadline decide    *)
(* nothing from here on.                                                    *)
SiteCloses(s) ==
  /\ At(s, "pages")
  /\ scan[s].flying = {} \/ scan[s].spent
  /\ said' = [said EXCEPT ![s] = [p \in Page |->
                @[p] + (IF p \in Unreported(s) THEN 1 ELSE 0)]]
  /\ Narrate(s, <<Line("site", "done"), Line("perplexity", "start")>>)
  /\ scan' = [scan EXCEPT ![s].at = "perplexity",
                          ![s].next = 1, ![s].spent = FALSE,
                          ![s].found = [NothingFound EXCEPT !.pages =
                                          scan[s].pages]]
  /\ UNCHANGED <<session, analysis>>

-----------------------------------------------------------------------------
(* Two engines, one after the other, each with content or without; then the *)
(* perimeter act, which waits for the probe; then the correlation.          *)

Answer(s, engine, answered) ==
  scan[s].engines \cup (IF answered THEN {engine} ELSE {})

Perplexity(s, answered) ==
  /\ At(s, "perplexity")
  /\ Narrate(s, <<Line("perplexity", IF answered THEN "done" ELSE "skip"),
                  Line("gemini", "start")>>)
  /\ scan' = [scan EXCEPT ![s].at = "gemini",
                          ![s].engines = Answer(s, "perplexity", answered)]
  /\ UNCHANGED <<session, said, analysis>>

Gemini(s, answered) ==
  /\ At(s, "gemini")
  /\ Narrate(s, <<Line("gemini", IF answered THEN "done" ELSE "skip")>>)
  /\ scan' = [scan EXCEPT ![s].at = "perimeter",
                          ![s].engines = Answer(s, "gemini", answered)]
  /\ UNCHANGED <<session, said, analysis>>

(* With no page and no answer there is nothing to correlate: placeholders,  *)
(* beside what the probe saw.                                               *)
Perimeter(s) ==
  /\ At(s, "perimeter") /\ scan[s].probe # "running"
  /\ LET witnessed == [scan[s].found EXCEPT
                        !.recon = scan[s].probe = "context",
                        !.engines = scan[s].engines]
         bare == scan[s].pages = 0 /\ scan[s].engines = {}
     IN  /\ scan' = [scan EXCEPT ![s].found = witnessed,
               ![s].at = IF bare THEN "assemble" ELSE "correlate"]
         /\ Narrate(s,
              <<Line("perimeter", IF witnessed.recon THEN "done" ELSE "fail")>>
              \o (IF bare THEN <<>> ELSE <<Line("correlate", "start")>>))
  /\ UNCHANGED <<session, said, analysis>>

(* A throw falls back to placeholders and drops every witness with it; an   *)
(* empty extraction keeps the witnesses beside the placeholders.            *)
Correlated(found, outcome) ==
  CASE outcome = "throw" -> NothingFound
    [] outcome = "empty" -> found
    [] OTHER -> [found EXCEPT !.signals = "read", !.summary = outcome]

Correlate(s, outcome) ==
  /\ At(s, "correlate")
  /\ Narrate(s, <<Line("correlate",
                       IF outcome = "throw" THEN "fail" ELSE "done")>>)
  /\ scan' = [scan EXCEPT ![s].at = "assemble",
                          ![s].found = Correlated(scan[s].found, outcome)]
  /\ UNCHANGED <<session, said, analysis>>

-----------------------------------------------------------------------------
(* The assembly: inferences, the corpus, the verdict, the position, and one *)
(* write of the session.  A throw on the way fails the scan and ends the    *)
(* stream; success leaves the stream open for the reading.                  *)

Assemble(s) ==
  /\ At(s, "assemble")
  /\ Narrate(s, <<Line("corpus", "start")>>)
  /\ Goto(s, "corpus")
  /\ UNCHANGED <<session, said, analysis>>

(* Null is could-not-look, empty is looked-and-found-nothing.               *)
Corpus(s, held) ==
  /\ At(s, "corpus")
  /\ Narrate(s, <<Line("corpus", IF held = "null" THEN "skip" ELSE "done")>>)
  /\ scan' = [scan EXCEPT ![s].at = "position", ![s].corpus = held]
  /\ UNCHANGED <<session, said, analysis>>

Position(s, position) ==
  /\ At(s, "position")
  /\ position \in PositionSignals(scan[s].corpus)
  /\ LET f == scan[s].found IN
       session' = [session EXCEPT ![s] = [@ EXCEPT
          !.infer = "complete", !.pages = f.pages, !.engines = f.engines,
          !.recon = f.recon, !.signals = f.signals, !.summary = f.summary,
          !.corpus = scan[s].corpus, !.position = position,
          !.identity = IdentityConfirmed(f, scan[s].corpus)]]
  /\ Over(s)
  /\ UNCHANGED <<log, said, analysis>>

ScanFails(s) ==
  /\ scan[s].at \in {"assemble", "position"}
  /\ Narrate(s, <<StreamDone>>)
  /\ session' = [session EXCEPT ![s].infer = "failed"]
  /\ Over(s)
  /\ UNCHANGED <<said, analysis>>

-----------------------------------------------------------------------------
(* analyze: the reading act, with the gap analysis first and the text next. *)

Analyze(s) ==
  /\ analysis[s] = "asked"
  /\ Narrate(s, <<Line("reading", "start")>>)
  /\ analysis' = [analysis EXCEPT ![s] = "weigh"]
  /\ UNCHANGED <<session, scan, said>>

(* Mutant: a failed analysis ends the stream with its act still open. *)
AnalyzeFailsOpen(s) ==
  /\ analysis[s] \in {"weigh", "write"}
  /\ Narrate(s, <<StreamDone>>)
  /\ analysis' = [analysis EXCEPT ![s] = "failed"]
  /\ UNCHANGED <<session, scan, said>>

AnalyzeFails(s) ==
  /\ analysis[s] \in {"weigh", "write"}
  /\ Narrate(s, <<Line("reading", "fail"), StreamDone>>)
  /\ analysis' = [analysis EXCEPT ![s] = "failed"]
  /\ UNCHANGED <<session, scan, said>>

Weigh(s) ==
  /\ analysis[s] = "weigh"
  /\ analysis' = [analysis EXCEPT ![s] = "write"]
  /\ UNCHANGED <<session, log, scan, said>>

Write(s, answered) ==
  /\ analysis[s] = "write"
  /\ Narrate(s, <<Line("reading", "done"), StreamDone>>)
  /\ session' = [session EXCEPT ![s].reading = GenerateReading(session[s], answered)]
  /\ analysis' = [analysis EXCEPT ![s] = "done"]
  /\ UNCHANGED <<scan, said>>

-----------------------------------------------------------------------------
(* Start is not a step of the server on its own: a page asks for it.        *)
ServerNext ==
  \E s \in Session :
    \/ DoorShut(s) \/ DoorOpen(s) \/ FallBack(s) \/ OpenActs(s)
    \/ ProbeSettles(s) \/ DeadlinePasses(s) \/ SiteCloses(s)
    \/ \E ok \in Scraped : HomeLands(s, ok) \/ \E p \in Page : PageLands(s, p, ok)
    \/ \E answered \in Answered :
         Perplexity(s, answered) \/ Gemini(s, answered) \/ Write(s, answered)
    \/ Perimeter(s) \/ Assemble(s) \/ ScanFails(s)
    \/ \E outcome \in {"throw", "empty", "none", "unconfirmed", "confirmed"} :
         Correlate(s, outcome)
    \/ \E held \in {"null", "empty", "unconfirmed", "confirmed"} : Corpus(s, held)
    \/ \E position \in {"null", "empty", "signals"} : Position(s, position)
    \/ Analyze(s) \/ AnalyzeFails(s) \/ Weigh(s)
=============================================================================
