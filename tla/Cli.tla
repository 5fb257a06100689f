-------------------------------- MODULE Cli --------------------------------
(***************************************************************************)
(* The command line of proof360 (cli.mjs): a fresh run reads a company,    *)
(* asks the founder to confirm what it inferred, saves the session and     *)
(* prints a dossier; --rerender prints the dossier of a saved session and  *)
(* --edit asks again, offering the saved replies. A fresh run serves a     *)
(* companion page over SSE (graph-server.mjs, graph.js), whose stop button *)
(* may end the run early.                                                  *)
(*                                                                         *)
(* Reading steps are as coarse as the code's awaits. Delivery to a         *)
(* connected page is immediate; a connection may drop and come back, and   *)
(* then gets every event from the start. A page may outlive its run and    *)
(* come back to the next one, which listens on the same port: nothing      *)
(* resets what it shows.                                                   *)
(***************************************************************************)
EXTENDS CliDossier, SequencesExt

CONSTANTS
  Usual,        \* [field -> what is answered of it unless the founder departs]
  Typed,        \* [field -> what a founder may type instead]
  MaxDeparts,   \* bound: replies that depart from the usual ones
  MaxRuns,      \* bound: runs of the command line
  MaxDrops      \* bound: connections lost, and pages that outlive their run

VARIABLES
  phase,      \* where the process is, "idle" when there is none
  mode,       \* "fresh", "rerender" or "edit"
  company,    \* what this run finds, Null before
  replies,    \* fieldStates and context of what was asked so far
  ledger,     \* ledger.sourceStatus
  file,       \* the session saved last, Null before
  dossier,    \* what was printed, Null before
  events,     \* graph-server's buffer: every event of the run
  page,       \* the companion page
  stop,       \* "no", "sent", or "heard" by the bus's stop handler
  counts      \* bounds: runs, departures and drops so far

cliVars == <<phase, mode, company, replies, ledger, file, dossier, events, page, stop, counts>>
----------------------------------------------------------------------------
(* The founder's questions, in order, and the options of those that have   *)
(* them.                                                                   *)
ConfirmedField == <<"product_type", "customer_type", "stage", "sector", "geo_market",
                    "infrastructure">>

Options ==
  [has_raised_institutional |-> {Boolean(TRUE), Boolean(FALSE)},
   abn_entity_type |-> {"pty_ltd", "trust", "not_for_profit", "other"},
   identity_model |-> {"password_only", "mfa_only", "sso"},
   insurance_status |-> {"active", "none", "planning"},
   pen_test_completed |-> {Yes, No}, has_backup |-> {Yes, No},
   aws_program_enrolled |-> {Yes, No}]

ChosenField == <<"has_raised_institutional", "abn_entity_type", "identity_model",
                 "insurance_status", "pen_test_completed", "has_backup",
                 "aws_program_enrolled">>

Questions == ConfirmedField \o ChosenField
Asking == Questions[Cardinality(DOMAIN replies) + 1]

Reply(v, state) == [value |-> v, state |-> state]
NotSure == Reply(Null, "not_sure")

(* Mutant: Enter confirms what was inferred, also when a value was saved.  *)
EnterConfirmsInferred(f) ==
  Reply(IF f \in DOMAIN Options THEN file.context[f] ELSE Guess(company, f), "confirmed")

\* Enter keeps the saved value, whatever state it was saved in.
Enter(f) == Reply(file.context[f], "confirmed")

\* "m" and nothing typed is not sure, as is "?", or any text that is no option's number.
Others(f) ==
  IF f \in DOMAIN Options
  THEN {NotSure} \cup {Reply(v, "confirmed") : v \in Options[f]}
  ELSE {NotSure, Reply(Guess(company, f), "confirmed")}
       \cup {Reply(v, "changed") : v \in Typed[f]}

UsualReply(f) ==
  CASE mode = "edit" -> Enter(f)
    [] mode # "edit" /\ f \in DOMAIN Options -> Reply(Usual[f], "confirmed")
    [] OTHER -> Reply(Guess(company, f), "confirmed")
----------------------------------------------------------------------------
(* The companion page: handleEvent over what the server sends.             *)
Depth(d) == [type |-> "depth", text |-> d]
Start(id) == [type |-> "start", id |-> id]
Complete(id, ok) == [type |-> "node", id |-> id, status |-> IF ok THEN "done" ELSE "error"]
Edge(from, to) == [type |-> "edge", from |-> from, to |-> to]
Section(s) == [type |-> "section", id |-> s]
Interactive == [type |-> "interactive"]
Finished(at) == [type |-> "complete", text |-> at]

Parent(id) ==
  CASE id = "vector" -> "firecrawl" [] id = "gap_analysis" -> "vector" [] OTHER -> "entity"

Node(id, ok) == <<Complete(id, ok), Edge(Parent(id), id)>>

PageNode == {"entity", "firecrawl", "perplexity", "dns", "vector", "corpus", "gap_analysis",
             "aws_programs", "spv"}

NoNodes == [id \in PageNode |-> IF id = "entity" THEN "active" ELSE "absent"]

\* ours: opened in this run, not left of an earlier one.
BlankPage == [live |-> FALSE, ours |-> TRUE, nodes |-> NoNodes, edges |-> << >>, filled |-> {},
              text |-> "", dot |-> "", stopShown |-> FALSE, pressed |-> FALSE,
              exportShown |-> FALSE]

\* A node is updated in place; an edge is pushed, whether or not it is there.
HandleEvent(p, e) ==
  CASE e.type = "start" -> [p EXCEPT !.nodes[e.id] = "loading"]
    [] e.type = "node" -> [p EXCEPT !.nodes[e.id] = e.status]
    [] e.type = "edge" -> [p EXCEPT !.edges = Append(@, <<e.from, e.to>>)]
    [] e.type = "section" -> [p EXCEPT !.filled = @ \cup {e.id}]
    [] e.type = "depth" -> [p EXCEPT !.text = e.text]
    [] e.type = "interactive" ->
         [p EXCEPT !.text = "confirm", !.dot = "asking", !.stopShown = FALSE]
    [] e.type = "complete" ->
         [p EXCEPT !.text = e.text, !.dot = "done", !.stopShown = FALSE, !.exportShown = TRUE]

Deliver(p, es) == FoldLeft(HandleEvent, p, es)

OnOpen(p) == [p EXCEPT !.live = TRUE, !.text = "Connected", !.stopShown = TRUE]

(* Mutant: only what comes after the connection is sent to it.             *)
ReplayNothing(p) == OnOpen(p)

\* /events replays the whole buffer to whoever connects.
Replay(p) == Deliver(OnOpen(p), events)

Lost(p) == [p EXCEPT !.live = FALSE, !.text = "Connection lost", !.dot = "lost"]

\* Without a graph server, as in --rerender and --edit, nobody listens.
Emit(es) ==
  IF mode # "fresh" THEN UNCHANGED <<events, page>>
  ELSE /\ events' = events \o es
       /\ page' = IF page.live THEN Deliver(page, es) ELSE page
----------------------------------------------------------------------------
NothingAnswered == [f \in {} |-> NotSure]
NotCalled == [s \in Source |-> "not_called"]

CliInit ==
  /\ phase = "idle" /\ mode = "fresh" /\ company = Null
  /\ replies = NothingAnswered /\ ledger = NotCalled
  /\ file = Null /\ dossier = Null
  /\ events = << >> /\ page = BlankPage /\ stop = "no"
  /\ counts = [runs |-> 0, departs |-> 0, drops |-> 0]

Begin(m) ==
  /\ phase = "idle" /\ counts.runs < MaxRuns
  /\ counts' = [counts EXCEPT !.runs = @ + 1]
  /\ mode' = m /\ replies' = NothingAnswered /\ dossier' = Null /\ stop' = "no"

FreshRun ==
  /\ Begin("fresh")
  /\ \E of \in Company : company' = of
  /\ phase' = "pages" /\ ledger' = NotCalled
  /\ events' = <<Depth("quick"), Start("firecrawl")>>
  /\ UNCHANGED <<file, page>>

ReadPages ==
  /\ phase = "pages" /\ phase' = "web"
  /\ Emit(Node("firecrawl", company.pages > 0)
          \o <<Section("company_snapshot"), Start("perplexity")>>)
  /\ UNCHANGED <<mode, company, replies, ledger, file, dossier, stop, counts>>

AskTheWeb ==
  /\ phase = "web" /\ phase' = "recon"
  /\ Emit(Node("perplexity", WebOk(company))
          \o <<Section("web_intelligence"), Start("dns")>>)
  /\ UNCHANGED <<mode, company, replies, ledger, file, dossier, stop, counts>>

Stopped == stop = "heard"

(* The probes, one after another, and the quick phase's stop check.        *)
Probe ==
  /\ phase = "recon"
  /\ ledger' = [s \in Source |-> LedgerStatus(s, TraceRecon(company)[s])]
  /\ phase' = IF Stopped THEN "stopped" ELSE "extract"
  /\ Emit(Node("dns", TRUE) \o <<Section("email_security"), Section("breach")>>
          \o IF Stopped THEN <<Finished("quick")>> ELSE <<Depth("standard"), Start("vector")>>)
  /\ UNCHANGED <<mode, company, replies, file, dossier, stop, counts>>

(* traceVector, and the standard phase's stop check: the last one.         *)
Extract ==
  /\ phase = "extract"
  /\ phase' = IF Stopped THEN "stopped" ELSE "confirm"
  /\ Emit(Node("vector", VectorOk(company)) \o <<Section("signal_extraction")>>
          \o IF Stopped THEN <<Finished("standard")>> ELSE <<Interactive>>)
  /\ UNCHANGED <<mode, company, replies, ledger, file, dossier, stop, counts>>

Session(said) ==
  [company |-> company, context |-> FounderContext(company, said),
   states |-> FieldStates(said), status |-> ledger]

(* One answer. The last one ends collectFounderContext; a fresh run then   *)
(* saves the session, an edit does not.                                    *)
Confirm(reply) ==
  LET said == [f \in {Asking} |-> reply] ## replies
      last == Cardinality(DOMAIN said) = Len(Questions)
  IN /\ phase = "confirm"
     /\ replies' = said
     /\ IF last
        THEN /\ phase' = "deep"
             /\ file' = IF mode = "fresh" THEN Session(said) ELSE file
             /\ Emit(<<Depth("deep"), Start("corpus")>>)
        ELSE UNCHANGED <<phase, file, events, page>>
     /\ UNCHANGED <<mode, company, ledger, dossier, stop>>

UsualAnswer == phase = "confirm" /\ Confirm(UsualReply(Asking)) /\ UNCHANGED counts

Depart ==
  /\ phase = "confirm" /\ counts.departs < MaxDeparts
  /\ \E reply \in Others(Asking) \ {UsualReply(Asking)} : Confirm(reply)
  /\ counts' = [counts EXCEPT !.departs = @ + 1]

(* --rerender and --edit restore the ledger's statuses from the file.      *)
Rerender ==
  /\ file # Null /\ Begin("rerender")
  /\ phase' = "deep" /\ company' = file.company /\ ledger' = file.status
  /\ events' = << >> /\ UNCHANGED <<file, page>>

Edit ==
  /\ file # Null /\ Begin("edit")
  /\ phase' = "confirm" /\ company' = file.company /\ ledger' = file.status
  /\ events' = << >> /\ UNCHANGED <<file, page>>

(* The deep phase: the corpus may be unavailable, and the rest follows     *)
(* without a wait. The programs section is never filled: the list of       *)
(* results has no field "eligible".                                        *)
Deep ==
  LET context == IF mode = "rerender" THEN file.context ELSE FounderContext(company, replies)
      states == IF mode = "rerender" THEN file.states ELSE FieldStates(replies)
  IN /\ phase = "deep" /\ phase' = "done"
     /\ dossier' = Dossier(company, context, states)
     /\ \E corpus \in BOOLEAN :
          Emit(Node("corpus", corpus)
               \o (IF corpus THEN <<Section("evidence_sources")>> ELSE << >>)
               \o Node("gap_analysis", TRUE) \o <<Section("trust_gaps")>>
               \o Node("aws_programs", TRUE) \o Node("spv", TRUE)
               \o <<Edge("gap_analysis", "spv"), Section("spv_context"), Finished("")>>)
     /\ UNCHANGED <<mode, company, replies, ledger, file, stop, counts>>
----------------------------------------------------------------------------
(* The page. The server listens while the run goes on; closing it leaves   *)
(* the connections that are open.                                          *)
Listening == mode = "fresh" /\ phase \notin {"idle", "stopped", "done"}

\* The run opens a page of its own, and the founder may reload one that was lost.
OpenPage ==
  /\ Listening /\ ~(page.live /\ page.ours)
  /\ page' = Replay(BlankPage)
  /\ UNCHANGED <<phase, mode, company, replies, ledger, file, dossier, events, stop, counts>>

\* The EventSource of an open page comes back by itself, in a later run too.
Connect ==
  /\ Listening /\ ~page.live /\ page # BlankPage
  /\ page' = Replay(page)
  /\ UNCHANGED <<phase, mode, company, replies, ledger, file, dossier, events, stop, counts>>

Drop ==
  /\ page.live /\ counts.drops < MaxDrops
  /\ page' = Lost(page)
  /\ counts' = [counts EXCEPT !.drops = @ + 1]
  /\ UNCHANGED <<phase, mode, company, replies, ledger, file, dossier, events, stop>>

\* Once pressed, the button stays disabled until the page is reloaded.
PressStop ==
  /\ page.live /\ page.stopShown /\ ~page.pressed
  /\ page' = [page EXCEPT !.pressed = TRUE]
  /\ stop' = IF stop = "no" THEN "sent" ELSE stop
  /\ UNCHANGED <<phase, mode, company, replies, ledger, file, dossier, events, counts>>

\* The request may come late: after the run has gone on to ask the founder.
StopArrives ==
  /\ Listening /\ stop = "sent" /\ stop' = "heard"
  /\ UNCHANGED <<phase, mode, company, replies, ledger, file, dossier, events, page, counts>>

(* The process ends, or is interrupted at any point: what was not saved is *)
(* lost. An open page stays as it is, or the founder closes it.            *)
Exit ==
  /\ phase # "idle"
  /\ phase' = "idle" /\ company' = Null
  /\ replies' = NothingAnswered /\ ledger' = NotCalled /\ dossier' = Null
  /\ events' = << >> /\ stop' = "no"
  /\ \/ page' = BlankPage /\ UNCHANGED counts
     \/ /\ page # BlankPage /\ counts.drops < MaxDrops
        /\ page' = [Lost(page) EXCEPT !.ours = FALSE]
        /\ counts' = [counts EXCEPT !.drops = @ + 1]
  /\ UNCHANGED <<mode, file>>

CliNext ==
  \/ FreshRun \/ ReadPages \/ AskTheWeb \/ Probe \/ Extract
  \/ UsualAnswer \/ Depart \/ Rerender \/ Edit \/ Deep
  \/ OpenPage \/ Connect \/ Drop \/ PressStop \/ StopArrives \/ Exit

CliSpec == CliInit /\ [][CliNext]_cliVars
----------------------------------------------------------------------------
Asked == {Questions[i] : i \in 1..Len(Questions)}
Printed == phase = "done"

(* "Not sure becomes UNVERIFIED, not negative evidence" (cli.mjs): whatever*)
(* a founder answered, to have said "not sure" to any one question would   *)
(* not have lowered the score. GAP_DEPENDENCIES must name every field a    *)
(* rule of gaps.js would turn against a company for want of it.            *)
NotSureNeverCosts ==
  Printed /\ mode # "rerender" =>
    \A f \in Asked :
      LET said == [replies EXCEPT ![f] = NotSure]
      IN CliScore(AnalyseGaps(FounderContext(company, said), FieldStates(said)))
           >= dossier.score

(* An edit in which the founder only pressed Enter prints the dossier of   *)
(* the saved session: its gaps, their strength, the score, the programs.   *)
EnterKeepsTheDossier ==
  Printed /\ mode = "edit" /\ (\A f \in Asked : replies[f] = Enter(f)) =>
    dossier = Dossier(file.company, file.context, file.states)

(* A connected page shows all this run has said, however often it          *)
(* reconnected; only its dot may still warn. A page opened in this run     *)
(* shows nothing else: its nodes, its report and its buttons are the       *)
(* run's, and so are its edges, although it may draw some twice. A page    *)
(* left open by an earlier run keeps what that run said wherever this one  *)
(* has not said otherwise: graph.js never resets it.                       *)
CompanionIsCurrent ==
  page.live =>
    LET now == Deliver(OnOpen(BlankPage), events)
    IN  /\ page.text = now.text /\ page.stopShown = now.stopShown
        /\ page.dot \in {now.dot, "lost"}
        /\ \A id \in PageNode : now.nodes[id] \in {NoNodes[id], page.nodes[id]}
        /\ now.filled \subseteq page.filled /\ ToSet(now.edges) \subseteq ToSet(page.edges)
        /\ now.exportShown => page.exportShown
        /\ page.ours => /\ page.nodes = now.nodes /\ page.filled = now.filled
                        /\ ToSet(page.edges) = ToSet(now.edges)
                        /\ page.exportShown = now.exportShown
=============================================================================
