------------------------------ MODULE ChatPage ------------------------------
(* The chat page while it has a read to run: submit starts the read, the    *)
(* log streams in beside a poll of infer-status, analyze hands back the     *)
(* reading, and every outcome replaces the status bubble.  Around it the    *)
(* founder talks, confirms a pathway that asks for the company, and answers *)
(* it.  The closure of a running submit keeps the `awaitingField` of the    *)
(* render it began in.  A stored session is restored before the first       *)
(* message or not at all.                                                   *)
EXTENDS ColdRead, SequencesExt

CONSTANTS
  NoSession,    \* a page that has started none
  MaxPolls,     \* polls of infer-status before the page gives up: 60
  MaxTurns      \* bound: messages the founder sends

ASSUME ChatPageAssumption ==
  /\ NoSession \notin Session
  /\ MaxPolls \in Nat \ {0} /\ MaxTurns \in Nat

VARIABLE page

vars == <<serverVars, page>>

Resting ==
  [at |-> "rest", processing |-> FALSE, turn |-> 0, sid |-> NoSession,
   stream |-> "closed", traced |-> NoSession, told |-> "no",
   polls |-> 0, live |-> FALSE, named |-> FALSE, awaiting |-> FALSE,
   serving |-> FALSE, bubble |-> "none", anchors |-> {}, chips |-> 0,
   fetches |-> {}]

(* A returning founder's page has its stored session live before the first  *)
(* message.                                                                 *)
Returned == [Resting EXCEPT !.live = TRUE]

Init == ServerInit /\ page \in {Resting, Returned}

Show(changes) ==
  page' = [f \in DOMAIN page |->
             IF f \in DOMAIN changes THEN changes[f] ELSE page[f]]

(* A message of any kind: chips go, the turn token advances.                *)
NextTurn(changes) ==
  page' = [f \in DOMAIN page |->
             IF f = "chips" THEN 0
             ELSE IF f = "turn" THEN page.turn + 1
             ELSE IF f \in DOMAIN changes THEN changes[f] ELSE page[f]]

CanSend == ~ page.processing /\ page.turn < MaxTurns

-----------------------------------------------------------------------------
(* Sending.                                                                 *)

(* An address and no live session: the read, if the wait is armed, serves   *)
(* it.                                                                      *)
SubmitUrl(s) ==
  /\ CanSend /\ ~ page.live
  /\ At(s, "idle")
  /\ NextTurn([at |-> "starting", processing |-> TRUE, sid |-> s, polls |-> 0,
               serving |-> page.awaiting, bubble |-> "scanning"])
  /\ UNCHANGED serverVars

(* An armed wait takes any other reply for the company's name, and with a   *)
(* live session an address too.                                             *)
CaptureReply ==
  /\ CanSend /\ page.awaiting
  /\ NextTurn([awaiting |-> FALSE, named |-> TRUE])
  /\ UNCHANGED serverVars

(* A live session: the reply streams, then two fetches carry the turn.      *)
Talk ==
  /\ CanSend /\ page.live /\ ~ page.awaiting
  /\ NextTurn([at |-> "replying", processing |-> TRUE])
  /\ UNCHANGED serverVars

ReplyEnds(whole) ==
  /\ page.at = "replying"
  /\ Show([at |-> "rest", processing |-> FALSE, fetches |->
             page.fetches \cup (IF whole THEN {page.turn} ELSE {})])
  /\ UNCHANGED serverVars

(* No session and no address: the firehose opens one, or the mock room      *)
(* answers.                                                                 *)
Utter ==
  /\ CanSend /\ ~ page.live /\ ~ page.awaiting
  /\ NextTurn([at |-> "uttering", processing |-> TRUE])
  /\ UNCHANGED serverVars

UtteranceBack(heard) ==
  /\ page.at = "uttering"
  /\ Show([at |-> "rest", processing |-> FALSE, live |-> heard])
  /\ UNCHANGED serverVars

(* Mutant: an answer of any turn is taken. *)
NeverSuperseded(turn) == FALSE

(* A slow answer of an earlier turn is dropped.                             *)
Superseded(turn) == page.turn # turn

FollowupsLand(turn, some) ==
  /\ turn \in page.fetches
  /\ Show([fetches |-> page.fetches \ {turn}, chips |->
             IF Superseded(turn) THEN page.chips ELSE IF some THEN turn ELSE 0])
  /\ UNCHANGED serverVars

(* The build card's confirm: with no company named, the lens asks.          *)
ConfirmRoute ==
  /\ ~ page.awaiting /\ ~ page.named
  /\ Show([awaiting |-> TRUE])
  /\ UNCHANGED serverVars

-----------------------------------------------------------------------------
(* The read.                                                                *)

(* What ends a trace but the log itself: it is called done all the same.    *)
Cut == IF page.stream = "open" THEN "cut" ELSE page.told

(* The catch: the stream is cut, the bubble says what happened, and a wait  *)
(* the read was serving stays armed.                                        *)
Failed ==
  [bubble |-> "failed", stream |-> "closed", told |-> Cut,
   at |-> "rest", processing |-> FALSE, polls |-> 0, serving |-> FALSE]

Fail == Show(Failed) /\ UNCHANGED serverVars

StartArrives ==
  /\ page.at = "starting"
  /\ page.sid # NoSession /\ Start(page.sid)
  /\ UNCHANGED page

StartFails == page.at = "starting" /\ Fail

Started ==
  /\ page.at = "starting" /\ ~ At(page.sid, "idle")
  /\ Show([at |-> "polling", stream |-> "open", traced |-> page.sid,
            told |-> "no"])
  /\ UNCHANGED serverVars

(* The interval's flush sends what the log holds up to the line that ends   *)
(* it: what the page has is a prefix of the log, and at that line it is     *)
(* told that the trace is whole. `told` keeps what ended the trace; the     *)
(* page itself keeps only that something did.                               *)
Lines == IF page.traced = NoSession THEN <<>> ELSE log[page.traced]

(* How the trace shows an act: by the last of its lines that carries one of *)
(* the phases.                                                              *)
ActPhase(lines, act) ==
  LET last == SelectLastInSeq(lines, LAMBDA l : l.act = act /\
                l.phase \in {"start", "done", "skip", "fail"})
  IN  IF last = 0 THEN "none" ELSE lines[last].phase

Flush ==
  /\ page.stream = "open"
  /\ \E i \in DOMAIN Lines : Lines[i] = StreamDone
  /\ Show([told |-> "log", stream |-> "closed"])
  /\ UNCHANGED serverVars

(* The stream's 160 s safety timer writes the same line, whatever acts are  *)
(* open, or the connection drops: the page stops listening and calls the    *)
(* scan done, whatever the log says after.                                  *)
StreamDrops ==
  /\ page.stream = "open"
  /\ Show([told |-> Cut, stream |-> "closed"])
  /\ UNCHANGED serverVars

Status == session[page.sid].infer

Polling == page.at = "polling"

(* Mutant: the count of polls wraps instead of ending the wait. *)
PollForEver ==
  /\ Polling /\ Status = "processing"
  /\ Show([polls |-> (page.polls + 1) % MaxPolls])
  /\ UNCHANGED serverVars

PollProcessing ==
  /\ Polling /\ Status = "processing"
  /\ Show(IF page.polls + 1 < MaxPolls
          THEN [polls |-> page.polls + 1] ELSE Failed)
  /\ UNCHANGED serverVars

PollFailed == Polling /\ Status = "failed" /\ Fail

PollLost == Polling /\ Fail

(* An address that does not exist: the branch returns with the input still  *)
(* locked, the stream still open and no word to a wait it was serving.      *)
PollNotFound ==
  /\ Polling /\ Status = "address_not_found"
  /\ Show([at |-> "rest", bubble |-> "not found", polls |-> 0,
           serving |-> FALSE])
  /\ UNCHANGED serverVars

PollComplete ==
  /\ Polling /\ Status = "complete"
  /\ Show([at |-> "analyzing", bubble |-> "writing"])
  /\ analysis' = [analysis EXCEPT ![page.sid] = "asked"]
  /\ UNCHANGED <<session, log, scan, said>>

AnalysisFails == page.at = "analyzing" /\ Fail

(* The opener: the reading with its anchors, or the bullets without.  A     *)
(* name comes with the read when it found one, and always when it serves.   *)
Opener(x) == IF x.text = "null" THEN "bullets" ELSE x.text

ReadingAnchorLabels(x) == IF x.text = "null" THEN {} ELSE x.anchors

AnalysisBack(name) ==
  /\ page.at = "analyzing" /\ analysis[page.sid] = "done"
  /\ LET x == session[page.sid] IN
       Show([live |-> TRUE, bubble |-> Opener(x.reading),
             anchors |-> ReadingAnchorLabels(x.reading),
             named |-> page.named \/ name \/ page.serving,
             awaiting |-> page.awaiting /\ ~ page.serving,
             at |-> "rest", processing |-> FALSE, polls |-> 0, serving |-> FALSE])
  /\ UNCHANGED serverVars

-----------------------------------------------------------------------------
ServerStep == ServerNext /\ UNCHANGED page

Founder ==
  \/ \E s \in Session : SubmitUrl(s)
  \/ CaptureReply \/ Talk \/ Utter \/ ConfirmRoute

PollAnswers == PollProcessing \/ PollFailed \/ PollNotFound \/ PollComplete

Answers ==
  \/ StartFails \/ Started \/ StartArrives
  \/ AnalysisFails \/ \E name \in BOOLEAN : AnalysisBack(name)
  \/ \E whole \in BOOLEAN : ReplyEnds(whole) \/ UtteranceBack(whole)

Next ==
  \/ ServerStep \/ Founder \/ PollAnswers \/ PollLost \/ Answers
  \/ Flush \/ StreamDrops
  \/ \E turn \in 1 .. MaxTurns, some \in Followups : FollowupsLand(turn, some)

Spec == Init /\ [][Next]_vars

(* The page's own timers and requests end: the poll sleeps and is answered, *)
(* every other request answers or fails.  The pipeline and analyze are owed *)
(* nothing: a read that hangs has the poll ceiling.                         *)
Fairness == WF_vars(PollAnswers) /\ WF_vars(Answers)

FairSpec == Spec /\ Fairness

-----------------------------------------------------------------------------
(* Properties.                                                              *)

(* Once the site act has closed, every page of the site has been spoken of  *)
(* exactly once, and stays so: a scrape that lands late is not told twice,  *)
(* and the count the session ends with is the count at the close or, when   *)
(* the witnesses were dropped, none (scrapePages).                          *)
SiteActTells ==
  \A s \in Session :
    ActPhase(log[s], "site") = "done" =>
      /\ \A p \in Page : said[s][p] = 1
      /\ scan[s].at # "end" => scan[s].found.pages \in {0, scan[s].pages}

(* A page whose trace was ended by the log shows no act still running:      *)
(* whatever failed on the way closed what it had opened, the acts of the    *)
(* scan, the perimeter that ran behind them and the reading (extractSignals,*)
(* extractAndInfer, analyzeHandler). Of a trace ended by the 160 s timer it *)
(* is not so: a read that hangs is called done with its acts open, in the   *)
(* same words.                                                              *)
TraceIsSettled ==
  page.told = "log" =>
    \A act \in {Lines[i].act : i \in DOMAIN Lines} :
      ActPhase(Lines, act) # "start"

(* The follow-up chips on show were made for the turn on show: an answer    *)
(* that an earlier turn asked for never appears under a later one           *)
(* (turnRef).                                                               *)
ChipsAreThisTurns == page.chips \in {0, page.turn}

(* A read that was sent ends: the bubble comes to say what was read or why  *)
(* nothing was, even when the pipeline behind it never does.                *)
ReadSettles ==
  page.at \in {"starting", "polling", "analyzing"} ~>
    page.at = "rest" /\ page.bubble \notin {"scanning", "writing"}
=============================================================================
