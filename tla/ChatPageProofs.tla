--------------------------- MODULE ChatPageProofs ---------------------------
(* The chat page, for any number of messages, sessions, pages and workers,  *)
(* and answers in any order: the chips on show are of the turn on show, a   *)
(* site act that has closed has spoken of each page once, and a page whose  *)
(* trace the log ended shows no act still running.                          *)
EXTENDS ChatPage, SequenceTheorems, FiniteSetTheorems, WellFoundedInduction, TLAPS

-----------------------------------------------------------------------------
(* The chips.                                                               *)

(* The page is a record with its chips and its turn, and they belong        *)
(* together.                                                                *)
CInv == {"chips", "turn"} \subseteq DOMAIN page /\ ChipsAreThisTurns

(* A change that speaks of neither leaves the chips with their turn.        *)
LEMMA Apart ==
  ASSUME CInv, NEW changes, Show(changes),
         "chips" \notin DOMAIN changes, "turn" \notin DOMAIN changes
  PROVE  CInv'
  BY DEF Show, CInv, ChipsAreThisTurns

(* A message takes the chips with it.                                       *)
LEMMA Cleared ==
  ASSUME CInv, NEW changes, NextTurn(changes)
  PROVE  CInv'
<1>1. DOMAIN page' = DOMAIN page
  BY DEF NextTurn
<1>2. page'["chips"] = 0
  BY DEF NextTurn, CInv
<1> QED
  BY <1>1, <1>2 DEF CInv, ChipsAreThisTurns

(* An answer of an earlier turn changes no chips, one of this turn sets     *)
(* its own.                                                                 *)
LEMMA LandsOnItsTurn ==
  ASSUME CInv, NEW turn, NEW some, FollowupsLand(turn, some)
  PROVE  CInv'
<1> DEFINE now == IF Superseded(turn) THEN page.chips ELSE IF some THEN turn ELSE 0
           changes == [fetches |-> page.fetches \ {turn}, chips |-> now]
<1>1. Show(changes)
  BY DEF FollowupsLand
<1>2. /\ "chips" \in DOMAIN changes /\ changes["chips"] = now
      /\ "turn" \notin DOMAIN changes
  OBVIOUS
<1>3. now \in {0, page.turn}
  BY DEF CInv, ChipsAreThisTurns, Superseded
<1> HIDE DEF changes, now
<1> QED
  BY <1>1, <1>2, <1>3 DEF Show, CInv, ChipsAreThisTurns

(* What the founder does at the page.                                       *)
LEMMA FounderKeeps == ASSUME CInv, Founder PROVE CInv'
<1>1. ASSUME NEW s \in Session, SubmitUrl(s) PROVE CInv'
  BY <1>1, Cleared DEF SubmitUrl
<1>2. CASE CaptureReply
  BY <1>2, Cleared DEF CaptureReply
<1>3. CASE Talk
  BY <1>3, Cleared DEF Talk
<1>4. CASE Utter
  BY <1>4, Cleared DEF Utter
<1>5. CASE ConfirmRoute
  BY <1>5, Apart DEF ConfirmRoute
<1> QED
  BY <1>1, <1>2, <1>3, <1>4, <1>5 DEF Founder

(* What the page's requests answer, and what its timers and streams do.     *)
LEMMA AnswersKeep ==
  ASSUME CInv, PollAnswers \/ PollLost \/ Answers \/ Flush \/ StreamDrops
  PROVE  CInv'
<1>1. ASSUME Fail PROVE CInv'
  BY <1>1, Apart DEF Fail, Failed, Cut
<1>2. CASE PollProcessing
  <2>1. CASE page.polls + 1 < MaxPolls
    BY <1>2, <2>1, Apart DEF PollProcessing
  <2>2. CASE ~(page.polls + 1 < MaxPolls)
    BY <1>2, <2>2, Apart DEF PollProcessing, Failed
  <2> QED
    BY <2>1, <2>2
<1>3. CASE PollFailed \/ PollLost \/ StartFails \/ AnalysisFails
  BY <1>1, <1>3 DEF PollFailed, PollLost, StartFails, AnalysisFails
<1>4. CASE PollNotFound
  BY <1>4, Apart DEF PollNotFound
<1>5. CASE PollComplete
  BY <1>5, Apart DEF PollComplete
<1>6. CASE StartArrives
  BY <1>6 DEF StartArrives, CInv, ChipsAreThisTurns
<1>7. CASE Started
  BY <1>7, Apart DEF Started
<1>8. ASSUME NEW name \in BOOLEAN, AnalysisBack(name) PROVE CInv'
  BY <1>8, Apart DEF AnalysisBack
<1>9. ASSUME NEW whole \in BOOLEAN, ReplyEnds(whole) \/ UtteranceBack(whole) PROVE CInv'
  BY <1>9, Apart DEF ReplyEnds, UtteranceBack
<1>10. CASE Flush \/ StreamDrops
  BY <1>10, Apart DEF Flush, StreamDrops
<1> QED
  BY <1>2, <1>3, <1>4, <1>5, <1>6, <1>7, <1>8, <1>9, <1>10 DEF PollAnswers, Answers

(* The follow-up chips on show were made for the turn on show, whatever the *)
(* order in which the answers to earlier turns come back.                   *)
THEOREM ChipsKeepTheirTurn == Spec => []ChipsAreThisTurns
<1>1. Init => CInv
  BY DEF Init, Resting, Returned, CInv, ChipsAreThisTurns
<1>2. CInv /\ [Next]_vars => CInv'
  <2> SUFFICES ASSUME CInv, [Next]_vars PROVE CInv'
    OBVIOUS
  <2>1. CASE UNCHANGED page
    BY <2>1 DEF CInv, ChipsAreThisTurns
  <2>2. ASSUME NEW turn, NEW some, FollowupsLand(turn, some) PROVE CInv'
    BY <2>2, LandsOnItsTurn
  <2> QED
    BY <2>1, <2>2, FounderKeeps, AnswersKeep DEF Next, ServerStep, vars
<1>3. CInv => ChipsAreThisTurns
  BY DEF CInv
<1> QED
  BY <1>1, <1>2, <1>3, PTL DEF Spec

-----------------------------------------------------------------------------
(* The read: its state.                                                     *)

(* The parts of a log line and the stages of a read.                        *)
Shown == {"start", "done", "skip", "fail"}

Acts ==
  {"preflight", "stream", "perimeter", "site", "perplexity", "gemini",
   "correlate", "corpus", "reading"}

LogLine == [act : Acts, phase : Shown \cup {"__done__"}]

Stages ==
  {"idle", "door", "guard", "home", "pages", "perplexity", "gemini",
   "perimeter", "correlate", "assemble", "corpus", "position", "end"}

ScanFields ==
  {"at", "pages", "next", "flying", "spent", "probe", "engines", "corpus", "found"}

(* The variables of the server are functions of the sessions, and a scan    *)
(* keeps its fields.                                                        *)
ShapeAt(s) ==
  /\ "infer" \in DOMAIN session[s]
  /\ DOMAIN scan[s] = ScanFields
  /\ scan[s].at \in Stages /\ scan[s].pages \in Nat
  /\ "pages" \in DOMAIN scan[s].found /\ scan[s].found.pages \in Nat
  /\ log[s] \in Seq(LogLine)

ServerShape ==
  /\ DOMAIN session = Session /\ DOMAIN log = Session /\ DOMAIN scan = Session
  /\ DOMAIN said = Session /\ DOMAIN analysis = Session
  /\ \A s \in Session : ShapeAt(s)

-----------------------------------------------------------------------------
(* The trace.                                                               *)

(* The line that ends a stream is in the log.                               *)
Whole(lines) == \E i \in DOMAIN lines : lines[i] = StreamDone

(* The acts that a read may have open where it stands: the perimeter probe  *)
(* runs behind the site and the engines, every other act is the one at hand.*)
MayBeOpen(s, act) ==
  \/ act = "perimeter"
       /\ scan[s].at \in {"home", "pages", "perplexity", "gemini", "perimeter"}
  \/ act = "site" /\ scan[s].at \in {"home", "pages"}
  \/ act \in {"perplexity", "gemini", "correlate", "corpus"} /\ scan[s].at = act
  \/ act = "reading" /\ analysis[s] \in {"weigh", "write"}

(* A read whose stream is ended has nothing more to say.                    *)
Finished(s) ==
  /\ scan[s].at = "end"
  /\ \/ analysis[s] \in {"done", "failed"}
     \/ analysis[s] = "none" /\ session[s].infer = "failed"

TraceOf(s) ==
  /\ \A act \in Acts : ActPhase(log[s], act) = "start" => MayBeOpen(s, act)
  /\ Whole(log[s]) => Finished(s)
  /\ session[s].infer = "complete" => scan[s].at = "end"
  /\ analysis[s] # "none" => session[s].infer = "complete"

(* A page asks for the analysis of a read once, and what it was told of it  *)
(* is in the log.                                                           *)
PageOf ==
  /\ {"at", "sid", "traced", "told"} \subseteq DOMAIN page
  /\ page.at \in {"starting", "polling"} =>
       page.sid \in Session /\ analysis[page.sid] = "none"
  /\ page.traced \in Session \cup {NoSession}
  /\ page.told = "log" => page.traced \in Session /\ Whole(log[page.traced])

TInv == ServerShape /\ PageOf /\ \A s \in Session : TraceOf(s)

-----------------------------------------------------------------------------
(* The site act.                                                            *)

(* Before the homepage lands nothing was said and nothing claimed.          *)
Untouched(s) ==
  /\ said[s] = [p \in Page |-> 0]
  /\ scan[s].next = 1 /\ scan[s].flying = {} /\ scan[s].pages = 0

(* While the pool runs a page is claimed once, in flight or spoken of.      *)
PoolRuns(s) ==
  /\ scan[s].next \in 1 .. RestPages + 1
  /\ scan[s].flying \subseteq 1 .. scan[s].next - 1
  /\ said[s] = [p \in Page |->
       IF p < scan[s].next /\ p \notin scan[s].flying THEN 1 ELSE 0]

(* After it every page has been spoken of, or the act was never opened.     *)
PoolClosed(s) ==
  /\ ActPhase(log[s], "site") \in {"none", "done"}
  /\ ActPhase(log[s], "site") = "done" => said[s] = [p \in Page |-> 1]
  /\ scan[s].at # "end" => scan[s].found.pages \in {0, scan[s].pages}

SiteOf(s) ==
  \/ /\ scan[s].at \in {"idle", "door", "guard"} /\ Untouched(s) /\ ~ scan[s].spent
     /\ scan[s].found.pages = 0 /\ ActPhase(log[s], "site") = "none"
  \/ /\ scan[s].at = "home" /\ Untouched(s) /\ ActPhase(log[s], "site") = "start"
  \/ /\ scan[s].at = "pages" /\ PoolRuns(s) /\ ActPhase(log[s], "site") = "start"
  \/ /\ scan[s].at \notin {"idle", "door", "guard", "home", "pages"} /\ PoolClosed(s)

SInv == TInv /\ \A s \in Session : SiteOf(s)

-----------------------------------------------------------------------------
(* Lines.                                                                   *)

(* A set of indices that is not empty has a greatest.                       *)
LEMMA LastIsGreatest ==
  ASSUME NEW n \in Nat, NEW I \in SUBSET (1..n), I # {}
  PROVE  Max(I) \in I /\ \A i \in I : i <= Max(I)
<1> DEFINE D == {n - i : i \in I}
<1>1. D \in SUBSET Nat /\ D # {}
  <2>1. \A i \in I : n - i \in Nat
    OBVIOUS
  <2> QED
    BY <2>1
<1>2. IsWellFoundedOn(OpToRel(<, Nat), Nat)
  BY NatLessThanWellFounded
<1> HIDE DEF D
<1>3. PICK d \in D : \A e \in D : ~(<<e, d>> \in OpToRel(<, Nat))
  BY <1>1, <1>2, WFMin
<1>4. \A e \in D : ~(e < d)
  BY <1>1, <1>3 DEF OpToRel
<1>5. PICK x \in I : d = n - x
  BY <1>3 DEF D
<1>6. \A i \in I : i <= x
  <2> TAKE i \in I
  <2>1. n - i \in D
    BY DEF D
  <2>2. ~(n - i < n - x)
    BY <2>1, <1>4, <1>5
  <2> QED
    BY <2>2
<1> QED
  BY <1>6 DEF Max

(* The lines of an act that show how it stands.                             *)
Showing(lines, act) ==
  {i \in 1..Len(lines) : lines[i].act = act /\ lines[i].phase \in Shown}

(* An act shows the phase of the last of them.                              *)
LEMMA PhaseIsLast ==
  ASSUME NEW lines \in Seq(LogLine), NEW act
  PROVE  ActPhase(lines, act) = IF Showing(lines, act) = {} THEN "none"
                                ELSE lines[Max(Showing(lines, act))].phase
<1> DEFINE I == {i \in 1..Len(lines) :
                   lines[i].act = act /\ lines[i].phase \in {"start", "done", "skip", "fail"}}
<1>1. ActPhase(lines, act) = LET last == IF I # {} THEN Max(I) ELSE 0
                             IN  IF last = 0 THEN "none" ELSE lines[last].phase
  BY DEF ActPhase, SelectLastInSeq
<1>2. Len(lines) \in Nat /\ I \in SUBSET (1..Len(lines))
  OBVIOUS
<1>3. I = Showing(lines, act)
  BY DEF Showing, Shown
<1> HIDE DEF I
<1>4. I # {} => Max(I) # 0
  <2>1. I # {} => Max(I) \in I
    BY <1>2, LastIsGreatest
  <2> QED
    BY <2>1, <1>2
<1> QED
  BY <1>1, <1>3, <1>4

(* One more line shows its act, and no other act differently.               *)
LEMMA OneMoreLine ==
  ASSUME NEW lines \in Seq(LogLine), NEW l \in LogLine
  PROVE  /\ lines \o <<l>> \in Seq(LogLine)
         /\ \A act : ActPhase(lines \o <<l>>, act) =
              IF act = l.act /\ l.phase \in Shown THEN l.phase ELSE ActPhase(lines, act)
         /\ Whole(lines \o <<l>>) <=> Whole(lines) \/ l = StreamDone
<1> DEFINE n == Len(lines)
           more == lines \o <<l>>
<1>1. /\ n \in Nat /\ more \in Seq(LogLine) /\ Len(more) = n + 1 /\ more[n + 1] = l
      /\ \A i \in 1..n : more[i] = lines[i]
      /\ DOMAIN lines = 1..n /\ DOMAIN more = 1..(n + 1)
  OBVIOUS
<1> HIDE DEF more
<1>2. ASSUME NEW act
      PROVE  ActPhase(more, act) =
               IF act = l.act /\ l.phase \in Shown THEN l.phase ELSE ActPhase(lines, act)
  <2> DEFINE I == Showing(lines, act)
             J == Showing(more, act)
  <2>1. ActPhase(lines, act) = IF I = {} THEN "none" ELSE lines[Max(I)].phase
    BY PhaseIsLast
  <2>2. ActPhase(more, act) = IF J = {} THEN "none" ELSE more[Max(J)].phase
    BY <1>1, PhaseIsLast
  <2>3. I \in SUBSET (1..n) /\ J \in SUBSET (1..(n + 1))
    BY <1>1 DEF Showing
  <2>4. \A i \in 1..n : i \in J <=> i \in I
    BY <1>1 DEF Showing
  <2>5. n + 1 \in J <=> act = l.act /\ l.phase \in Shown
    BY <1>1 DEF Showing
  <2> HIDE DEF I, J
  <2>6. CASE n + 1 \in J
    <3>1. n + 1 \in Nat /\ J # {}
      BY <1>1, <2>6
    <3>2. Max(J) \in J /\ \A i \in J : i <= Max(J)
      BY <3>1, <2>3, LastIsGreatest
    <3>3. Max(J) \in 1..(n + 1) /\ n + 1 <= Max(J)
      BY <3>2, <2>3, <2>6
    <3>4. Max(J) = n + 1
      BY ONLY <3>3, <1>1
    <3> QED
      BY <2>2, <2>5, <2>6, <3>1, <3>4, <1>1
  <2>7. CASE n + 1 \notin J
    <3>1. J = I
      <4>1. \A i \in J : i \in 1..n
        BY <2>3, <2>7, <1>1
      <4> QED
        BY <2>3, <2>4, <4>1
    <3>2. CASE I = {}
      BY <2>1, <2>2, <2>5, <2>7, <3>1, <3>2
    <3>3. CASE I # {}
      <4>1. Max(I) \in I
        BY <2>3, <3>3, <1>1, LastIsGreatest
      <4>2. more[Max(I)] = lines[Max(I)]
        BY <4>1, <2>3, <1>1
      <4> QED
        BY <2>1, <2>2, <2>5, <2>7, <3>1, <3>3, <4>2
    <3> QED
      BY <3>2, <3>3
  <2> QED
    BY <2>6, <2>7
<1>3. Whole(more) <=> Whole(lines) \/ l = StreamDone
  BY <1>1 DEF Whole
<1> QED
  BY <1>1, <1>2, <1>3 DEF more

(* Lines that are narrated together are narrated in turn.                   *)
LEMMA InPairs ==
  ASSUME NEW S, NEW a \in S, NEW b \in S, NEW c \in S
  PROVE  <<a>> \o <<b>> = <<a, b>> /\ <<a, b>> \o <<c>> = <<a, b, c>>
<1>1. <<a>> \o <<b>> = <<a, b>>
  <2> DEFINE s == <<a>> \o <<b>>
             t == <<a, b>>
  <2>1. s \in Seq(S) /\ Len(s) = 2 /\ s[1] = a /\ s[2] = b
    OBVIOUS
  <2>2. t \in Seq(S) /\ Len(t) = 2 /\ t[1] = a /\ t[2] = b
    OBVIOUS
  <2> HIDE DEF s, t
  <2>3. \A i \in 1..Len(s) : s[i] = t[i]
    BY <2>1, <2>2
  <2>4. s = t
    BY <2>1, <2>2, <2>3, SeqEqual
  <2> QED
    BY <2>4 DEF s, t
<1>2. <<a, b>> \o <<c>> = <<a, b, c>>
  <2> DEFINE pair == <<a, b>>
             one == <<c>>
             s == pair \o one
             t == <<a, b, c>>
  <2>1. pair \in Seq(S) /\ Len(pair) = 2 /\ pair[1] = a /\ pair[2] = b
    OBVIOUS
  <2>2. one \in Seq(S) /\ Len(one) = 1 /\ one[1] = c
    OBVIOUS
  <2>3. t \in Seq(S) /\ Len(t) = 3 /\ t[1] = a /\ t[2] = b /\ t[3] = c
    OBVIOUS
  <2> HIDE DEF pair, one
  <2>4. s \in Seq(S) /\ Len(s) = 3 /\ s[1] = a /\ s[2] = b /\ s[3] = c
    <3>1. pair \in Seq(S) /\ one \in Seq(S)
      BY <2>1, <2>2
    <3>2. /\ s \in Seq(S) /\ Len(s) = Len(pair) + Len(one)
          /\ \A i \in 1 .. Len(pair) + Len(one) :
               s[i] = IF i <= Len(pair) THEN pair[i] ELSE one[i - Len(pair)]
      BY ONLY <3>1, ConcatProperties, Zenon
    <3> HIDE DEF s
    <3>3. \A i \in 1 .. 3 : s[i] = IF i <= 2 THEN pair[i] ELSE one[i - 2]
      BY <2>1, <2>2, <3>2
    <3>4. s[1] = pair[1] /\ s[2] = pair[2] /\ s[3] = one[1]
      BY <3>3
    <3> QED
      BY <2>1, <2>2, <3>2, <3>4
  <2> HIDE DEF s, t
  <2>5. \A i \in 1..Len(s) : s[i] = t[i]
    BY <2>3, <2>4
  <2>6. s = t
    BY <2>3, <2>4, <2>5, SeqEqual
  <2> QED
    BY <2>6 DEF s, t, pair, one
<1> QED
  BY <1>1, <1>2

(* To narrate two lines or three is to narrate one after the other.         *)
LEMMA InTurn ==
  ASSUME NEW lines \in Seq(LogLine),
         NEW a \in LogLine, NEW b \in LogLine, NEW c \in LogLine
  PROVE  /\ lines \o <<a, b>> = (lines \o <<a>>) \o <<b>>
         /\ lines \o <<a, b, c>> = ((lines \o <<a>>) \o <<b>>) \o <<c>>
<1>1. /\ <<a>> \in Seq(LogLine) /\ <<b>> \in Seq(LogLine) /\ <<c>> \in Seq(LogLine)
      /\ <<a, b>> \in Seq(LogLine)
  OBVIOUS
<1>2. <<a, b>> = <<a>> \o <<b>> /\ <<a, b, c>> = <<a, b>> \o <<c>>
  BY InPairs
<1>3. lines \o (<<a>> \o <<b>>) = (lines \o <<a>>) \o <<b>>
  BY <1>1, ConcatAssociative
<1>4. lines \o (<<a, b>> \o <<c>>) = (lines \o <<a, b>>) \o <<c>>
  BY <1>1, ConcatAssociative
<1> QED
  BY <1>2, <1>3, <1>4, Zenon

(* What narrating a line, two or three leaves of a session's trace.         *)
Narrated(s, ls) ==
  /\ DOMAIN log' = Session /\ log'[s] \in Seq(LogLine)
  /\ \A u \in Session \ {s} : log'[u] = log[u]
  /\ Whole(log'[s]) <=> Whole(log[s]) \/ StreamDone \in ls

(* One line.                                                                *)
LEMMA NarrateOne ==
  ASSUME ServerShape, NEW s \in Session, NEW a \in LogLine, Narrate(s, <<a>>)
  PROVE  /\ Narrated(s, {a})
         /\ \A act : ActPhase(log'[s], act) =
              IF act = a.act /\ a.phase \in Shown THEN a.phase
              ELSE ActPhase(log[s], act)
<1>1. DOMAIN log = Session /\ log[s] \in Seq(LogLine)
  BY DEF ServerShape, ShapeAt
<1>2. DOMAIN log' = Session /\ log'[s] = log[s] \o <<a>>
      /\ \A u \in Session \ {s} : log'[u] = log[u]
  BY <1>1 DEF Narrate
<1> QED
  BY <1>1, <1>2, OneMoreLine DEF Narrated

(* Two lines: the later shows where both are of an act.                     *)
LEMMA NarrateTwo ==
  ASSUME ServerShape, NEW s \in Session, NEW a \in LogLine, NEW b \in LogLine,
         Narrate(s, <<a, b>>)
  PROVE  /\ Narrated(s, {a, b})
         /\ \A act : ActPhase(log'[s], act) =
              IF act = b.act /\ b.phase \in Shown THEN b.phase
              ELSE IF act = a.act /\ a.phase \in Shown THEN a.phase
              ELSE ActPhase(log[s], act)
<1>1. DOMAIN log = Session /\ log[s] \in Seq(LogLine)
  BY DEF ServerShape, ShapeAt
<1> DEFINE first == log[s] \o <<a>>
<1>2. log[s] \o <<a, b>> = first \o <<b>>
  BY <1>1, InTurn
<1>3. DOMAIN log' = Session /\ log'[s] = first \o <<b>>
      /\ \A u \in Session \ {s} : log'[u] = log[u]
  BY <1>1, <1>2 DEF Narrate
<1>4. /\ first \in Seq(LogLine)
      /\ \A act : ActPhase(first, act) =
           IF act = a.act /\ a.phase \in Shown THEN a.phase ELSE ActPhase(log[s], act)
      /\ Whole(first) <=> Whole(log[s]) \/ a = StreamDone
  BY <1>1, OneMoreLine
<1> HIDE DEF first
<1> QED
  BY <1>3, <1>4, OneMoreLine DEF Narrated

(* Three lines.                                                             *)
LEMMA NarrateThree ==
  ASSUME ServerShape, NEW s \in Session,
         NEW a \in LogLine, NEW b \in LogLine, NEW c \in LogLine,
         Narrate(s, <<a, b, c>>)
  PROVE  /\ Narrated(s, {a, b, c})
         /\ \A act : ActPhase(log'[s], act) =
              IF act = c.act /\ c.phase \in Shown THEN c.phase
              ELSE IF act = b.act /\ b.phase \in Shown THEN b.phase
              ELSE IF act = a.act /\ a.phase \in Shown THEN a.phase
              ELSE ActPhase(log[s], act)
<1>1. DOMAIN log = Session /\ log[s] \in Seq(LogLine)
  BY DEF ServerShape, ShapeAt
<1> DEFINE first == log[s] \o <<a>>
           second == first \o <<b>>
<1>2. log[s] \o <<a, b, c>> = second \o <<c>>
  <2> DEFINE lines == log[s]
  <2>1. lines \in Seq(LogLine)
    BY <1>1
  <2> HIDE DEF lines
  <2>2. lines \o <<a, b, c>> = ((lines \o <<a>>) \o <<b>>) \o <<c>>
    BY <2>1, InTurn
  <2> QED
    BY <2>2 DEF lines
<1>3. DOMAIN log' = Session /\ log'[s] = second \o <<c>>
      /\ \A u \in Session \ {s} : log'[u] = log[u]
  BY <1>1, <1>2 DEF Narrate
<1>4. /\ first \in Seq(LogLine)
      /\ \A act : ActPhase(first, act) =
           IF act = a.act /\ a.phase \in Shown THEN a.phase ELSE ActPhase(log[s], act)
      /\ Whole(first) <=> Whole(log[s]) \/ a = StreamDone
  BY <1>1, OneMoreLine
<1> HIDE DEF first
<1>5. /\ second \in Seq(LogLine)
      /\ \A act : ActPhase(second, act) =
           IF act = b.act /\ b.phase \in Shown THEN b.phase ELSE ActPhase(first, act)
      /\ Whole(second) <=> Whole(first) \/ b = StreamDone
  BY <1>4, OneMoreLine
<1> HIDE DEF second
<1> QED
  BY <1>3, <1>4, <1>5, OneMoreLine DEF Narrated

-----------------------------------------------------------------------------
(* Steps of the server.                                                     *)

(* A step for one session leaves the others alone.                          *)
Only(s) ==
  /\ DOMAIN session' = Session /\ DOMAIN log' = Session /\ DOMAIN scan' = Session
  /\ DOMAIN said' = Session /\ DOMAIN analysis' = Session
  /\ \A u \in Session \ {s} :
       /\ session'[u] = session[u] /\ log'[u] = log[u] /\ scan'[u] = scan[u]
       /\ said'[u] = said[u] /\ analysis'[u] = analysis[u]

(* What a step for a session does to it, as far as a page is concerned.     *)
Moves(s) ==
  /\ Only(s)
  /\ ShapeAt(s)' /\ TraceOf(s)' /\ SiteOf(s)'
  /\ analysis[s] = "none" => analysis'[s] = "none"
  /\ Whole(log[s]) => Whole(log'[s])

(* Such a step keeps what is known of every session.                        *)
LEMMA MovesKeep ==
  ASSUME SInv, NEW s \in Session, Moves(s)
  PROVE  /\ ServerShape' /\ \A u \in Session : TraceOf(u)' /\ SiteOf(u)'
         /\ \A u \in Session : analysis[u] = "none" => analysis'[u] = "none"
         /\ \A u \in Session : Whole(log[u]) => Whole(log'[u])
<1>1. ASSUME NEW u \in Session \ {s}
      PROVE  ShapeAt(u)' /\ TraceOf(u)' /\ SiteOf(u)'
  <2>1. /\ session'[u] = session[u] /\ log'[u] = log[u] /\ scan'[u] = scan[u]
        /\ said'[u] = said[u] /\ analysis'[u] = analysis[u]
    BY DEF Moves, Only
  <2>2. ShapeAt(u) /\ TraceOf(u) /\ SiteOf(u)
    BY DEF SInv, TInv, ServerShape
  <2>3. ShapeAt(u)'
    BY <2>1, <2>2 DEF ShapeAt
  <2>4. TraceOf(u)'
    BY <2>1, <2>2 DEF TraceOf, MayBeOpen, Finished
  <2>5. SiteOf(u)'
    BY <2>1, <2>2 DEF SiteOf, Untouched, PoolRuns, PoolClosed
  <2> QED
    BY <2>3, <2>4, <2>5
<1>2. ServerShape'
  BY <1>1 DEF Moves, Only, ServerShape
<1>3. \A u \in Session : TraceOf(u)' /\ SiteOf(u)'
  BY <1>1 DEF Moves
<1>4. \A u \in Session :
        /\ analysis[u] = "none" => analysis'[u] = "none"
        /\ Whole(log[u]) => Whole(log'[u])
  BY DEF Moves, Only
<1> QED
  BY <1>2, <1>3, <1>4

(* What is known of the session a step is for.                              *)
LEMMA KnownOf ==
  ASSUME SInv, NEW s \in Session
  PROVE  /\ ServerShape /\ ShapeAt(s) /\ TraceOf(s) /\ SiteOf(s)
         /\ DOMAIN session = Session /\ DOMAIN log = Session /\ DOMAIN scan = Session
         /\ DOMAIN said = Session /\ DOMAIN analysis = Session
  BY DEF SInv, TInv, ServerShape

(* After the site act a step that leaves it alone keeps it closed.          *)
LEMMA StaysClosed ==
  ASSUME NEW s \in Session, SiteOf(s),
         scan[s].at \notin {"idle", "door", "guard", "home", "pages"},
         scan'[s].at \notin {"idle", "door", "guard", "home", "pages"},
         said'[s] = said[s],
         ActPhase(log'[s], "site") = ActPhase(log[s], "site"),
         scan'[s].at # "end" => scan'[s].found.pages \in {0, scan'[s].pages}
  PROVE  SiteOf(s)'
  BY DEF SiteOf, PoolClosed

(* start and the door.                                                      *)
LEMMA StartMoves == ASSUME SInv, NEW s \in Session, Start(s) PROVE Moves(s)
<1>1. /\ ShapeAt(s) /\ TraceOf(s) /\ SiteOf(s)
      /\ DOMAIN session = Session /\ DOMAIN log = Session /\ DOMAIN scan = Session
      /\ DOMAIN said = Session /\ DOMAIN analysis = Session
  BY KnownOf
<1>2. /\ scan[s].at = "idle" /\ UNCHANGED <<log, said, analysis>>
      /\ session' = [session EXCEPT ![s].infer = "processing"]
      /\ scan' = [scan EXCEPT ![s].at = "door"]
  BY DEF Start, At, Goto
<1>3. Only(s)
  BY <1>1, <1>2 DEF Only
<1>4. /\ DOMAIN scan'[s] = ScanFields /\ scan'[s].at = "door"
      /\ \A f \in ScanFields \ {"at"} : scan'[s][f] = scan[s][f]
      /\ "infer" \in DOMAIN session'[s]
  BY <1>1, <1>2 DEF ShapeAt, ScanFields
<1>5. /\ scan'[s].pages = scan[s].pages /\ scan'[s].next = scan[s].next
      /\ scan'[s].flying = scan[s].flying /\ scan'[s].spent = scan[s].spent
      /\ scan'[s].found = scan[s].found
  BY <1>4 DEF ScanFields
<1>6. ShapeAt(s)'
  BY <1>1, <1>2, <1>4, <1>5 DEF ShapeAt, Stages
<1>7. TraceOf(s)'
  BY <1>1, <1>2, <1>4 DEF TraceOf, MayBeOpen, Finished
<1>8. SiteOf(s)'
  BY <1>1, <1>2, <1>4, <1>5 DEF SiteOf, Untouched
<1> QED
  BY <1>2, <1>3, <1>6, <1>7, <1>8 DEF Moves

(* Steps that move a scan and say nothing.                                  *)
LEMMA QuietMoves ==
  ASSUME SInv, NEW s \in Session,
         DoorOpen(s) \/ FallBack(s) \/ ProbeSettles(s) \/ DeadlinePasses(s)
  PROVE  Moves(s)
<1>1. /\ ShapeAt(s) /\ TraceOf(s) /\ SiteOf(s)
      /\ DOMAIN session = Session /\ DOMAIN log = Session /\ DOMAIN scan = Session
      /\ DOMAIN said = Session /\ DOMAIN analysis = Session
  BY KnownOf
<1>2. UNCHANGED <<session, log, said, analysis>>
  BY DEF DoorOpen, FallBack, ProbeSettles, DeadlinePasses
<1>3. CASE DoorOpen(s)
  <2>1. scan[s].at = "door" /\ scan' = [scan EXCEPT ![s].at = "guard"]
    BY <1>3 DEF DoorOpen, At, Goto
  <2>2. Only(s)
    BY <1>1, <1>2, <2>1 DEF Only
  <2>3. /\ DOMAIN scan'[s] = ScanFields /\ scan'[s].at = "guard"
        /\ scan'[s].pages = scan[s].pages /\ scan'[s].next = scan[s].next
        /\ scan'[s].flying = scan[s].flying /\ scan'[s].spent = scan[s].spent
        /\ scan'[s].found = scan[s].found
    BY <1>1, <2>1 DEF ShapeAt, ScanFields
  <2>4. ShapeAt(s)' /\ TraceOf(s)' /\ SiteOf(s)'
    <3>1. ShapeAt(s)'
      BY <1>1, <1>2, <2>3 DEF ShapeAt, Stages
    <3>2. TraceOf(s)'
      BY <1>1, <1>2, <2>1, <2>3 DEF TraceOf, MayBeOpen, Finished
    <3>3. SiteOf(s)'
      BY <1>1, <1>2, <2>1, <2>3 DEF SiteOf, Untouched
    <3> QED
      BY <3>1, <3>2, <3>3
  <2> QED
    BY <1>2, <2>2, <2>4 DEF Moves
<1>4. CASE FallBack(s)
  <2>1. scan[s].at = "guard" /\ scan' = [scan EXCEPT ![s].at = "assemble"]
    BY <1>4 DEF FallBack, At, Goto
  <2>2. Only(s)
    BY <1>1, <1>2, <2>1 DEF Only
  <2>3. /\ DOMAIN scan'[s] = ScanFields /\ scan'[s].at = "assemble"
        /\ scan'[s].pages = scan[s].pages /\ scan'[s].found = scan[s].found
    BY <1>1, <2>1 DEF ShapeAt, ScanFields
  <2>4. ShapeAt(s)' /\ TraceOf(s)' /\ SiteOf(s)'
    <3>1. ShapeAt(s)'
      BY <1>1, <1>2, <2>3 DEF ShapeAt, Stages
    <3>2. TraceOf(s)'
      BY <1>1, <1>2, <2>1, <2>3 DEF TraceOf, MayBeOpen, Finished
    <3>3. SiteOf(s)'
      BY <1>1, <1>2, <2>1, <2>3 DEF SiteOf, PoolClosed
    <3> QED
      BY <3>1, <3>2, <3>3
  <2> QED
    BY <1>2, <2>2, <2>4 DEF Moves
<1>5. CASE ProbeSettles(s) \/ DeadlinePasses(s)
  <2>1. \/ \E result : scan' = [scan EXCEPT ![s].probe = result]
        \/ SiteOpen(s) /\ scan' = [scan EXCEPT ![s].spent = TRUE]
    BY <1>5 DEF ProbeSettles, DeadlinePasses
  <2>2. Only(s)
    BY <1>1, <1>2, <2>1 DEF Only
  <2>3. /\ DOMAIN scan'[s] = ScanFields /\ scan'[s].at = scan[s].at
        /\ scan'[s].pages = scan[s].pages /\ scan'[s].next = scan[s].next
        /\ scan'[s].flying = scan[s].flying /\ scan'[s].found = scan[s].found
        /\ SiteOpen(s) \/ scan'[s].spent = scan[s].spent
    BY <1>1, <2>1 DEF ShapeAt, ScanFields
  <2>4. ShapeAt(s)'
    BY <1>1, <1>2, <2>3 DEF ShapeAt
  <2>5. TraceOf(s)'
    BY <1>1, <1>2, <2>3 DEF TraceOf, MayBeOpen, Finished
  <2>6. SiteOf(s)'
    BY <1>1, <1>2, <2>3 DEF SiteOf, Untouched, PoolRuns, PoolClosed, SiteOpen
  <2> QED
    BY <1>2, <2>2, <2>4, <2>5, <2>6 DEF Moves
<1> QED
  BY <1>3, <1>4, <1>5

(* The lines the code narrates.                                             *)
LEMMA LinesAre ==
  ASSUME NEW act \in Acts, NEW phase \in Shown
  PROVE  /\ Line(act, phase) \in LogLine /\ Line(act, phase) # StreamDone
         /\ Line(act, phase).act = act /\ Line(act, phase).phase = phase
         /\ StreamDone \in LogLine /\ StreamDone.phase \notin Shown
  BY DEF Line, LogLine, StreamDone, Acts, Shown

(* The site act and the perimeter are opened together.                      *)
LEMMA OpenMoves == ASSUME SInv, NEW s \in Session, OpenActs(s) PROVE Moves(s)
<1>1. /\ ServerShape /\ ShapeAt(s) /\ TraceOf(s) /\ SiteOf(s)
      /\ DOMAIN session = Session /\ DOMAIN log = Session /\ DOMAIN scan = Session
      /\ DOMAIN said = Session /\ DOMAIN analysis = Session
  BY KnownOf
<1> DEFINE a == Line("perimeter", "start")
           b == Line("site", "start")
<1>2. /\ scan[s].at = "guard" /\ UNCHANGED <<session, said, analysis>>
      /\ Narrate(s, <<a, b>>)
      /\ scan' = [scan EXCEPT ![s].at = "home", ![s].probe = "running"]
  BY DEF OpenActs, At
<1>3. /\ a \in LogLine /\ b \in LogLine /\ a # StreamDone /\ b # StreamDone
      /\ a.act = "perimeter" /\ a.phase = "start" /\ b.act = "site" /\ b.phase = "start"
  BY LinesAre DEF Acts, Shown
<1> HIDE DEF a, b
<1>4. /\ Narrated(s, {a, b})
      /\ \A act : ActPhase(log'[s], act) =
           IF act = "site" THEN "start" ELSE IF act = "perimeter" THEN "start"
           ELSE ActPhase(log[s], act)
  <2>1. /\ Narrated(s, {a, b})
        /\ \A act : ActPhase(log'[s], act) =
             IF act = b.act /\ b.phase \in Shown THEN b.phase
             ELSE IF act = a.act /\ a.phase \in Shown THEN a.phase
             ELSE ActPhase(log[s], act)
    BY <1>1, <1>2, <1>3, NarrateTwo
  <2> QED
    BY <2>1, <1>3 DEF Shown
<1>5. /\ DOMAIN scan'[s] = ScanFields /\ scan'[s].at = "home"
      /\ scan'[s].pages = scan[s].pages /\ scan'[s].next = scan[s].next
      /\ scan'[s].flying = scan[s].flying /\ scan'[s].found = scan[s].found
  BY <1>1, <1>2 DEF ShapeAt, ScanFields
<1>6. Only(s)
  BY <1>1, <1>2, <1>4 DEF Only, Narrated
<1>7. ShapeAt(s)'
  BY <1>1, <1>2, <1>4, <1>5 DEF ShapeAt, Stages, Narrated
<1>8. Whole(log'[s]) <=> Whole(log[s])
  BY <1>3, <1>4 DEF Narrated
<1>9. TraceOf(s)'
  BY <1>1, <1>2, <1>4, <1>5, <1>8 DEF TraceOf, MayBeOpen, Finished, Acts
<1>10. SiteOf(s)'
  BY <1>1, <1>2, <1>4, <1>5 DEF SiteOf, Untouched
<1> QED
  BY <1>2, <1>6, <1>7, <1>8, <1>9, <1>10 DEF Moves

(* The pages a worker claims are the next ones.                             *)
LEMMA ClaimIsNext ==
  ASSUME NEW s \in Session, NEW n \in Nat, scan[s].next \in 1 .. RestPages + 1
  PROVE  \E k \in Nat : /\ Claim(s, n) = scan[s].next .. scan[s].next + k - 1
                        /\ Cardinality(Claim(s, n)) = k
                        /\ scan[s].next + k <= RestPages + 1
<1> DEFINE from == scan[s].next
<1>1. RestPages \in Nat /\ from \in Nat /\ from >= 1 /\ from <= RestPages + 1
  BY ColdReadAssumption
<1> DEFINE k == IF scan[s].spent THEN 0
                ELSE IF n < RestPages + 1 - from THEN n ELSE RestPages + 1 - from
<1>2. k \in Nat /\ from + k <= RestPages + 1
  BY <1>1
<1>3. Claim(s, n) = from .. from + k - 1
  BY <1>1 DEF Claim, Claimable
<1>4. Cardinality(from .. from + k - 1) = k
  <2>1. from \in Int /\ from + k - 1 \in Int
    BY <1>1, <1>2
  <2> HIDE DEF k, from
  <2>2. Cardinality(from .. from + k - 1)
          = IF from > from + k - 1 THEN 0 ELSE (from + k - 1) - from + 1
    BY ONLY <2>1, FS_Interval, Zenon
  <2> QED
    BY <1>1, <1>2, <2>2
<1> HIDE DEF k, from
<1> QED
  BY <1>2, <1>3, <1>4 DEF from

(* The homepage lands, and the workers start.                               *)
LEMMA HomeMoves ==
  ASSUME SInv, NEW s \in Session, NEW ok \in Scraped, HomeLands(s, ok)
  PROVE  Moves(s)
<1>1. /\ ShapeAt(s) /\ TraceOf(s) /\ SiteOf(s)
      /\ DOMAIN session = Session /\ DOMAIN log = Session /\ DOMAIN scan = Session
      /\ DOMAIN said = Session /\ DOMAIN analysis = Session
  BY KnownOf
<1> DEFINE taken == Claim(s, ScrapeConcurrency)
<1>2. /\ scan[s].at = "home" /\ UNCHANGED <<session, log, analysis>>
      /\ said' = [said EXCEPT ![s][0] = @ + 1]
      /\ scan' = [scan EXCEPT ![s].at = "pages", ![s].pages = Read(s, ok),
                              ![s].flying = taken,
                              ![s].next = @ + Cardinality(taken)]
  BY DEF HomeLands, At, Emit, SiteOpen
<1>3. /\ Untouched(s) /\ ActPhase(log[s], "site") = "start"
      /\ scan[s].next = 1 /\ RestPages \in Nat /\ 0 \in Page
  BY <1>1, <1>2, ColdReadAssumption DEF SiteOf, Untouched, Page
<1>4. PICK k \in Nat : /\ taken = 1 .. k /\ Cardinality(taken) = k /\ 1 + k <= RestPages + 1
  <2>1. scan[s].next \in 1 .. RestPages + 1 /\ ScrapeConcurrency \in Nat
    BY <1>3, ColdReadAssumption
  <2>2. PICK k \in Nat : /\ taken = 1 .. 1 + k - 1 /\ Cardinality(taken) = k
                         /\ 1 + k <= RestPages + 1
    BY <1>3, <2>1, ClaimIsNext
  <2>3. 1 + k - 1 = k
    OBVIOUS
  <2> HIDE DEF taken
  <2> QED
    BY <2>2, <2>3
<1> HIDE DEF taken
<1>5. Read(s, ok) \in Nat
  BY <1>1 DEF Read, ShapeAt
<1>6. /\ DOMAIN scan'[s] = ScanFields /\ scan'[s].at = "pages"
      /\ scan'[s].pages = Read(s, ok) /\ scan'[s].next = 1 + k
      /\ scan'[s].flying = 1 .. k /\ scan'[s].found = scan[s].found
  BY <1>1, <1>2, <1>3, <1>4 DEF ShapeAt, ScanFields
<1>7. Only(s)
  BY <1>1, <1>2 DEF Only
<1>8. ShapeAt(s)'
  BY <1>1, <1>2, <1>5, <1>6 DEF ShapeAt, Stages
<1>9. TraceOf(s)'
  BY <1>1, <1>2, <1>6 DEF TraceOf, MayBeOpen, Finished
<1>10. PoolRuns(s)'
  <2>1. said'[s] = [p \in Page |-> IF p = 0 THEN 1 ELSE 0]
    BY <1>1, <1>2, <1>3 DEF Untouched
  <2>2. \A p \in Page : p < 1 + k /\ p \notin 1 .. k <=> p = 0
    BY <1>3 DEF Page
  <2>3. said'[s] = [p \in Page |-> IF p < 1 + k /\ p \notin 1 .. k THEN 1 ELSE 0]
    BY <2>1, <2>2
  <2>4. 1 + k \in 1 .. RestPages + 1 /\ 1 .. k \subseteq 1 .. (1 + k) - 1
    BY <1>3, <1>4
  <2> QED
    BY <2>3, <2>4, <1>6 DEF PoolRuns
<1>11. SiteOf(s)'
  BY <1>2, <1>3, <1>6, <1>10 DEF SiteOf
<1> QED
  BY <1>2, <1>7, <1>8, <1>9, <1>11 DEF Moves

(* A page lands: in the read, or after its act has closed.                  *)
LEMMA PageMoves ==
  ASSUME SInv, NEW s \in Session, NEW p \in Page, NEW ok \in Scraped, PageLands(s, p, ok)
  PROVE  Moves(s)
<1>1. /\ ShapeAt(s) /\ TraceOf(s) /\ SiteOf(s)
      /\ DOMAIN session = Session /\ DOMAIN log = Session /\ DOMAIN scan = Session
      /\ DOMAIN said = Session /\ DOMAIN analysis = Session
  BY KnownOf
<1> DEFINE taken == IF SiteOpen(s) THEN Claim(s, 1) ELSE {}
           more == IF SiteOpen(s) THEN 1 ELSE 0
<1>2. /\ p \in scan[s].flying /\ UNCHANGED <<session, log, analysis>>
      /\ said' = [said EXCEPT ![s][p] = @ + more]
      /\ scan' = [scan EXCEPT ![s].pages = Read(s, ok),
                              ![s].flying = (@ \ {p}) \cup taken,
                              ![s].next = @ + Cardinality(taken)]
  BY DEF PageLands, Emit
<1> HIDE DEF taken, more
<1>3. Read(s, ok) \in Nat /\ (~ SiteOpen(s) => Read(s, ok) = scan[s].pages)
  BY <1>1 DEF Read, ShapeAt
<1>4. /\ DOMAIN scan'[s] = ScanFields /\ scan'[s].at = scan[s].at
      /\ scan'[s].pages = Read(s, ok) /\ scan'[s].next = scan[s].next + Cardinality(taken)
      /\ scan'[s].flying = (scan[s].flying \ {p}) \cup taken
      /\ scan'[s].found = scan[s].found
  BY <1>1, <1>2 DEF ShapeAt, ScanFields
<1>5. Only(s)
  BY <1>1, <1>2 DEF Only
<1>6. ShapeAt(s)'
  BY <1>1, <1>2, <1>3, <1>4 DEF ShapeAt
<1>7. TraceOf(s)'
  BY <1>1, <1>2, <1>4 DEF TraceOf, MayBeOpen, Finished
<1>8. scan[s].at \notin {"idle", "door", "guard", "home"}
  BY <1>1, <1>2 DEF SiteOf, Untouched
<1>9. CASE scan[s].at = "pages"
  <2>1. PoolRuns(s) /\ ActPhase(log[s], "site") = "start" /\ SiteOpen(s)
    BY <1>1, <1>9 DEF SiteOf, SiteOpen
  <2> DEFINE next == scan[s].next
             flying == scan[s].flying
  <2>2. /\ next \in 1 .. RestPages + 1 /\ flying \subseteq 1 .. next - 1
        /\ said[s] = [q \in Page |-> IF q < next /\ q \notin flying THEN 1 ELSE 0]
        /\ RestPages \in Nat /\ more = 1
    BY <2>1, ColdReadAssumption DEF PoolRuns, more
  <2>3. PICK k \in Nat : /\ taken = next .. next + k - 1 /\ Cardinality(taken) = k
                         /\ next + k <= RestPages + 1
    BY <2>1, <2>2, ClaimIsNext DEF taken
  <2> HIDE DEF next, flying
  <2>4. scan'[s].next = next + k /\ scan'[s].flying = (flying \ {p}) \cup (next .. next + k - 1)
    BY <1>4, <2>3 DEF next, flying
  <2>5. p \in 1 .. next - 1 /\ p \in flying
    BY <1>2, <2>2 DEF flying
  <2>6. said'[s] = [q \in Page |-> IF q = p THEN 1 ELSE said[s][q]]
    BY <1>1, <1>2, <2>2, <2>5
  <2>7. \A q \in Page :
          (q < next + k /\ q \notin (flying \ {p}) \cup (next .. next + k - 1))
            <=> (q = p \/ (q < next /\ q \notin flying))
    BY <2>2, <2>3, <2>5 DEF Page
  <2>8. said'[s] = [q \in Page |->
          IF q < next + k /\ q \notin (flying \ {p}) \cup (next .. next + k - 1)
          THEN 1 ELSE 0]
    BY <2>2, <2>6, <2>7
  <2>9. /\ next + k \in 1 .. RestPages + 1
        /\ (flying \ {p}) \cup (next .. next + k - 1) \subseteq 1 .. (next + k) - 1
    <3>1. next \in Nat /\ next >= 1 /\ next + k \in 1 .. RestPages + 1
      BY <2>2, <2>3
    <3>2. \A q \in flying : q \in 1 .. (next + k) - 1
      BY <2>2, <3>1
    <3>3. \A q \in next .. next + k - 1 : q \in 1 .. (next + k) - 1
      BY <3>1
    <3> QED
      BY <3>1, <3>2, <3>3
  <2>10. PoolRuns(s)'
    BY <2>4, <2>8, <2>9 DEF PoolRuns
  <2> QED
    BY <1>2, <1>4, <1>5, <1>6, <1>7, <1>9, <2>1, <2>10 DEF SiteOf, Moves
<1>10. CASE scan[s].at # "pages"
  <2>1. ~ SiteOpen(s) /\ PoolClosed(s)
    BY <1>1, <1>8, <1>10 DEF SiteOpen, SiteOf
  <2>2. more = 0
    BY <2>1 DEF more
  <2>3. ActPhase(log[s], "site") = "done" => said'[s] = said[s]
    BY <1>1, <1>2, <2>1, <2>2 DEF PoolClosed
  <2>4. PoolClosed(s)'
    BY <1>2, <1>3, <1>4, <2>1, <2>3 DEF PoolClosed
  <2> QED
    BY <1>2, <1>4, <1>5, <1>6, <1>7, <1>8, <1>10, <2>4 DEF SiteOf, Moves
<1> QED
  BY <1>9, <1>10

(* The act closes, over every page nobody spoke of.                         *)
LEMMA SiteCloseMoves ==
  ASSUME SInv, NEW s \in Session, SiteCloses(s)
  PROVE  Moves(s)
<1>1. /\ ServerShape /\ ShapeAt(s) /\ TraceOf(s) /\ SiteOf(s)
      /\ DOMAIN session = Session /\ DOMAIN log = Session /\ DOMAIN scan = Session
      /\ DOMAIN said = Session /\ DOMAIN analysis = Session
  BY KnownOf
<1> DEFINE a == Line("site", "done")
           b == Line("perplexity", "start")
<1>2. /\ scan[s].at = "pages" /\ UNCHANGED <<session, analysis>>
      /\ said' = [said EXCEPT ![s] = [p \in Page |->
                    @[p] + (IF p \in Unreported(s) THEN 1 ELSE 0)]]
      /\ Narrate(s, <<a, b>>)
      /\ scan' = [scan EXCEPT ![s].at = "perplexity",
                              ![s].next = 1, ![s].spent = FALSE,
                              ![s].found = [NothingFound EXCEPT !.pages =
                                              scan[s].pages]]
  BY DEF SiteCloses, At
<1>3. /\ a \in LogLine /\ b \in LogLine /\ a # StreamDone /\ b # StreamDone
      /\ a.act = "site" /\ a.phase = "done" /\ b.act = "perplexity" /\ b.phase = "start"
  BY LinesAre DEF Acts, Shown
<1> HIDE DEF a, b
<1>4. /\ Narrated(s, {a, b})
      /\ \A act : ActPhase(log'[s], act) =
           IF act = "perplexity" THEN "start" ELSE IF act = "site" THEN "done"
           ELSE ActPhase(log[s], act)
  <2>1. /\ Narrated(s, {a, b})
        /\ \A act : ActPhase(log'[s], act) =
             IF act = b.act /\ b.phase \in Shown THEN b.phase
             ELSE IF act = a.act /\ a.phase \in Shown THEN a.phase
             ELSE ActPhase(log[s], act)
    BY <1>1, <1>2, <1>3, NarrateTwo
  <2> QED
    BY <2>1, <1>3 DEF Shown
<1> DEFINE found == [NothingFound EXCEPT !.pages = scan[s].pages]
<1>5. "pages" \in DOMAIN found /\ found.pages = scan[s].pages
  BY DEF NothingFound
<1> HIDE DEF found
<1>6. /\ DOMAIN scan'[s] = ScanFields /\ scan'[s].at = "perplexity"
      /\ scan'[s].pages = scan[s].pages /\ scan'[s].found = found
  BY <1>1, <1>2 DEF ShapeAt, ScanFields, found
<1>7. Only(s)
  BY <1>1, <1>2, <1>4 DEF Only, Narrated
<1>8. ShapeAt(s)'
  BY <1>1, <1>2, <1>4, <1>5, <1>6 DEF ShapeAt, Stages, Narrated
<1>9. Whole(log'[s]) <=> Whole(log[s])
  BY <1>3, <1>4 DEF Narrated
<1>10. TraceOf(s)'
  BY <1>1, <1>2, <1>4, <1>6, <1>9 DEF TraceOf, MayBeOpen, Finished, Acts
<1>11. said'[s] = [p \in Page |-> 1]
  <2>1. PoolRuns(s)
    BY <1>1, <1>2 DEF SiteOf
  <2>2. said'[s] = [p \in Page |-> said[s][p] + (IF p \in Unreported(s) THEN 1 ELSE 0)]
    BY <1>1, <1>2
  <2>3. ASSUME NEW p \in Page
        PROVE  said[s][p] + (IF p \in Unreported(s) THEN 1 ELSE 0) = 1
    <3>1. said[s][p] \in {0, 1} /\ (p = 0 => said[s][p] = 1)
      BY <2>1, ColdReadAssumption DEF PoolRuns, Page
    <3>2. p \in Unreported(s) <=> p # 0 /\ said[s][p] = 0
      BY DEF Unreported
    <3> QED
      BY <3>1, <3>2
  <2> QED
    BY <2>2, <2>3
<1>12. SiteOf(s)'
  BY <1>4, <1>5, <1>6, <1>11 DEF SiteOf, PoolClosed
<1> QED
  BY <1>2, <1>7, <1>8, <1>9, <1>10, <1>12 DEF Moves

(* After the site act, a step of the scan that narrates one line or two,    *)
(* none of them of the site nor the one that ends the stream, and closes    *)
(* what it had open.                                                        *)
LEMMA LateMoves ==
  ASSUME SInv, NEW s \in Session, UNCHANGED <<session, said, analysis>>,
         DOMAIN scan' = Session, \A u \in Session \ {s} : scan'[u] = scan[u],
         DOMAIN scan'[s] = ScanFields, scan'[s].pages = scan[s].pages,
         "pages" \in DOMAIN scan'[s].found,
         scan'[s].found.pages \in {0, scan[s].found.pages},
         scan[s].at \notin {"idle", "door", "guard", "home", "pages", "end"},
         scan'[s].at \in Stages \ {"idle", "door", "guard", "home", "pages", "end"},
         NEW ls, Narrated(s, ls), StreamDone \notin ls,
         ActPhase(log'[s], "site") = ActPhase(log[s], "site"),
         \A act \in Acts : ActPhase(log'[s], act) = "start" => MayBeOpen(s, act)'
  PROVE  Moves(s)
<1>1. /\ ShapeAt(s) /\ TraceOf(s) /\ SiteOf(s)
      /\ DOMAIN session = Session /\ DOMAIN log = Session /\ DOMAIN scan = Session
      /\ DOMAIN said = Session /\ DOMAIN analysis = Session
  BY KnownOf
<1>2. Only(s)
  BY <1>1 DEF Only, Narrated
<1>3. ShapeAt(s)'
  BY <1>1 DEF ShapeAt, Narrated
<1>4. Whole(log'[s]) <=> Whole(log[s])
  BY DEF Narrated
<1>5. TraceOf(s)'
  BY <1>1, <1>4 DEF TraceOf, Finished
<1>6. SiteOf(s)'
  <2>1. scan[s].found.pages \in {0, scan[s].pages}
    BY <1>1 DEF SiteOf, PoolClosed
  <2> QED
    BY <1>1, <2>1, StaysClosed
<1> QED
  BY <1>2, <1>3, <1>4, <1>5, <1>6 DEF Moves

(* The two engines.                                                         *)
LEMMA EnginesMove ==
  ASSUME SInv, NEW s \in Session, NEW answered \in Answered,
         Perplexity(s, answered) \/ Gemini(s, answered)
  PROVE  Moves(s)
<1>1. /\ ServerShape /\ ShapeAt(s) /\ TraceOf(s)
      /\ DOMAIN scan = Session
  BY KnownOf
<1>2. CASE Perplexity(s, answered)
  <2> DEFINE a == Line("perplexity", IF answered THEN "done" ELSE "skip")
             b == Line("gemini", "start")
             engines == Answer(s, "perplexity", answered)
  <2>1. /\ scan[s].at = "perplexity" /\ UNCHANGED <<session, said, analysis>>
        /\ Narrate(s, <<a, b>>)
        /\ scan' = [scan EXCEPT ![s].at = "gemini", ![s].engines = engines]
    BY <1>2 DEF Perplexity, At
  <2>2. /\ a \in LogLine /\ b \in LogLine /\ a # StreamDone /\ b # StreamDone
        /\ a.act = "perplexity" /\ a.phase \in Shown \ {"start"}
        /\ b.act = "gemini" /\ b.phase = "start" /\ b.phase \in Shown
    BY LinesAre DEF Acts, Shown
  <2> HIDE DEF a, b, engines
  <2>3. /\ Narrated(s, {a, b})
        /\ \A act : ActPhase(log'[s], act) =
             IF act = b.act /\ b.phase \in Shown THEN b.phase
             ELSE IF act = a.act /\ a.phase \in Shown THEN a.phase
             ELSE ActPhase(log[s], act)
    BY <1>1, <2>1, <2>2, NarrateTwo
  <2>4. /\ DOMAIN scan'[s] = ScanFields /\ scan'[s].at = "gemini"
        /\ scan'[s].pages = scan[s].pages /\ scan'[s].found = scan[s].found
        /\ DOMAIN scan' = Session /\ \A u \in Session \ {s} : scan'[u] = scan[u]
    BY <1>1, <2>1 DEF ShapeAt, ScanFields
  <2>5. \A act \in Acts : ActPhase(log'[s], act) = "start" => MayBeOpen(s, act)'
    BY <1>1, <2>1, <2>2, <2>3, <2>4 DEF TraceOf, MayBeOpen
  <2>6. ActPhase(log'[s], "site") = ActPhase(log[s], "site")
    BY <2>2, <2>3
  <2>7. StreamDone \notin {a, b} /\ "gemini" \in Stages \ {"idle", "door", "guard", "home", "pages", "end"}
    BY <2>2 DEF Stages
  <2> QED
    BY <1>1, <2>1, <2>3, <2>4, <2>5, <2>6, <2>7, LateMoves DEF ShapeAt
<1>3. CASE Gemini(s, answered)
  <2> DEFINE a == Line("gemini", IF answered THEN "done" ELSE "skip")
             engines == Answer(s, "gemini", answered)
  <2>1. /\ scan[s].at = "gemini" /\ UNCHANGED <<session, said, analysis>>
        /\ Narrate(s, <<a>>)
        /\ scan' = [scan EXCEPT ![s].at = "perimeter", ![s].engines = engines]
    BY <1>3 DEF Gemini, At
  <2>2. /\ a \in LogLine /\ a # StreamDone
        /\ a.act = "gemini" /\ a.phase \in Shown \ {"start"}
    BY LinesAre DEF Acts, Shown
  <2> HIDE DEF a, engines
  <2>3. /\ Narrated(s, {a})
        /\ \A act : ActPhase(log'[s], act) =
             IF act = a.act /\ a.phase \in Shown THEN a.phase
             ELSE ActPhase(log[s], act)
    BY <1>1, <2>1, <2>2, NarrateOne
  <2>4. /\ DOMAIN scan'[s] = ScanFields /\ scan'[s].at = "perimeter"
        /\ scan'[s].pages = scan[s].pages /\ scan'[s].found = scan[s].found
        /\ DOMAIN scan' = Session /\ \A u \in Session \ {s} : scan'[u] = scan[u]
    BY <1>1, <2>1 DEF ShapeAt, ScanFields
  <2>5. \A act \in Acts : ActPhase(log'[s], act) = "start" => MayBeOpen(s, act)'
    BY <1>1, <2>1, <2>2, <2>3, <2>4 DEF TraceOf, MayBeOpen
  <2>6. ActPhase(log'[s], "site") = ActPhase(log[s], "site")
    BY <2>2, <2>3
  <2>7. StreamDone \notin {a} /\ "perimeter" \in Stages \ {"idle", "door", "guard", "home", "pages", "end"}
    BY <2>2 DEF Stages
  <2> QED
    BY <1>1, <2>1, <2>3, <2>4, <2>5, <2>6, <2>7, LateMoves DEF ShapeAt
<1> QED
  BY <1>2, <1>3

(* The perimeter that was waited for, the correlation, and the corpus.      *)
LEMMA WitnessesMove ==
  ASSUME SInv, NEW s \in Session,
         \/ Perimeter(s) \/ Assemble(s)
         \/ \E outcome \in {"throw", "empty", "none", "unconfirmed", "confirmed"} :
              Correlate(s, outcome)
         \/ \E held \in {"null", "empty", "unconfirmed", "confirmed"} : Corpus(s, held)
  PROVE  Moves(s)
<1> DEFINE Later == Stages \ {"idle", "door", "guard", "home", "pages", "end"}
<1>1. /\ ServerShape /\ ShapeAt(s) /\ TraceOf(s)
      /\ DOMAIN scan = Session
  BY KnownOf
<1>2. CASE Perimeter(s)
  <2> DEFINE found == [scan[s].found EXCEPT !.recon = scan[s].probe = "context",
                                            !.engines = scan[s].engines]
             bare == scan[s].pages = 0 /\ scan[s].engines = {}
             a == Line("perimeter", IF found.recon THEN "done" ELSE "fail")
             b == Line("correlate", "start")
             to == IF bare THEN "assemble" ELSE "correlate"
  <2>1. /\ scan[s].at = "perimeter" /\ UNCHANGED <<session, said, analysis>>
        /\ scan' = [scan EXCEPT ![s].found = found, ![s].at = to]
        /\ Narrate(s, <<a>> \o (IF bare THEN <<>> ELSE <<b>>))
    BY <1>2 DEF Perimeter, At
  <2>2. /\ a \in LogLine /\ a # StreamDone
        /\ a.act = "perimeter" /\ a.phase \in Shown \ {"start"}
        /\ b \in LogLine /\ b # StreamDone /\ b.act = "correlate" /\ b.phase = "start"
    BY LinesAre DEF Acts, Shown
  <2>3. "pages" \in DOMAIN found /\ found.pages = scan[s].found.pages
    BY <1>1 DEF ShapeAt
  <2> HIDE DEF a, b, found, bare
  <2>4. /\ DOMAIN scan'[s] = ScanFields /\ scan'[s].at = to
        /\ scan'[s].pages = scan[s].pages /\ scan'[s].found = found
        /\ DOMAIN scan' = Session /\ \A u \in Session \ {s} : scan'[u] = scan[u]
    BY <1>1, <2>1 DEF ShapeAt, ScanFields
  <2>5. to \in Later /\ scan[s].found.pages \in Nat
    BY <1>1 DEF Stages, ShapeAt
  <2>6. CASE bare
    <3>1. <<a>> \o <<>> = <<a>>
      <4>1. <<a>> \in Seq(LogLine)
        BY <2>2
      <4> QED
        BY <4>1, ConcatEmptySeq
    <3>2. Narrate(s, <<a>>)
      BY <2>1, <2>6, <3>1, Zenon
    <3>3. /\ Narrated(s, {a})
          /\ \A act : ActPhase(log'[s], act) =
               IF act = a.act /\ a.phase \in Shown THEN a.phase
               ELSE ActPhase(log[s], act)
      BY <1>1, <2>2, <3>2, NarrateOne
    <3>4. \A act \in Acts : ActPhase(log'[s], act) = "start" => MayBeOpen(s, act)'
      BY <1>1, <2>1, <2>2, <2>4, <2>6, <3>3 DEF TraceOf, MayBeOpen
    <3>5. StreamDone \notin {a} /\ ActPhase(log'[s], "site") = ActPhase(log[s], "site")
      BY <2>2, <3>3
    <3> QED
      BY <2>1, <2>3, <2>4, <2>5, <3>3, <3>4, <3>5, LateMoves
  <2>7. CASE ~ bare
    <3>1. <<a>> \o <<b>> = <<a, b>>
      BY <2>2, InPairs
    <3>2. Narrate(s, <<a, b>>)
      BY <2>1, <2>7, <3>1, Zenon
    <3>3. /\ Narrated(s, {a, b})
          /\ \A act : ActPhase(log'[s], act) =
               IF act = b.act /\ b.phase \in Shown THEN b.phase
               ELSE IF act = a.act /\ a.phase \in Shown THEN a.phase
               ELSE ActPhase(log[s], act)
      BY <1>1, <2>2, <3>2, NarrateTwo
    <3>4. \A act \in Acts : ActPhase(log'[s], act) = "start" => MayBeOpen(s, act)'
      BY <1>1, <2>1, <2>2, <2>4, <2>7, <3>3 DEF TraceOf, MayBeOpen
    <3>5. StreamDone \notin {a, b} /\ ActPhase(log'[s], "site") = ActPhase(log[s], "site")
      BY <2>2, <3>3
    <3> QED
      BY <2>1, <2>3, <2>4, <2>5, <3>3, <3>4, <3>5, LateMoves
  <2> QED
    BY <2>6, <2>7
<1>3. ASSUME NEW act \in Acts, NEW phase \in Shown, Narrate(s, <<Line(act, phase)>>),
             UNCHANGED <<session, said, analysis>>,
             act # "site", scan[s].at \in Later, scan'[s].at \in Later,
             DOMAIN scan' = Session, \A u \in Session \ {s} : scan'[u] = scan[u],
             DOMAIN scan'[s] = ScanFields, scan'[s].pages = scan[s].pages,
             "pages" \in DOMAIN scan'[s].found,
             scan'[s].found.pages \in {0, scan[s].found.pages},
             phase = "start" => MayBeOpen(s, act)',
             \A other \in Acts \ {act} : MayBeOpen(s, other) => MayBeOpen(s, other)'
      PROVE  Moves(s)
  <2> DEFINE a == Line(act, phase)
  <2>1. /\ a \in LogLine /\ a # StreamDone /\ a.act = act /\ a.phase = phase
    BY LinesAre
  <2> HIDE DEF a
  <2>2. Narrate(s, <<a>>)
    BY <1>3 DEF a
  <2>3. /\ Narrated(s, {a})
        /\ \A x : ActPhase(log'[s], x) =
             IF x = a.act /\ a.phase \in Shown THEN a.phase ELSE ActPhase(log[s], x)
    BY <1>1, <2>1, <2>2, NarrateOne
  <2>4. \A x \in Acts : ActPhase(log'[s], x) = "start" => MayBeOpen(s, x)'
    BY <1>1, <1>3, <2>1, <2>3 DEF TraceOf
  <2>5. StreamDone \notin {a} /\ ActPhase(log'[s], "site") = ActPhase(log[s], "site")
    BY <1>3, <2>1, <2>3
  <2> QED
    BY <1>3, <2>3, <2>4, <2>5, LateMoves
<1>4. CASE \E outcome \in {"throw", "empty", "none", "unconfirmed", "confirmed"} :
             Correlate(s, outcome)
  <2>1. PICK outcome : Correlate(s, outcome)
    BY <1>4
  <2> DEFINE found == Correlated(scan[s].found, outcome)
             phase == IF outcome = "throw" THEN "fail" ELSE "done"
  <2>2. /\ scan[s].at = "correlate" /\ UNCHANGED <<session, said, analysis>>
        /\ scan' = [scan EXCEPT ![s].at = "assemble", ![s].found = found]
        /\ Narrate(s, <<Line("correlate", phase)>>)
    BY <2>1 DEF Correlate, At
  <2>3. "pages" \in DOMAIN found /\ found.pages \in {0, scan[s].found.pages}
    <3>1. "pages" \in DOMAIN NothingFound /\ NothingFound.pages = 0
      BY DEF NothingFound
    <3>2. found \in {NothingFound, scan[s].found,
                     [scan[s].found EXCEPT !.signals = "read", !.summary = outcome]}
      BY DEF Correlated
    <3> QED
      BY <1>1, <3>1, <3>2 DEF ShapeAt
  <2>4. phase \in Shown /\ phase # "start" /\ "correlate" \in Acts
    BY DEF Shown, Acts
  <2> HIDE DEF found, phase
  <2>5. /\ DOMAIN scan'[s] = ScanFields /\ scan'[s].at = "assemble"
        /\ scan'[s].pages = scan[s].pages /\ scan'[s].found = found
        /\ DOMAIN scan' = Session /\ \A u \in Session \ {s} : scan'[u] = scan[u]
    BY <1>1, <2>2 DEF ShapeAt, ScanFields
  <2>6. \A other \in Acts \ {"correlate"} : MayBeOpen(s, other) => MayBeOpen(s, other)'
    BY <2>2, <2>5 DEF MayBeOpen
  <2> QED
    BY <1>3, <2>2, <2>3, <2>4, <2>5, <2>6 DEF Stages
<1>5. CASE Assemble(s)
  <2>1. /\ scan[s].at = "assemble" /\ UNCHANGED <<session, said, analysis>>
        /\ scan' = [scan EXCEPT ![s].at = "corpus"]
        /\ Narrate(s, <<Line("corpus", "start")>>)
    BY <1>5 DEF Assemble, At, Goto
  <2>2. /\ DOMAIN scan'[s] = ScanFields /\ scan'[s].at = "corpus"
        /\ scan'[s].pages = scan[s].pages /\ scan'[s].found = scan[s].found
        /\ DOMAIN scan' = Session /\ \A u \in Session \ {s} : scan'[u] = scan[u]
    BY <1>1, <2>1 DEF ShapeAt, ScanFields
  <2>3. /\ MayBeOpen(s, "corpus")'
        /\ \A other \in Acts \ {"corpus"} : MayBeOpen(s, other) => MayBeOpen(s, other)'
    BY <2>1, <2>2 DEF MayBeOpen
  <2>4. "start" \in Shown /\ "corpus" \in Acts
    BY DEF Shown, Acts
  <2> QED
    BY <1>1, <1>3, <2>1, <2>2, <2>3, <2>4 DEF Stages, ShapeAt
<1>6. CASE \E held \in {"null", "empty", "unconfirmed", "confirmed"} : Corpus(s, held)
  <2>1. PICK held : Corpus(s, held)
    BY <1>6
  <2> DEFINE phase == IF held = "null" THEN "skip" ELSE "done"
  <2>2. /\ scan[s].at = "corpus" /\ UNCHANGED <<session, said, analysis>>
        /\ scan' = [scan EXCEPT ![s].at = "position", ![s].corpus = held]
        /\ Narrate(s, <<Line("corpus", phase)>>)
    BY <2>1 DEF Corpus, At
  <2>3. phase \in Shown /\ phase # "start" /\ "corpus" \in Acts
    BY DEF Shown, Acts
  <2> HIDE DEF phase
  <2>4. /\ DOMAIN scan'[s] = ScanFields /\ scan'[s].at = "position"
        /\ scan'[s].pages = scan[s].pages /\ scan'[s].found = scan[s].found
        /\ DOMAIN scan' = Session /\ \A u \in Session \ {s} : scan'[u] = scan[u]
    BY <1>1, <2>2 DEF ShapeAt, ScanFields
  <2>5. \A other \in Acts \ {"corpus"} : MayBeOpen(s, other) => MayBeOpen(s, other)'
    BY <2>2, <2>4 DEF MayBeOpen
  <2> QED
    BY <1>1, <1>3, <2>2, <2>3, <2>4, <2>5 DEF Stages, ShapeAt
<1> QED
  BY <1>2, <1>4, <1>5, <1>6

(* The pipeline ends: nothing is running in it, and the trace it leaves is  *)
(* whole only when the scan failed.                                         *)
LEMMA EndMoves ==
  ASSUME SInv, NEW s \in Session, Over(s), UNCHANGED <<said, analysis>>,
         scan[s].at \in {"door", "assemble", "position"},
         DOMAIN session' = Session, "infer" \in DOMAIN session'[s],
         \A u \in Session \ {s} : session'[u] = session[u],
         NEW ls, Narrated(s, ls),
         StreamDone \in ls => session'[s].infer = "failed",
         ActPhase(log'[s], "site") = ActPhase(log[s], "site"),
         \A act \in Acts : ActPhase(log'[s], act) # "start"
  PROVE  Moves(s)
<1>1. /\ ShapeAt(s) /\ TraceOf(s) /\ SiteOf(s)
      /\ DOMAIN session = Session /\ DOMAIN log = Session /\ DOMAIN scan = Session
      /\ DOMAIN said = Session /\ DOMAIN analysis = Session
  BY KnownOf
<1> DEFINE ended == [NewScan EXCEPT !.at = "end", !.flying = scan[s].flying]
<1>2. /\ DOMAIN ended = ScanFields /\ ended.at = "end" /\ ended.pages = 0
      /\ ended.found = NothingFound
  BY DEF NewScan, ScanFields
<1>3. "pages" \in DOMAIN NothingFound /\ NothingFound.pages = 0
  BY DEF NothingFound
<1>4. scan' = [scan EXCEPT ![s] = ended]
  BY DEF Over
<1> HIDE DEF ended
<1>5. /\ DOMAIN scan' = Session /\ scan'[s] = ended
      /\ \A u \in Session \ {s} : scan'[u] = scan[u]
  BY <1>1, <1>4
<1>6. Only(s)
  BY <1>1, <1>5 DEF Only, Narrated
<1>7. ShapeAt(s)'
  <2>1. scan'[s].found = NothingFound /\ scan'[s].pages = 0 /\ scan'[s].at = "end"
    BY <1>2, <1>5
  <2> QED
    BY <1>2, <1>3, <1>5, <2>1 DEF ShapeAt, Narrated, Stages
<1>8. ~ Whole(log[s]) /\ analysis[s] = "none"
  BY <1>1 DEF TraceOf, Finished
<1>9. Whole(log'[s]) => session'[s].infer = "failed"
  BY <1>8 DEF Narrated
<1>10. TraceOf(s)'
  BY <1>2, <1>5, <1>8, <1>9 DEF TraceOf, Finished
<1>11. ActPhase(log[s], "site") = "none" \/ PoolClosed(s)
  BY <1>1 DEF SiteOf
<1>12. SiteOf(s)'
  BY <1>2, <1>5, <1>11 DEF SiteOf, PoolClosed
<1> QED
  BY <1>6, <1>7, <1>8, <1>10, <1>12 DEF Moves

(* Where nothing may be open, nothing is.                                   *)
LEMMA NothingOpen ==
  ASSUME SInv, NEW s \in Session, scan[s].at \in {"door", "assemble", "position"}
  PROVE  \A act \in Acts : ActPhase(log[s], act) # "start"
<1>1. TraceOf(s)
  BY KnownOf
<1> QED
  BY <1>1 DEF TraceOf, MayBeOpen

(* The address does not resolve.                                            *)
LEMMA DoorShutMoves == ASSUME SInv, NEW s \in Session, DoorShut(s) PROVE Moves(s)
<1>1. /\ ServerShape /\ ShapeAt(s) /\ DOMAIN session = Session
      /\ \A act \in Acts : ActPhase(log[s], act) # "start"
  BY KnownOf, NothingOpen DEF DoorShut, At
<1> DEFINE a == Line("preflight", "start")
           b == Line("preflight", "done")
           c == Line("stream", "done")
<1>2. /\ scan[s].at = "door" /\ UNCHANGED <<said, analysis>> /\ Over(s)
      /\ session' = [session EXCEPT ![s].infer = "address_not_found"]
      /\ Narrate(s, <<a, b, c>>)
  BY DEF DoorShut, At, DoorDone
<1>3. /\ a \in LogLine /\ b \in LogLine /\ c \in LogLine
      /\ a # StreamDone /\ b # StreamDone /\ c # StreamDone
      /\ a.act = "preflight" /\ b.act = "preflight" /\ b.phase = "done"
      /\ c.act = "stream" /\ c.phase = "done" /\ "done" \in Shown
  BY LinesAre DEF Acts, Shown
<1> HIDE DEF a, b, c
<1>4. /\ Narrated(s, {a, b, c})
      /\ \A act : ActPhase(log'[s], act) =
           IF act = c.act /\ c.phase \in Shown THEN c.phase
           ELSE IF act = b.act /\ b.phase \in Shown THEN b.phase
           ELSE IF act = a.act /\ a.phase \in Shown THEN a.phase
           ELSE ActPhase(log[s], act)
  BY <1>1, <1>2, <1>3, NarrateThree
<1>5. \A act : ActPhase(log'[s], act) =
        IF act = "stream" THEN "done" ELSE IF act = "preflight" THEN "done"
        ELSE ActPhase(log[s], act)
  BY <1>3, <1>4
<1>6. /\ DOMAIN session' = Session /\ "infer" \in DOMAIN session'[s]
      /\ \A u \in Session \ {s} : session'[u] = session[u]
  BY <1>1, <1>2 DEF ShapeAt
<1>7. StreamDone \notin {a, b, c}
  BY <1>3
<1>8. /\ ActPhase(log'[s], "site") = ActPhase(log[s], "site")
      /\ \A act \in Acts : ActPhase(log'[s], act) # "start"
  BY <1>1, <1>5
<1> QED
  BY <1>2, <1>4, <1>6, <1>7, <1>8, EndMoves

(* The position is found, and the session written.                          *)
LEMMA PositionMoves ==
  ASSUME SInv, NEW s \in Session, NEW position, Position(s, position)
  PROVE  Moves(s)
<1>1. /\ ShapeAt(s) /\ DOMAIN session = Session /\ DOMAIN log = Session
      /\ \A act \in Acts : ActPhase(log[s], act) # "start"
  BY KnownOf, NothingOpen DEF Position, At
<1> DEFINE x == session'[s]
<1>2. /\ scan[s].at = "position" /\ UNCHANGED <<log, said, analysis>> /\ Over(s)
  BY DEF Position, At
<1>3. /\ DOMAIN session' = Session /\ "infer" \in DOMAIN session'[s]
      /\ \A u \in Session \ {s} : session'[u] = session[u]
  BY <1>1 DEF Position, ShapeAt
<1>4. Narrated(s, {})
  BY <1>1, <1>2 DEF Narrated, ShapeAt
<1> QED
  BY <1>1, <1>2, <1>3, <1>4, EndMoves

(* A throw on the way fails the scan and ends the stream.                   *)
LEMMA ScanFailMoves == ASSUME SInv, NEW s \in Session, ScanFails(s) PROVE Moves(s)
<1>1. /\ ServerShape /\ ShapeAt(s) /\ DOMAIN session = Session
      /\ \A act \in Acts : ActPhase(log[s], act) # "start"
  BY KnownOf, NothingOpen DEF ScanFails
<1>2. /\ scan[s].at \in {"assemble", "position"} /\ UNCHANGED <<said, analysis>>
      /\ Over(s) /\ Narrate(s, <<StreamDone>>)
      /\ session' = [session EXCEPT ![s].infer = "failed"]
  BY DEF ScanFails
<1>3. StreamDone \in LogLine /\ StreamDone.phase \notin Shown
  BY LinesAre DEF Acts, Shown
<1>4. /\ Narrated(s, {StreamDone})
      /\ \A act : ActPhase(log'[s], act) = ActPhase(log[s], act)
  <2>1. /\ Narrated(s, {StreamDone})
        /\ \A act : ActPhase(log'[s], act) =
             IF act = StreamDone.act /\ StreamDone.phase \in Shown
             THEN StreamDone.phase ELSE ActPhase(log[s], act)
    BY <1>1, <1>2, <1>3, NarrateOne
  <2> QED
    BY <2>1, <1>3
<1>5. /\ DOMAIN session' = Session /\ "infer" \in DOMAIN session'[s]
      /\ \A u \in Session \ {s} : session'[u] = session[u]
      /\ session'[s].infer = "failed"
  BY <1>1, <1>2 DEF ShapeAt
<1>6. /\ ActPhase(log'[s], "site") = ActPhase(log[s], "site")
      /\ \A act \in Acts : ActPhase(log'[s], act) # "start"
  BY <1>1, <1>4
<1> QED
  BY <1>2, <1>4, <1>5, <1>6, EndMoves

(* A step of analyze, in a scan that is over: it has the reading open while *)
(* it works, and ends the stream when it has done.                          *)
LEMMA ReadingMoves ==
  ASSUME SInv, NEW s \in Session, UNCHANGED <<scan, said>>,
         analysis[s] # "none", NEW to, analysis' = [analysis EXCEPT ![s] = to],
         to # "none",
         DOMAIN session' = Session, "infer" \in DOMAIN session'[s],
         session'[s].infer = session[s].infer,
         \A u \in Session \ {s} : session'[u] = session[u],
         analysis[s] \notin {"done", "failed"},
         NEW ls, Narrated(s, ls),
         StreamDone \in ls => to \in {"done", "failed"},
         \A act : act # "reading" => ActPhase(log'[s], act) = ActPhase(log[s], act),
         ActPhase(log'[s], "reading") = "start" => to \in {"weigh", "write"}
  PROVE  Moves(s)
<1>1. /\ ShapeAt(s) /\ TraceOf(s) /\ SiteOf(s)
      /\ DOMAIN session = Session /\ DOMAIN log = Session /\ DOMAIN scan = Session
      /\ DOMAIN said = Session /\ DOMAIN analysis = Session
  BY KnownOf
<1>2. scan[s].at = "end" /\ session[s].infer = "complete" /\ ~ Whole(log[s])
  BY <1>1 DEF TraceOf, Finished
<1>3. /\ analysis'[s] = to
      /\ Only(s)
  BY <1>1 DEF Only, Narrated
<1>4. ShapeAt(s)'
  BY <1>1 DEF ShapeAt, Narrated
<1>5. Whole(log'[s]) => to \in {"done", "failed"}
  BY <1>2 DEF Narrated
<1>6. \A act \in Acts : ActPhase(log'[s], act) = "start" => MayBeOpen(s, act)'
  <2> SUFFICES ASSUME NEW act \in Acts, ActPhase(log'[s], act) = "start"
               PROVE  MayBeOpen(s, act)'
    OBVIOUS
  <2>1. CASE act = "reading"
    BY <1>3, <2>1 DEF MayBeOpen
  <2>2. CASE act # "reading"
    <3>1. MayBeOpen(s, act)
      BY <1>1, <2>2 DEF TraceOf
    <3> QED
      BY <2>2, <3>1 DEF MayBeOpen
  <2> QED
    BY <2>1, <2>2
<1>7. TraceOf(s)'
  BY <1>2, <1>3, <1>5, <1>6 DEF TraceOf, Finished
<1>8. SiteOf(s)'
  BY <1>1, <1>2, StaysClosed
<1> QED
  BY <1>2, <1>3, <1>4, <1>7, <1>8 DEF Moves

(* analyze, its failure and its two stages.                                 *)
LEMMA AnalysisMoves ==
  ASSUME SInv, NEW s \in Session,
         \/ Analyze(s) \/ AnalyzeFails(s) \/ Weigh(s)
         \/ \E answered \in Answered : Write(s, answered)
  PROVE  Moves(s)
<1>1. /\ ServerShape /\ ShapeAt(s) /\ TraceOf(s)
      /\ DOMAIN session = Session /\ DOMAIN log = Session
  BY KnownOf
<1>2. CASE Analyze(s)
  <2> DEFINE a == Line("reading", "start")
  <2>1. /\ analysis[s] = "asked" /\ Narrate(s, <<a>>)
        /\ analysis' = [analysis EXCEPT ![s] = "weigh"] /\ UNCHANGED <<session, scan, said>>
    BY <1>2 DEF Analyze
  <2>2. /\ a \in LogLine /\ a # StreamDone /\ a.act = "reading" /\ a.phase = "start"
    BY LinesAre DEF Acts, Shown
  <2> HIDE DEF a
  <2>3. /\ Narrated(s, {a})
        /\ \A act : ActPhase(log'[s], act) =
             IF act = a.act /\ a.phase \in Shown THEN a.phase ELSE ActPhase(log[s], act)
    BY <1>1, <2>1, <2>2, NarrateOne
  <2>4. \A act : act # "reading" => ActPhase(log'[s], act) = ActPhase(log[s], act)
    BY <2>2, <2>3
  <2>5. StreamDone \notin {a}
    BY <2>2
  <2> QED
    BY <1>1, <2>1, <2>3, <2>4, <2>5, ReadingMoves DEF ShapeAt
<1>3. CASE AnalyzeFails(s)
  <2> DEFINE a == Line("reading", "fail")
  <2>1. /\ analysis[s] \in {"weigh", "write"} /\ Narrate(s, <<a, StreamDone>>)
        /\ analysis' = [analysis EXCEPT ![s] = "failed"] /\ UNCHANGED <<session, scan, said>>
    BY <1>3 DEF AnalyzeFails
  <2>2. /\ a \in LogLine /\ a.act = "reading" /\ a.phase = "fail"
        /\ StreamDone \in LogLine /\ StreamDone.phase \notin Shown /\ "fail" \in Shown
    BY LinesAre DEF Acts, Shown
  <2> HIDE DEF a
  <2>3. /\ Narrated(s, {a, StreamDone})
        /\ \A act : ActPhase(log'[s], act) =
             IF act = StreamDone.act /\ StreamDone.phase \in Shown THEN StreamDone.phase
             ELSE IF act = a.act /\ a.phase \in Shown THEN a.phase
             ELSE ActPhase(log[s], act)
    BY <1>1, <2>1, <2>2, NarrateTwo
  <2>4. /\ \A act : act # "reading" => ActPhase(log'[s], act) = ActPhase(log[s], act)
        /\ ActPhase(log'[s], "reading") = "fail"
    BY <2>2, <2>3
  <2> QED
    BY <1>1, <2>1, <2>3, <2>4, ReadingMoves DEF ShapeAt
<1>4. CASE Weigh(s)
  <2>1. /\ analysis[s] = "weigh"
        /\ analysis' = [analysis EXCEPT ![s] = "write"]
        /\ UNCHANGED <<session, log, scan, said>>
    BY <1>4 DEF Weigh
  <2>2. Narrated(s, {})
    BY <1>1, <2>1 DEF Narrated, ShapeAt
  <2> QED
    BY <1>1, <2>1, <2>2, ReadingMoves DEF ShapeAt
<1>5. CASE \E answered \in Answered : Write(s, answered)
  <2> DEFINE a == Line("reading", "done")
  <2>1. /\ analysis[s] = "write" /\ Narrate(s, <<a, StreamDone>>)
        /\ analysis' = [analysis EXCEPT ![s] = "done"] /\ UNCHANGED <<scan, said>>
        /\ \E reading : session' = [session EXCEPT ![s].reading = reading]
    BY <1>5 DEF Write
  <2>2. /\ a \in LogLine /\ a.act = "reading" /\ a.phase = "done"
        /\ StreamDone \in LogLine /\ StreamDone.phase \notin Shown /\ "done" \in Shown
    BY LinesAre DEF Acts, Shown
  <2> HIDE DEF a
  <2>3. /\ Narrated(s, {a, StreamDone})
        /\ \A act : ActPhase(log'[s], act) =
             IF act = StreamDone.act /\ StreamDone.phase \in Shown THEN StreamDone.phase
             ELSE IF act = a.act /\ a.phase \in Shown THEN a.phase
             ELSE ActPhase(log[s], act)
    BY <1>1, <2>1, <2>2, NarrateTwo
  <2>4. /\ \A act : act # "reading" => ActPhase(log'[s], act) = ActPhase(log[s], act)
        /\ ActPhase(log'[s], "reading") = "done"
    BY <2>2, <2>3
  <2>5. /\ DOMAIN session' = Session /\ "infer" \in DOMAIN session'[s]
        /\ session'[s].infer = session[s].infer
        /\ \A u \in Session \ {s} : session'[u] = session[u]
    BY <1>1, <2>1 DEF ShapeAt
  <2> QED
    BY <1>1, <2>1, <2>3, <2>4, <2>5, ReadingMoves
<1> QED
  BY <1>2, <1>3, <1>4, <1>5

-----------------------------------------------------------------------------
(* Steps of the whole.                                                      *)

(* Every step of the server is for a session.                               *)
LEMMA ServerMoves == ASSUME SInv, ServerNext PROVE \E s \in Session : Moves(s)
<1>1. PICK s \in Session :
        \/ DoorShut(s) \/ DoorOpen(s) \/ FallBack(s) \/ OpenActs(s)
        \/ ProbeSettles(s) \/ DeadlinePasses(s) \/ SiteCloses(s)
        \/ \E ok \in Scraped : HomeLands(s, ok) \/ \E p \in Page : PageLands(s, p, ok)
        \/ \E answered \in Answered :
             Perplexity(s, answered) \/ Gemini(s, answered) \/ Write(s, answered)
        \/ Perimeter(s) \/ Assemble(s) \/ ScanFails(s)
        \/ \E outcome \in {"throw", "empty", "none", "unconfirmed", "confirmed"} :
             Correlate(s, outcome)
        \/ \E held \in {"null", "empty", "unconfirmed", "confirmed"} : Corpus(s, held)
        \/ \E position \in {"null", "empty", "signals"} : Position(s, position)
        \/ Analyze(s) \/ AnalyzeFails(s) \/ Weigh(s)
  BY DEF ServerNext
<1>2. CASE DoorShut(s) \/ OpenActs(s) \/ SiteCloses(s) \/ ScanFails(s)
  BY <1>2, DoorShutMoves, OpenMoves, SiteCloseMoves, ScanFailMoves
<1>3. CASE DoorOpen(s) \/ FallBack(s) \/ ProbeSettles(s) \/ DeadlinePasses(s)
  BY <1>3, QuietMoves
<1>4. CASE \E ok \in Scraped : HomeLands(s, ok) \/ \E p \in Page : PageLands(s, p, ok)
  BY <1>4, HomeMoves, PageMoves
<1>5. CASE \E answered \in Answered :
             Perplexity(s, answered) \/ Gemini(s, answered) \/ Write(s, answered)
  BY <1>5, EnginesMove, AnalysisMoves
<1>6. CASE \/ Perimeter(s) \/ Assemble(s)
           \/ \E outcome \in {"throw", "empty", "none", "unconfirmed", "confirmed"} :
                Correlate(s, outcome)
           \/ \E held \in {"null", "empty", "unconfirmed", "confirmed"} : Corpus(s, held)
  BY <1>6, WitnessesMove
<1>7. CASE \E position \in {"null", "empty", "signals"} : Position(s, position)
  BY <1>7, PositionMoves
<1>8. CASE Analyze(s) \/ AnalyzeFails(s) \/ Weigh(s)
  BY <1>8, AnalysisMoves
<1> QED
  BY <1>1, <1>2, <1>3, <1>4, <1>5, <1>6, <1>7, <1>8

(* A step for a session keeps the invariant under a page that stays.        *)
LEMMA BehindThePage ==
  ASSUME SInv, NEW s \in Session, Moves(s), UNCHANGED page
  PROVE  SInv'
<1>1. /\ ServerShape' /\ \A u \in Session : TraceOf(u)' /\ SiteOf(u)'
      /\ \A u \in Session : analysis[u] = "none" => analysis'[u] = "none"
      /\ \A u \in Session : Whole(log[u]) => Whole(log'[u])
  BY MovesKeep
<1>2. PageOf'
  BY <1>1 DEF SInv, TInv, PageOf
<1> QED
  BY <1>1, <1>2 DEF SInv, TInv

(* A step of the page alone keeps it when it keeps what is known of it.     *)
LEMMA PageAlone ==
  ASSUME SInv, UNCHANGED serverVars, PageOf'
  PROVE  SInv'
<1>1. ServerShape'
  BY DEF SInv, TInv, ServerShape, ShapeAt, serverVars
<1>2. ASSUME NEW s \in Session PROVE TraceOf(s)' /\ SiteOf(s)'
  <2>1. TraceOf(s) /\ SiteOf(s)
    BY DEF SInv, TInv
  <2>2. TraceOf(s)'
    BY <2>1 DEF TraceOf, MayBeOpen, Finished, serverVars
  <2>3. SiteOf(s)'
    BY <2>1 DEF SiteOf, Untouched, PoolRuns, PoolClosed, serverVars
  <2> QED
    BY <2>2, <2>3
<1> QED
  BY <1>1, <1>2 DEF SInv, TInv

(* Most of what the page does is none of the read's business.               *)
LEMMA Elsewhere ==
  ASSUME SInv, UNCHANGED serverVars, NEW changes, Show(changes) \/ NextTurn(changes),
         "sid" \notin DOMAIN changes, "traced" \notin DOMAIN changes,
         "told" \in DOMAIN changes => changes["told"] \in {page.told, "cut"},
         "at" \in DOMAIN changes => changes["at"] \notin {"starting", "polling"}
  PROVE  SInv'
<1>1. PageOf
  BY DEF SInv, TInv
<1>2. /\ DOMAIN page' = DOMAIN page /\ page'.sid = page.sid
      /\ page'.traced = page.traced /\ page'.told \in {page.told, "cut"}
      /\ page'.at \in {"starting", "polling"} => page'.at = page.at
  BY <1>1 DEF PageOf, Show, NextTurn
<1>3. UNCHANGED <<analysis, log>>
  BY DEF serverVars
<1>4. PageOf'
  BY <1>1, <1>2, <1>3 DEF PageOf
<1> QED
  BY <1>4, PageAlone

(* The founder's messages and the build card.                               *)
LEMMA FounderReads == ASSUME SInv, Founder PROVE SInv'
<1>1. ASSUME NEW s \in Session, SubmitUrl(s) PROVE SInv'
  <2> DEFINE changes == [at |-> "starting", processing |-> TRUE, sid |-> s, polls |-> 0,
                         serving |-> page.awaiting, bubble |-> "scanning"]
  <2>1. /\ NextTurn(changes) /\ UNCHANGED serverVars /\ scan[s].at = "idle"
    BY <1>1 DEF SubmitUrl, At
  <2>2. PageOf /\ TraceOf(s)
    BY DEF SInv, TInv
  <2>3. analysis[s] = "none"
    BY <2>1, <2>2 DEF TraceOf
  <2>4. /\ "sid" \in DOMAIN changes /\ changes["sid"] = s
        /\ "at" \in DOMAIN changes /\ changes["at"] = "starting"
        /\ "traced" \notin DOMAIN changes /\ "told" \notin DOMAIN changes
    OBVIOUS
  <2> HIDE DEF changes
  <2>5. /\ DOMAIN page' = DOMAIN page /\ page'.sid = s
        /\ page'.traced = page.traced /\ page'.told = page.told
    BY <2>1, <2>2, <2>4 DEF PageOf, NextTurn
  <2>6. UNCHANGED <<analysis, log>>
    BY <2>1 DEF serverVars
  <2>7. PageOf'
    BY <2>2, <2>3, <2>5, <2>6 DEF PageOf
  <2> QED
    BY <2>1, <2>7, PageAlone
<1>2. CASE CaptureReply
  BY <1>2, Elsewhere DEF CaptureReply
<1>3. CASE Talk
  BY <1>3, Elsewhere DEF Talk
<1>4. CASE Utter
  BY <1>4, Elsewhere DEF Utter
<1>5. CASE ConfirmRoute
  BY <1>5, Elsewhere DEF ConfirmRoute
<1> QED
  BY <1>1, <1>2, <1>3, <1>4, <1>5 DEF Founder

(* The page listens to the read it started, and to no other.                *)
LEMMA StartedReads == ASSUME SInv, Started PROVE SInv'
<1> DEFINE changes == [at |-> "polling", stream |-> "open", traced |-> page.sid,
                       told |-> "no"]
<1>1. Show(changes) /\ UNCHANGED serverVars /\ page.at = "starting"
  BY DEF Started
<1>2. PageOf
  BY DEF SInv, TInv
<1>3. /\ "traced" \in DOMAIN changes /\ changes["traced"] = page.sid
      /\ "told" \in DOMAIN changes /\ changes["told"] = "no"
      /\ "sid" \notin DOMAIN changes
  OBVIOUS
<1> HIDE DEF changes
<1>4. /\ DOMAIN page' = DOMAIN page /\ page'.sid = page.sid
      /\ page'.traced = page.sid /\ page'.told = "no"
  BY <1>1, <1>2, <1>3 DEF PageOf, Show
<1>5. UNCHANGED <<analysis, log>>
  BY <1>1 DEF serverVars
<1>6. PageOf'
  BY <1>1, <1>2, <1>4, <1>5 DEF PageOf
<1> QED
  BY <1>1, <1>6, PageAlone

(* It is told that the trace is whole at the line that ends it.             *)
LEMMA FlushReads == ASSUME SInv, Flush PROVE SInv'
<1> DEFINE changes == [told |-> "log", stream |-> "closed"]
<1>1. Show(changes) /\ UNCHANGED serverVars /\ \E i \in DOMAIN Lines : Lines[i] = StreamDone
  BY DEF Flush
<1>2. PageOf
  BY DEF SInv, TInv
<1>3. /\ "told" \in DOMAIN changes /\ changes["told"] = "log"
      /\ "sid" \notin DOMAIN changes /\ "traced" \notin DOMAIN changes
      /\ "at" \notin DOMAIN changes
  OBVIOUS
<1> HIDE DEF changes
<1>4. /\ DOMAIN page' = DOMAIN page /\ page'.sid = page.sid /\ page'.at = page.at
      /\ page'.traced = page.traced /\ page'.told = "log"
  BY <1>1, <1>2, <1>3 DEF PageOf, Show
<1>5. page.traced # NoSession
  BY <1>1 DEF Lines
<1>6. page.traced \in Session /\ Whole(log[page.traced])
  BY <1>1, <1>2, <1>5 DEF PageOf, Lines, Whole
<1>7. UNCHANGED <<analysis, log>>
  BY <1>1 DEF serverVars
<1>8. PageOf'
  BY <1>2, <1>4, <1>6, <1>7 DEF PageOf
<1> QED
  BY <1>1, <1>8, PageAlone

(* It asks for the analysis when the read is complete, and the stream is    *)
(* not ended then.                                                          *)
LEMMA CompleteReads ==
  ASSUME SInv, NEW s, s = page.sid, PollComplete
  PROVE  SInv'
<1> DEFINE changes == [at |-> "analyzing", bubble |-> "writing"]
<1>1. /\ Show(changes) /\ page.at = "polling" /\ session[s].infer = "complete"
      /\ analysis' = [analysis EXCEPT ![s] = "asked"]
      /\ UNCHANGED <<session, log, scan, said>>
  BY DEF PollComplete, Polling, Status
<1>2. PageOf /\ ServerShape
  BY DEF SInv, TInv
<1>3. s \in Session /\ analysis[s] = "none"
  BY <1>1, <1>2 DEF PageOf
<1>4. TraceOf(s) /\ SiteOf(s) /\ ShapeAt(s)
  BY <1>3 DEF SInv, TInv, ServerShape
<1>5. /\ "at" \in DOMAIN changes /\ changes["at"] = "analyzing"
      /\ "sid" \notin DOMAIN changes /\ "traced" \notin DOMAIN changes
      /\ "told" \notin DOMAIN changes
  OBVIOUS
<1> HIDE DEF changes
<1>6. /\ DOMAIN page' = DOMAIN page /\ page'.at = "analyzing"
      /\ page'.traced = page.traced /\ page'.told = page.told
  BY <1>1, <1>2, <1>5 DEF PageOf, Show
<1>7. PageOf'
  BY <1>1, <1>2, <1>6 DEF PageOf
<1>8. /\ DOMAIN analysis' = Session /\ analysis'[s] = "asked"
      /\ \A u \in Session \ {s} : analysis'[u] = analysis[u]
  BY <1>1, <1>2, <1>3 DEF ServerShape
<1>9. ServerShape'
  BY <1>1, <1>2, <1>8 DEF ServerShape, ShapeAt
<1>10. ASSUME NEW u \in Session PROVE TraceOf(u)' /\ SiteOf(u)'
  <2>1. TraceOf(u) /\ SiteOf(u)
    BY DEF SInv, TInv
  <2>2. SiteOf(u)'
    BY <1>1, <2>1 DEF SiteOf, Untouched, PoolRuns, PoolClosed
  <2>3. CASE u = s
    <3>1. ~ Whole(log[s])
      BY <1>1, <1>3, <1>4 DEF TraceOf, Finished
    <3>2. TraceOf(s)'
      BY <1>1, <1>3, <1>4, <1>8, <3>1 DEF TraceOf, MayBeOpen
    <3> QED
      BY <2>2, <2>3, <3>2
  <2>4. CASE u # s
    BY <1>1, <1>8, <2>1, <2>2, <2>4 DEF TraceOf, MayBeOpen, Finished
  <2> QED
    BY <2>3, <2>4
<1> QED
  BY <1>7, <1>9, <1>10 DEF SInv, TInv

(* What the page's requests answer, and what its timers and streams do.     *)
LEMMA AnswersRead ==
  ASSUME SInv, PollAnswers \/ PollLost \/ Answers \/ Flush \/ StreamDrops
  PROVE  SInv'
<1>1. ASSUME Fail PROVE SInv'
  BY <1>1, Elsewhere DEF Fail, Failed, Cut
<1>2. CASE PollProcessing
  <2>1. CASE page.polls + 1 < MaxPolls
    BY <1>2, <2>1, Elsewhere DEF PollProcessing
  <2>2. CASE ~(page.polls + 1 < MaxPolls)
    BY <1>2, <2>2, Elsewhere DEF PollProcessing, Failed, Cut
  <2> QED
    BY <2>1, <2>2
<1>3. CASE PollFailed \/ PollLost \/ StartFails \/ AnalysisFails
  BY <1>1, <1>3 DEF PollFailed, PollLost, StartFails, AnalysisFails
<1>4. CASE PollNotFound
  <2> DEFINE changes == [at |-> "rest", bubble |-> "not found", polls |-> 0,
                         serving |-> FALSE]
  <2>1. Show(changes) /\ UNCHANGED serverVars
    BY <1>4 DEF PollNotFound
  <2>2. /\ "sid" \notin DOMAIN changes /\ "traced" \notin DOMAIN changes
        /\ "told" \notin DOMAIN changes /\ changes["at"] = "rest"
    OBVIOUS
  <2> HIDE DEF changes
  <2> QED
    BY <2>1, <2>2, Elsewhere
<1>5. CASE PollComplete
  BY <1>5, CompleteReads
<1>6. CASE StartArrives
  <2>1. page.sid \in Session
    BY <1>6 DEF StartArrives, SInv, TInv, PageOf
  <2> QED
    BY <1>6, <2>1, StartMoves, BehindThePage DEF StartArrives
<1>7. CASE Started
  BY <1>7, StartedReads
<1>8. ASSUME NEW name \in BOOLEAN, AnalysisBack(name) PROVE SInv'
  BY <1>8, Elsewhere DEF AnalysisBack
<1>9. ASSUME NEW whole \in BOOLEAN, ReplyEnds(whole) \/ UtteranceBack(whole) PROVE SInv'
  BY <1>9, Elsewhere DEF ReplyEnds, UtteranceBack
<1>10. CASE Flush
  BY <1>10, FlushReads
<1>11. CASE StreamDrops
  BY <1>11, Elsewhere DEF StreamDrops, Cut
<1> QED
  BY <1>2, <1>3, <1>4, <1>5, <1>6, <1>7, <1>8, <1>9, <1>10, <1>11
     DEF PollAnswers, Answers

(* Before anything is sent there is nothing to read.                        *)
LEMMA ReadStarts == Init => SInv
<1> SUFFICES ASSUME Init PROVE SInv
  OBVIOUS
<1>1. /\ session = [s \in Session |-> NewSession] /\ log = [s \in Session |-> <<>>]
      /\ scan = [s \in Session |-> NewScan]
      /\ said = [s \in Session |-> [p \in Page |-> 0]]
      /\ analysis = [s \in Session |-> "none"]
      /\ page \in {Resting, Returned}
  BY DEF Init, ServerInit
<1>2. \A act : ActPhase(<<>>, act) = "none"
  <2> TAKE act
  <2>1. <<>> \in Seq(LogLine) /\ Showing(<<>>, act) = {}
    BY DEF Showing
  <2> QED
    BY <2>1, PhaseIsLast
<1>3. ASSUME NEW s \in Session PROVE ShapeAt(s) /\ TraceOf(s) /\ SiteOf(s)
  <2>1. /\ session[s] = NewSession /\ log[s] = <<>> /\ scan[s] = NewScan
        /\ said[s] = [p \in Page |-> 0] /\ analysis[s] = "none"
    BY <1>1
  <2>2. ShapeAt(s)
    <3>1. <<>> \in Seq(LogLine)
      OBVIOUS
    <3> QED
      BY <2>1, <3>1 DEF ShapeAt, NewSession, NewScan, NothingFound, ScanFields, Stages
  <2>3. NewSession.infer = "absent" /\ NewScan.at = "idle" /\ ~ Whole(<<>>)
    BY DEF NewSession, NewScan, Whole
  <2>4. TraceOf(s)
    BY <1>2, <2>1, <2>3 DEF TraceOf
  <2>5. SiteOf(s)
    BY <1>2, <2>1 DEF SiteOf, Untouched, NewScan, NothingFound
  <2> QED
    BY <2>2, <2>4, <2>5
<1>4. ServerShape
  BY <1>1, <1>3 DEF ServerShape
<1>5. PageOf
  BY <1>1 DEF PageOf, Resting, Returned
<1> QED
  BY <1>3, <1>4, <1>5 DEF SInv, TInv

(* The read is told as it was run, in every state.                          *)
LEMMA ReadKeeps == SInv /\ [Next]_vars => SInv'
<1> SUFFICES ASSUME SInv, [Next]_vars PROVE SInv'
  OBVIOUS
<1>1. CASE ServerStep
  BY <1>1, ServerMoves, BehindThePage DEF ServerStep
<1>2. CASE Founder
  BY <1>2, FounderReads
<1>3. CASE PollAnswers \/ PollLost \/ Answers \/ Flush \/ StreamDrops
  BY <1>3, AnswersRead
<1>4. ASSUME NEW turn, NEW some, FollowupsLand(turn, some) PROVE SInv'
  BY <1>4, Elsewhere DEF FollowupsLand
<1>5. CASE UNCHANGED vars
  <2>1. UNCHANGED serverVars /\ UNCHANGED page
    BY <1>5 DEF vars
  <2>2. PageOf'
    BY <2>1 DEF SInv, TInv, PageOf, serverVars
  <2> QED
    BY <2>1, <2>2, PageAlone
<1> QED
  BY <1>1, <1>2, <1>3, <1>4, <1>5 DEF Next

(* A site act that has closed has spoken of every page of the site once,    *)
(* for any number of pages and of workers, whatever lands late, and the     *)
(* count it hands on is the count at its close or none.                     *)
THEOREM TheSiteActTellsEachPageOnce == Spec => []SiteActTells
<1>1. SInv => SiteActTells
  <2> SUFFICES ASSUME SInv, NEW s \in Session, ActPhase(log[s], "site") = "done"
               PROVE  /\ \A p \in Page : said[s][p] = 1
                      /\ scan[s].at # "end" =>
                           scan[s].found.pages \in {0, scan[s].pages}
    BY DEF SiteActTells
  <2>1. SiteOf(s)
    BY KnownOf
  <2>2. PoolClosed(s)
    BY <2>1 DEF SiteOf
  <2> QED
    BY <2>2 DEF PoolClosed
<1> QED
  BY <1>1, ReadStarts, ReadKeeps, PTL DEF Spec

(* A page whose trace the log ended shows no act still running, for         *)
(* any number of reads one after the other: the lines it shows are those of *)
(* the read it listens to, and the line that ends a stream comes after      *)
(* everything that was opened in it has been closed.                        *)
THEOREM AToldTraceIsSettled == Spec => []TraceIsSettled
<1>1. SInv => TraceIsSettled
  <2> SUFFICES ASSUME SInv, page.told = "log",
                      NEW act \in {Lines[i].act : i \in DOMAIN Lines}
               PROVE  ActPhase(Lines, act) # "start"
    BY DEF TraceIsSettled
  <2> DEFINE s == page.traced
  <2>1. s \in Session /\ Whole(log[s])
    BY DEF SInv, TInv, PageOf
  <2>2. Lines = log[s]
    BY <2>1, ChatPageAssumption DEF Lines
  <2>3. TraceOf(s) /\ log[s] \in Seq(LogLine)
    BY <2>1, KnownOf DEF ShapeAt
  <2> HIDE DEF s
  <2>4. act \in Acts
    <3>1. PICK i \in DOMAIN log[s] : act = log[s][i].act
      BY <2>2
    <3>2. log[s][i] \in LogLine
      BY <2>3, <3>1
    <3> QED
      BY <3>1, <3>2 DEF LogLine
  <2>5. Finished(s)
    BY <2>1, <2>3 DEF TraceOf
  <2> QED
    BY <2>2, <2>3, <2>4, <2>5 DEF TraceOf, MayBeOpen, Finished
<1> QED
  BY <1>1, ReadStarts, ReadKeeps, PTL DEF Spec
=============================================================================
