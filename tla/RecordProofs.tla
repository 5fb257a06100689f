---------------------------- MODULE RecordProofs ----------------------------
(***************************************************************************)
(* The Record of a session, for any claims, register, messages and bounds: *)
(* a turn that no other turn overlapped answers only the question the      *)
(* founder was asked last; a proposal is kept once, on testimony; and what *)
(* the founder has settled stands. The command line beside it:             *)
(* the page that accompanies a run shows what the run has told, however    *)
(* often it was lost and found again; a founder who is not sure loses      *)
(* nothing by it, and one who edits and changes nothing gets the dossier   *)
(* that was saved. And the reading both stand on: the two engines make of  *)
(* one set of probes the same gaps, and none of silence.                   *)
(***************************************************************************)
EXTENDS Record, Cli, Reading, SequenceTheorems,
        FiniteSetTheorems, WellFoundedInduction, TLAPS

(* What the session holds as voiced is what the founder heard; only a      *)
(* proposal the panel declined meanwhile is gone.                          *)
VoicedIsHeard ==
  /\ confirmVoiced => heard.claim = pendingConfirm
  /\ proposalVoiced => pendingProposal \in {heard.proposal, None}

(* While a reply is streamed nothing counts as voiced, and what it is to   *)
(* ask is what is pending.                                                 *)
ReplyAsksPending ==
  \A t \in Turn : turn[t].at = "replying" =>
    /\ ~confirmVoiced /\ ~proposalVoiced
    /\ turn[t].claim = pendingConfirm
    /\ pendingProposal \in {turn[t].proposal, None}

OneTurn ==
  \A t, u \in Turn : turn[t].at # "idle" /\ turn[u].at # "idle" => t = u

RInv ==
  /\ taps \in Nat /\ overlapped \in BOOLEAN
  /\ DOMAIN turn = Turn /\ \A t \in Turn : {"at", "message"} \subseteq DOMAIN turn[t]
  /\ DOMAIN answers = Fields
  /\ ~overlapped => VoicedIsHeard /\ ReplyAsksPending /\ OneTurn

(* The claims are those of one cold read.                                  *)
LEMMA SameFields == ASSUME read' = read PROVE Fields' = Fields
  BY DEF Fields, Claims

(* An answer is written on the claim it answers and on no other.           *)
LEMMA AnswersOne ==
  ASSUME NEW as, NEW c, NEW type, NEW value
  PROVE  /\ DOMAIN Answer(as, c, type, value) = DOMAIN as
         /\ \A f \in DOMAIN as \ {c} : Answer(as, c, type, value)[f] = as[f]
  BY DEF Answer

(* A turn answers nothing but what was voiced, and leaves pending what its *)
(* reply is to ask.                                                        *)
LEMMA ComposeAsks ==
  ASSUME RInv, NEW t \in Turn, NEW m, Compose(t, m)
  PROVE  /\ ~overlapped =>
              /\ \A f \in Fields : answers'[f] # answers[f] => heard.claim = f
              /\ rows' # rows \/ declined' # declined => heard.proposal = pendingProposal
         /\ DOMAIN answers' = DOMAIN answers
         /\ ~confirmVoiced' /\ ~proposalVoiced'
         /\ turn' = [turn EXCEPT ![t] = [at |-> "replying", message |-> None,
                       claim |-> pendingConfirm', proposal |-> pendingProposal']]
<1>1. /\ answers' = IF AnsweredClaim(m) = None THEN answers
                    ELSE Answer(answers, AnsweredClaim(m), Interpret(m), m.rest)
      /\ rows' # rows \/ declined' # declined => proposalVoiced /\ pendingProposal # None
  BY DEF Compose
<1>2. AnsweredClaim(m) # None => confirmVoiced /\ AnsweredClaim(m) = pendingConfirm
  BY DEF AnsweredClaim
<1>3. DOMAIN answers' = DOMAIN answers
      /\ \A f \in Fields : answers'[f] # answers[f] => f = AnsweredClaim(m) /\ f # None
  <2>1. CASE AnsweredClaim(m) = None
    BY <1>1, <2>1
  <2>2. CASE AnsweredClaim(m) # None
    BY <1>1, <2>2, AnswersOne DEF RInv
  <2> QED
    BY <2>1, <2>2
<1>4. /\ ~confirmVoiced' /\ ~proposalVoiced'
      /\ turn' = [turn EXCEPT ![t] = [at |-> "replying", message |-> None,
                    claim |-> pendingConfirm', proposal |-> pendingProposal']]
  BY DEF Compose
<1>5. ASSUME ~overlapped, NEW f \in Fields, answers'[f] # answers[f] PROVE heard.claim = f
  BY <1>2, <1>3, <1>5 DEF RInv, VoicedIsHeard
<1>6. ASSUME ~overlapped, rows' # rows \/ declined' # declined
      PROVE  heard.proposal = pendingProposal
  BY <1>1, <1>6 DEF RInv, VoicedIsHeard
<1> QED
  BY <1>3, <1>4, <1>5, <1>6

(* A composed turn keeps the invariant, the first of its kind or not.      *)
LEMMA ComposeKeeps ==
  ASSUME RInv, NEW t \in Turn, NEW m, Compose(t, m),
         overlapped' \in BOOLEAN, overlapped => overlapped',
         ~overlapped' => \A u \in Turn \ {t} : turn[u].at = "idle",
         UNCHANGED <<read, taps>>
  PROVE  RInv'
<1>1. /\ ~confirmVoiced' /\ ~proposalVoiced'
      /\ turn' = [turn EXCEPT ![t] = [at |-> "replying", message |-> None,
                    claim |-> pendingConfirm', proposal |-> pendingProposal']]
      /\ DOMAIN answers' = Fields'
  BY ComposeAsks, SameFields DEF RInv
<1>2. /\ DOMAIN turn' = Turn
      /\ turn'[t].at = "replying" /\ turn'[t].claim = pendingConfirm'
      /\ turn'[t].proposal = pendingProposal'
      /\ \A u \in Turn \ {t} : turn'[u] = turn[u]
      /\ \A u \in Turn : {"at", "message"} \subseteq DOMAIN turn'[u]
  BY <1>1 DEF RInv
<1>3. ASSUME ~overlapped' PROVE (VoicedIsHeard /\ ReplyAsksPending /\ OneTurn)'
  BY <1>1, <1>2, <1>3 DEF VoicedIsHeard, ReplyAsksPending, OneTurn
<1> QED
  BY <1>1, <1>2, <1>3 DEF RInv

(* The steps of a turn.                                                    *)
LEMMA TurnsKeep ==
  ASSUME RInv, NEW t \in Turn,
         \/ \E m \in Message : Send(t, m)
         \/ AnalysisBack(t) \/ AnalysisFails(t) \/ ReplyDone(t) \/ ReplyWithout(t)
  PROVE  RInv'
<1>1. ASSUME NEW m \in Message, Send(t, m) PROVE RInv'
  <2>1. /\ turn[t].at = "idle" /\ overlapped' = (overlapped \/ Busy # {})
        /\ UNCHANGED <<read, taps, heard>>
    BY <1>1 DEF Send, Idle
  <2>2. ~overlapped' => \A u \in Turn : turn[u].at = "idle"
    BY <2>1 DEF Busy
  <2>3. CASE analysed
    BY <1>1, <2>1, <2>2, <2>3, ComposeKeeps DEF Send, RInv
  <2>4. CASE ~analysed
    <3>1. /\ turn' = [turn EXCEPT ![t].at = "analysing", ![t].message = m]
          /\ UNCHANGED session
      BY <1>1, <2>4 DEF Send
    <3>2. /\ DOMAIN turn' = Turn /\ turn'[t].at = "analysing"
          /\ \A u \in Turn \ {t} : turn'[u] = turn[u]
          /\ \A u \in Turn : {"at", "message"} \subseteq DOMAIN turn'[u]
      BY <3>1 DEF RInv
    <3>3. ASSUME ~overlapped' PROVE (VoicedIsHeard /\ ReplyAsksPending /\ OneTurn)'
      BY <2>1, <2>2, <3>1, <3>2, <3>3 DEF session, RInv, VoicedIsHeard, ReplyAsksPending, OneTurn
    <3>4. DOMAIN answers' = Fields'
      BY <2>1, <3>1, SameFields DEF session, RInv
    <3> QED
      BY <2>1, <3>2, <3>3, <3>4 DEF RInv
  <2> QED
    BY <2>3, <2>4
<1>2. CASE AnalysisBack(t)
  <2>1. /\ turn[t].at = "analysing" /\ UNCHANGED <<read, taps, overlapped>>
        /\ Compose(t, turn[t].message)
    BY <1>2 DEF AnalysisBack
  <2>2. ~overlapped' => \A u \in Turn \ {t} : turn[u].at = "idle"
    BY <2>1 DEF RInv, OneTurn
  <2> QED
    BY <2>1, <2>2, ComposeKeeps DEF RInv
<1>4. CASE AnalysisFails(t)
  <2>1. /\ turn' = [turn EXCEPT ![t] = Idle]
        /\ UNCHANGED <<read, session, taps, heard, overlapped>>
    BY <1>4 DEF AnalysisFails
  <2>2. /\ DOMAIN turn' = Turn /\ turn'[t].at = "idle"
        /\ \A u \in Turn \ {t} : turn'[u] = turn[u]
        /\ \A u \in Turn : {"at", "message"} \subseteq DOMAIN turn'[u]
    BY <2>1 DEF RInv, Idle
  <2>3. ~overlapped' => (VoicedIsHeard /\ ReplyAsksPending /\ OneTurn)'
    BY <2>1, <2>2 DEF session, RInv, VoicedIsHeard, ReplyAsksPending, OneTurn
  <2>4. DOMAIN answers' = Fields'
    BY <2>1, SameFields DEF session, RInv
  <2> QED
    BY <2>1, <2>2, <2>3, <2>4 DEF RInv
<1>3. CASE ReplyDone(t) \/ ReplyWithout(t)
  <2>1. /\ turn[t].at = "replying" /\ turn' = [turn EXCEPT ![t] = Idle]
        /\ UNCHANGED <<read, answers, pendingConfirm, pendingProposal, taps, overlapped>>
    BY <1>3 DEF ReplyDone, ReplyWithout, session
  <2>2. /\ DOMAIN turn' = Turn /\ turn'[t].at = "idle"
        /\ \A u \in Turn \ {t} : turn'[u] = turn[u]
        /\ \A u \in Turn : {"at", "message"} \subseteq DOMAIN turn'[u]
    BY <2>1 DEF RInv, Idle
  <2>3. ~overlapped' => OneTurn' /\ ReplyAsksPending'
    BY <2>1, <2>2 DEF RInv, OneTurn, ReplyAsksPending
  <2>4. ~overlapped' => VoicedIsHeard'
    <3>1. CASE ReplyWithout(t)
      BY <2>1, <3>1 DEF ReplyWithout, session, RInv, VoicedIsHeard, ReplyAsksPending
    <3>2. CASE ReplyDone(t)
      <4>1. PICK voicedClaim \in MayVoice(turn[t].claim),
                 voicedProposal \in MayVoice(turn[t].proposal) :
              /\ confirmVoiced' = voicedClaim /\ proposalVoiced' = voicedProposal
              /\ heard' = [claim |-> IF voicedClaim THEN turn[t].claim ELSE None,
                           proposal |-> IF voicedProposal THEN turn[t].proposal ELSE None]
        BY <3>2 DEF ReplyDone
      <4> QED
        BY <2>1, <4>1 DEF RInv, VoicedIsHeard, ReplyAsksPending
    <3> QED
      BY <1>3, <3>1, <3>2
  <2>5. DOMAIN answers' = Fields'
    BY <2>1, SameFields DEF RInv
  <2> QED
    BY <2>1, <2>2, <2>3, <2>4, <2>5 DEF RInv
<1> QED
  BY <1>1, <1>2, <1>3, <1>4

(* The requests of the panel: none of them voices a question.              *)
LEMMA TapsKeep ==
  ASSUME RInv, ClaimAnswer \/ ProposalAccept \/ ProposalDecline \/ ShortlistAdd
  PROVE  RInv' /\ taps' # taps
<1>1. /\ taps' = taps + 1
      /\ UNCHANGED <<read, confirmVoiced, proposalVoiced, pendingConfirm, turn, heard, overlapped>>
      /\ pendingProposal' \in {pendingProposal, None}
  BY DEF ClaimAnswer, ProposalAccept, ProposalDecline, ShortlistAdd, Tap
<1>2. DOMAIN answers' = DOMAIN answers
  <2>1. CASE ClaimAnswer
    BY <2>1, AnswersOne DEF ClaimAnswer
  <2>2. CASE ~ClaimAnswer
    BY <2>2 DEF ProposalAccept, ProposalDecline, ShortlistAdd
  <2> QED
    BY <2>1, <2>2
<1>3. DOMAIN answers' = Fields'
  BY <1>1, <1>2, SameFields DEF RInv
<1>4. ~overlapped' => (VoicedIsHeard /\ ReplyAsksPending /\ OneTurn)'
  BY <1>1 DEF RInv, VoicedIsHeard, ReplyAsksPending, OneTurn
<1> QED
  BY <1>1, <1>3, <1>4 DEF RInv

(* A record that nobody has written to yet.                                *)
LEMMA RecordStarts == Init => RInv
<1> SUFFICES ASSUME Init PROVE RInv
  OBVIOUS
<1>1. /\ DOMAIN turn = Turn
      /\ \A t \in Turn : turn[t].at = "idle" /\ {"at", "message"} \subseteq DOMAIN turn[t]
  BY DEF Init, Idle
<1>2. /\ taps \in Nat /\ overlapped \in BOOLEAN /\ ~confirmVoiced /\ ~proposalVoiced
      /\ DOMAIN answers = Fields
  BY DEF Init
<1> QED
  BY <1>1, <1>2 DEF RInv, VoicedIsHeard, ReplyAsksPending, OneTurn

(* Every step of the record.                                               *)
LEMMA RecordKeeps == RInv /\ [Next]_vars => RInv'
<1>1. ASSUME RInv, UNCHANGED vars PROVE RInv'
  BY <1>1, SameFields
     DEF vars, session, RInv, VoicedIsHeard, ReplyAsksPending, OneTurn
<1> QED
  BY <1>1, TurnsKeep, TapsKeep DEF Next

(* A chat message testifies, keeps or declines only where the reply before *)
(* it voiced that very question, whatever the panel does in between: the   *)
(* ceremony forges no testimony as long as turns do not overlap.           *)
THEOREM NoForgedTestimony == Spec => TestimonyWasAsked
<1>1. RInv /\ [Next]_vars =>
        [overlapped' \/ taps' # taps \/
           /\ \A f \in Fields : answers'[f] # answers[f] => heard.claim = f
           /\ rows' # rows \/ declined' # declined => heard.proposal = pendingProposal]_vars
  <2> SUFFICES ASSUME RInv, Next, ~overlapped', taps' = taps
               PROVE  /\ \A f \in Fields : answers'[f] # answers[f] => heard.claim = f
                      /\ rows' # rows \/ declined' # declined => heard.proposal = pendingProposal
    OBVIOUS
  <2>1. PICK t \in Turn : \/ \E m \in Message : Send(t, m)
                          \/ AnalysisBack(t) \/ AnalysisFails(t) \/ ReplyDone(t) \/ ReplyWithout(t)
    BY TapsKeep DEF Next
  <2>2. ~overlapped
    BY <2>1 DEF RInv, Send, AnalysisBack, AnalysisFails, ReplyDone, ReplyWithout
  <2>3. CASE UNCHANGED <<answers, rows, declined>>
    BY <2>3
  <2>4. ASSUME NEW m, Compose(t, m)
        PROVE  /\ \A f \in Fields : answers'[f] # answers[f] => heard.claim = f
               /\ rows' # rows \/ declined' # declined => heard.proposal = pendingProposal
    BY <2>2, <2>4, ComposeAsks
  <2> QED
    BY <2>1, <2>3, <2>4 DEF Send, AnalysisBack, AnalysisFails, ReplyDone, ReplyWithout, session
<1> QED
  BY <1>1, RecordStarts, RecordKeeps, PTL DEF Spec, TestimonyWasAsked

-----------------------------------------------------------------------------
(* The shortlist.                                                          *)

(* A bag counts in numbers.                                                *)
Counted(rs) == \A r \in DOMAIN rs : rs[r] \in Nat

(* What the entry's row is owed before it enters a list that lacks it.     *)
Earned(e, as, ds) ==
  /\ e.id \notin ds
  /\ e.kind = "expr"
  /\ \A c \in e.trigger : c.field \in Fields /\ as[c.field].status \in Testimony

(* The rows of the register either stand as they stood or are earned.      *)
Grown(was, is, as, ds) ==
  \A e \in Range(Register) :
    Copies(Row(e), is) # Copies(Row(e), was) =>
      Copies(Row(e), is) = 1 /\ Earned(e, as, ds)

(* One more copy of one row, and of no other.                              *)
LEMMA KeptCopies ==
  ASSUME NEW rs, Counted(rs), NEW r
  PROVE  /\ Counted(Keep(rs, r))
         /\ Copies(r, Keep(rs, r)) = Copies(r, rs) + 1
         /\ \A o : o # r => Copies(o, Keep(rs, r)) = Copies(o, rs)
<1>1. Keep(rs, r) = [e \in DOMAIN rs \cup {r} |->
                       (IF e \in DOMAIN rs THEN rs[e] ELSE 0)
                         + (IF e \in {r} THEN [x \in {r} |-> 1][e] ELSE 0)]
  BY DEF Keep, (+), SetToBag, BagToSet, BagIn
<1>2. DOMAIN Keep(rs, r) = DOMAIN rs \cup {r}
  BY <1>1
<1>3. Keep(rs, r)[r] = (IF r \in DOMAIN rs THEN rs[r] ELSE 0) + 1
  BY <1>1
<1>4. \A o \in DOMAIN rs : o # r => Keep(rs, r)[o] = rs[o]
  BY <1>1 DEF Counted
<1>5. Counted(Keep(rs, r))
  BY <1>2, <1>3, <1>4 DEF Counted
<1> QED
  BY <1>2, <1>3, <1>4, <1>5 DEF Copies, BagIn, BagToSet, Counted

(* An entry that fires does so on what the founder has testified to.       *)
LEMMA LiveIsEarned ==
  ASSUME NEW as, DOMAIN as = Fields, NEW rs, NEW ds, NEW i \in LiveProposals(as, rs, ds)
  PROVE  /\ i \in DOMAIN Register /\ Register[i] \in Range(Register)
         /\ Register[i].id \notin Taken(rs, ds)
         /\ Earned(Register[i], as, ds)
<1>1. /\ i \in DOMAIN Register /\ EntryFires(Register[i], Testified(as))
      /\ Register[i].id \notin Taken(rs, ds)
  BY DEF LiveProposals
<1> DEFINE e == Register[i]
<1>2. e \in Range(Register)
  BY <1>1 DEF Range
<1>3. e.kind \in {"gaps", "expr"} /\ (e.kind = "gaps" => "undefined" \notin e.gaps)
  BY <1>2, RecordAssumption
<1>4. e.kind # "gaps"
  BY <1>1, <1>3 DEF EntryFires, OpenGapIds
<1>5. Fires(e.trigger, Testified(as))
  BY <1>1, <1>3, <1>4 DEF EntryFires
<1>6. \A c \in e.trigger : c.field \in DOMAIN Testified(as)
  BY <1>5 DEF Fires
<1>7. DOMAIN Testified(as) = {g \in Fields : as[g].status \in Testimony}
  BY DEF Testified
<1>8. e.id \notin ds
  BY <1>1 DEF Taken
<1> QED
  BY <1>1, <1>2, <1>3, <1>4, <1>6, <1>7, <1>8 DEF Earned

(* Accepting a proposal keeps one row, or none.                            *)
LEMMA AcceptGrows ==
  ASSUME NEW as, DOMAIN as = Fields, NEW rs, Counted(rs), NEW ds, NEW p
  PROVE  /\ Counted(AcceptProposal(p, as, rs, ds))
         /\ Grown(rs, AcceptProposal(p, as, rs, ds), as, ds)
<1>1. CASE p \in {r.trigger : r \in BagToSet(rs)} \/ ~IsLive(p, as, rs, ds)
  BY <1>1 DEF AcceptProposal, Grown
<1>2. CASE ~(p \in {r.trigger : r \in BagToSet(rs)} \/ ~IsLive(p, as, rs, ds))
  <2>1. AcceptProposal(p, as, rs, ds) = Keep(rs, Row(Entry(p)))
    BY <1>2 DEF AcceptProposal
  <2>2. PICK i \in LiveProposals(as, rs, ds) : Register[i].id = p
    BY <1>2 DEF IsLive
  <2>3. /\ Register[i] \in Range(Register) /\ Register[i].id \notin Taken(rs, ds)
        /\ Earned(Register[i], as, ds)
    BY LiveIsEarned
  <2>4. Entry(p) \in Range(Register) /\ Entry(p).id = p
    BY <2>2, <2>3 DEF Entry
  <2>5. Entry(p) = Register[i]
    BY <2>2, <2>3, <2>4, RecordAssumption
  <2>6. \A e \in Range(Register) : Row(e) = Row(Entry(p)) => e = Entry(p)
    BY <2>4, RecordAssumption DEF Row
  <2>7. Copies(Row(Entry(p)), rs) = 0
    <3>1. Row(Entry(p)).trigger = p
      BY <2>4 DEF Row
    <3>2. Row(Entry(p)) \notin BagToSet(rs)
      BY <1>2, <3>1
    <3> QED
      BY <3>2 DEF Copies, BagIn
  <2>8. /\ Counted(Keep(rs, Row(Entry(p))))
        /\ Copies(Row(Entry(p)), Keep(rs, Row(Entry(p)))) = 1
        /\ \A o : o # Row(Entry(p)) => Copies(o, Keep(rs, Row(Entry(p)))) = Copies(o, rs)
    BY <2>7, KeptCopies
  <2> QED
    BY <2>1, <2>3, <2>5, <2>6, <2>8 DEF Grown
<1> QED
  BY <1>1, <1>2

(* What the founder puts on the list by name is under no proposal.         *)
LEMMA NamedGrowsNothing ==
  ASSUME NEW rs, Counted(rs), NEW as, NEW ds, NEW name
  PROVE  /\ Counted(Keep(rs, [item |-> name, trigger |-> None]))
         /\ Grown(rs, Keep(rs, [item |-> name, trigger |-> None]), as, ds)
<1>1. \A e \in Range(Register) : Row(e) # [item |-> name, trigger |-> None]
  <2> SUFFICES ASSUME NEW e \in Range(Register) PROVE Row(e) # [item |-> name, trigger |-> None]
    OBVIOUS
  <2>1. Row(e).trigger # None
    BY RecordAssumption DEF Row
  <2> QED
    BY <2>1
<1> QED
  BY <1>1, KeptCopies DEF Grown

(* What a composed turn does to the list.                                  *)
LEMMA ComposeGrows ==
  ASSUME RInv, Counted(rows), NEW t, NEW m, Compose(t, m)
  PROVE  Counted(rows') /\ Grown(rows, rows', answers', declined)
<1>1. DOMAIN answers' = Fields
  <2>1. answers' = IF AnsweredClaim(m) = None THEN answers
                   ELSE Answer(answers, AnsweredClaim(m), Interpret(m), m.rest)
    BY DEF Compose
  <2> QED
    BY <2>1, AnswersOne DEF RInv
<1>2. rows' = rows \/ \E p : rows' = AcceptProposal(p, answers', rows, declined)
  BY DEF Compose
<1>3. CASE rows' = rows
  BY <1>3 DEF Grown
<1>4. CASE \E p : rows' = AcceptProposal(p, answers', rows, declined)
  BY <1>1, <1>4, AcceptGrows
<1> QED
  BY <1>2, <1>3, <1>4

(* Every step, of a turn or of the panel, grows the list as it may.        *)
LEMMA StepGrows ==
  ASSUME RInv, Counted(rows), Next
  PROVE  Counted(rows') /\ Grown(rows, rows', answers', declined)
<1> DEFINE Goal == Counted(rows') /\ Grown(rows, rows', answers', declined)
<1>1. ASSUME rows' = rows PROVE Goal
  BY <1>1 DEF Grown
<1>2. ASSUME NEW t, NEW m, Compose(t, m) PROVE Goal
  BY <1>2, ComposeGrows
<1>3. CASE ProposalAccept
  BY <1>3, AcceptGrows DEF ProposalAccept, RInv
<1>4. CASE ShortlistAdd
  <2>1. PICK e \in Range(Register) :
          rows' = rows \/ rows' = Keep(rows, [item |-> e.title, trigger |-> None])
    BY <1>4 DEF ShortlistAdd
  <2> HIDE DEF Goal
  <2>2. CASE rows' = rows
    BY <1>1, <2>2 DEF Goal
  <2>3. CASE rows' = Keep(rows, [item |-> e.title, trigger |-> None])
    BY <2>3, NamedGrowsNothing DEF Goal
  <2> QED
    BY <2>1, <2>2, <2>3
<1>5. CASE ClaimAnswer \/ ProposalDecline
  BY <1>1, <1>5 DEF ClaimAnswer, ProposalDecline
<1>6. CASE \E t \in Turn : \/ \E m \in Message : Send(t, m)
                           \/ AnalysisBack(t) \/ AnalysisFails(t) \/ ReplyDone(t) \/ ReplyWithout(t)
  BY <1>1, <1>2, <1>6 DEF Send, AnalysisBack, AnalysisFails, ReplyDone, ReplyWithout, session
<1> HIDE DEF Goal
<1> QED
  BY <1>3, <1>4, <1>5, <1>6 DEF Next, Goal

(* However turns and panel requests interleave, a row enters the shortlist *)
(* under a proposal at most once, never after the proposal was declined,   *)
(* and only when the founder has confirmed or corrected every field its    *)
(* trigger reads (acceptProposal, liveProposals).                          *)
THEOREM NothingIsPitchedUntestified == Spec => KeptOnceOnTestimony
<1>1. Init => Counted(rows)
  BY DEF Init, Counted, EmptyBag, SetToBag
<1>2. RInv /\ Counted(rows) /\ [Next]_vars => Counted(rows)'
  <2>1. ASSUME UNCHANGED vars, Counted(rows) PROVE Counted(rows)'
    BY <2>1 DEF vars, session
  <2> QED
    BY <2>1, StepGrows
<1>3. RInv /\ Counted(rows) /\ [Next]_vars =>
        [\A e \in Range(Register) :
           Copies(Row(e), rows') # Copies(Row(e), rows) =>
              /\ Copies(Row(e), rows') = 1
              /\ e.id \notin declined
              /\ e.kind = "expr"
              /\ \A c \in e.trigger :
                    c.field \in Fields /\ answers'[c.field].status \in Testimony]_vars
  BY StepGrows DEF Grown, Earned
<1> QED
  BY <1>1, <1>2, <1>3, RecordStarts, RecordKeeps, PTL DEF Spec, KeptOnceOnTestimony

-----------------------------------------------------------------------------
(* The next question.                                                      *)

(* A set of numbers that is not empty has a least.                         *)
LEMMA LeastExists ==
  ASSUME NEW I \in SUBSET Nat, I # {}
  PROVE  Min(I) \in I
<1>1. IsWellFoundedOn(OpToRel(<, Nat), Nat)
  BY NatLessThanWellFounded
<1>2. PICK x \in I : \A y \in I : ~(<<y, x>> \in OpToRel(<, Nat))
  BY <1>1, WFMin
<1>3. \A y \in I : ~(y < x)
  BY <1>2 DEF OpToRel
<1>4. \A y \in I : x <= y
  BY <1>3
<1> QED
  BY <1>4 DEF Min

(* The claim nextConfirmable picks is open.                                *)
LEMMA NextIsOpen ==
  ASSUME NEW as
  PROVE  NextConfirmable(as) = None \/ as[NextConfirmable(as)].status = "inferred"
<1> DEFINE I == {i \in 1..Len(AskOrder) : /\ AskOrder[i] \in DOMAIN as
                                          /\ as[AskOrder[i]].status = "inferred"
                                          /\ asks[AskOrder[i]] < MaxAsksPerClaim}
<1>1. NextConfirmable(as) = LET first == IF I # {} THEN Min(I) ELSE 0
                            IN  IF first = 0 THEN None ELSE AskOrder[first]
  BY DEF NextConfirmable, SelectInSeq
<1>2. I \subseteq Nat
  <2>1. \A m : \A i \in 1..m : i \in Nat
    OBVIOUS
  <2> QED
    BY <2>1
<1>3. I # {} => as[AskOrder[Min(I)]].status = "inferred"
  <2>1. I # {} => Min(I) \in I
    BY <1>2, LeastExists
  <2> QED
    BY <2>1
<1> HIDE DEF I
<1> QED
  BY <1>1, <1>3

(* What a turn is to ask is open when it is composed.                      *)
LEMMA AsksWhatIsOpen ==
  ASSUME NEW t, NEW m, Compose(t, m)
  PROVE  pendingConfirm' = None \/ answers'[pendingConfirm'].status = "inferred"
<1>1. /\ answers' = IF AnsweredClaim(m) = None THEN answers
                    ELSE Answer(answers, AnsweredClaim(m), Interpret(m), m.rest)
      /\ \E proposal : pendingConfirm' = ClaimToAsk(m, answers', proposal)
  BY DEF Compose
<1>2. PICK proposal : pendingConfirm' = ClaimToAsk(m, answers', proposal)
  BY <1>1
<1>3. CASE pendingConfirm' = StillPending(m) /\ StillPending(m) # None
  <2>1. /\ StillPending(m) = pendingConfirm /\ Interpret(m) = None
        /\ answers[pendingConfirm].status = "inferred"
    BY <1>3 DEF StillPending
  <2>2. AnsweredClaim(m) = None
    BY <2>1 DEF AnsweredClaim
  <2> QED
    BY <1>1, <1>3, <2>1, <2>2
<1>4. CASE pendingConfirm' = NextConfirmable(answers')
  BY <1>4, NextIsOpen
<1> QED
  BY <1>2, <1>3, <1>4 DEF ClaimToAsk

(* A composed turn changes no answer that stands.                          *)
LEMMA ComposeKeepsAnswers ==
  ASSUME RInv, NEW t, NEW m, Compose(t, m), NEW f \in Fields, answers[f].status # "inferred"
  PROVE  answers'[f] = answers[f]
<1>1. answers' = IF AnsweredClaim(m) = None THEN answers
                 ELSE Answer(answers, AnsweredClaim(m), Interpret(m), m.rest)
  BY DEF Compose
<1>2. AnsweredClaim(m) # None => answers[AnsweredClaim(m)].status = "inferred"
  BY DEF AnsweredClaim
<1> QED
  BY <1>1, <1>2, AnswersOne DEF RInv

(* What the founder has settled, in chat or in the panel, stands: what a   *)
(* turn is given to ask was open when the turn was composed                *)
(* (nextConfirmable, the still-pending branch of sessionChatHandler), and  *)
(* no message changes a settled answer, not even a yes to a question that  *)
(* a reply put after the panel had settled it.                             *)
THEOREM WhatIsSettledStands == Spec => SettledStands
<1>1. RInv /\ [Next]_vars =>
        [/\ \A t \in Turn :
              turn'[t] # turn[t] /\ turn'[t].claim # None =>
                 answers'[turn'[t].claim].status = "inferred"
         /\ taps' = taps =>
              \A f \in Fields :
                 answers[f].status # "inferred" => answers'[f] = answers[f]]_vars
  <2> DEFINE AskedOpen(u) == turn'[u] # turn[u] /\ turn'[u].claim # None =>
                           answers'[turn'[u].claim].status = "inferred"
             Stands(f) == answers[f].status # "inferred" => answers'[f] = answers[f]
  <2> SUFFICES ASSUME RInv, Next
               PROVE  /\ \A u \in Turn : AskedOpen(u)
                      /\ taps' = taps => \A f \in Fields : Stands(f)
    OBVIOUS
  <2>1. CASE ClaimAnswer \/ ProposalAccept \/ ProposalDecline \/ ShortlistAdd
    <3>1. turn' = turn
      BY <2>1 DEF ClaimAnswer, ProposalAccept, ProposalDecline, ShortlistAdd, Tap
    <3> QED
      BY <2>1, <3>1, TapsKeep
  <2>2. ASSUME NEW t \in Turn, NEW m, Compose(t, m)
        PROVE  (\A u \in Turn : AskedOpen(u)) /\ (\A f \in Fields : Stands(f))
    <3>1. turn' = [turn EXCEPT ![t] = [at |-> "replying", message |-> None,
                     claim |-> pendingConfirm', proposal |-> pendingProposal']]
      BY <2>2, ComposeAsks
    <3>2. \A u \in Turn : turn'[u] # turn[u] => u = t /\ turn'[u].claim = pendingConfirm'
      BY <3>1 DEF RInv
    <3> QED
      BY <2>2, <3>2, AsksWhatIsOpen, ComposeKeepsAnswers
  <2>3. ASSUME NEW t \in Turn, turn[t] = Idle, NEW m,
               turn' = [turn EXCEPT ![t].at = "analysing", ![t].message = m], answers' = answers
        PROVE  (\A u \in Turn : AskedOpen(u)) /\ (\A f \in Fields : Stands(f))
    <3>1. turn'[t].claim = None
      <4>1. turn'[t] = [[turn[t] EXCEPT !.at = "analysing"] EXCEPT !.message = m]
        BY <2>3 DEF RInv
      <4> QED
        BY <4>1, <2>3 DEF Idle
    <3>2. \A u \in Turn \ {t} : turn'[u] = turn[u]
      BY <2>3 DEF RInv
    <3> QED
      BY <2>3, <3>1, <3>2
  <2>4. ASSUME NEW t \in Turn, turn' = [turn EXCEPT ![t] = Idle], answers' = answers
        PROVE  (\A u \in Turn : AskedOpen(u)) /\ (\A f \in Fields : Stands(f))
    <3>1. turn'[t].claim = None /\ \A u \in Turn \ {t} : turn'[u] = turn[u]
      BY <2>4 DEF RInv, Idle
    <3> QED
      BY <2>4, <3>1
  <2> HIDE DEF AskedOpen, Stands
  <2>5. ASSUME NEW t \in Turn, NEW m \in Message, Send(t, m)
        PROVE  (\A u \in Turn : AskedOpen(u)) /\ (\A f \in Fields : Stands(f))
    <3>1. CASE analysed
      BY <2>2, <2>5, <3>1 DEF Send
    <3>2. CASE ~analysed
      BY <2>3, <2>5, <3>2 DEF Send, session
    <3> QED
      BY <3>1, <3>2
  <2>6. ASSUME NEW t \in Turn, AnalysisBack(t)
        PROVE  (\A u \in Turn : AskedOpen(u)) /\ (\A f \in Fields : Stands(f))
    BY <2>2, <2>6 DEF AnalysisBack
  <2>7. ASSUME NEW t \in Turn, AnalysisFails(t) \/ ReplyDone(t) \/ ReplyWithout(t)
        PROVE  (\A u \in Turn : AskedOpen(u)) /\ (\A f \in Fields : Stands(f))
    BY <2>4, <2>7 DEF AnalysisFails, ReplyDone, ReplyWithout, session
  <2> QED
    BY <2>1, <2>5, <2>6, <2>7 DEF Next
<1> QED
  BY <1>1, RecordStarts, RecordKeeps, PTL DEF Spec, SettledStands
-----------------------------------------------------------------------------
(* The companion page of the command line.                                 *)

PageTold == INSTANCE FoldTheorems WITH Op <- HandleEvent

(* The library's fold and the instance's are the same expression.          *)
LEMMA DeliverIsFold == \A p, es : Deliver(p, es) = PageTold!Fold(p, es)
  BY Zenon DEF Deliver, PageTold!Fold, FoldLeft, PageTold!FoldLeft, MapThenFoldSet,
               PageTold!MapThenFoldSet, Max, PageTold!Max

(* What the run may tell a page, and what a page may show.                 *)
Part == {"company_snapshot", "web_intelligence", "email_security", "breach",
         "signal_extraction", "evidence_sources", "trust_gaps", "spv_context"}
Status == {"active", "absent", "loading", "done", "error"}
Text == {"", "Connected", "Connection lost", "confirm", "quick", "standard", "deep"}
Drawn == Seq(PageNode \X PageNode)

Telling ==
  [type : {"start"}, id : PageNode \ {"entity"}]
    \cup [type : {"node"}, id : PageNode \ {"entity"}, status : {"done", "error"}]
    \cup [type : {"edge"}, from : PageNode, to : PageNode]
    \cup [type : {"section"}, id : Part]
    \cup [type : {"depth", "complete"}, text : Text]
    \cup [type : {"interactive"}]

Shows ==
  [live : BOOLEAN, ours : BOOLEAN, nodes : [PageNode -> Status], edges : Drawn,
   filled : SUBSET Part, text : Text, dot : {"", "lost", "asking", "done"},
   stopShown : BOOLEAN, pressed : BOOLEAN, exportShown : BOOLEAN]

Now == Deliver(OnOpen(BlankPage), events)

(* A page shows what another shows, and what is left of an earlier one.    *)
Follows(a, b, old) ==
  /\ a.live = b.live /\ a.text = b.text /\ a.stopShown = b.stopShown
  /\ \A id \in PageNode :
       \/ a.nodes[id] = b.nodes[id]
       \/ b.nodes[id] = NoNodes[id] /\ a.nodes[id] = old.nodes[id]
  /\ a.filled = b.filled \cup old.filled
  /\ ToSet(a.edges) = ToSet(b.edges) \cup ToSet(old.edges)
  /\ a.exportShown <=> (b.exportShown \/ old.exportShown)
  /\ a.dot \in {b.dot, "lost"}

(* All that is left of an earlier page is part of the later one.           *)
Within(old, q) ==
  /\ \A id \in PageNode : q.nodes[id] = NoNodes[id] => old.nodes[id] = NoNodes[id]
  /\ old.filled \subseteq q.filled /\ ToSet(old.edges) \subseteq ToSet(q.edges)
  /\ old.exportShown => q.exportShown

(* What is left on a connected page is of an earlier run, or nothing.      *)
PageInv ==
  /\ events \in Seq(Telling) /\ page \in Shows
  /\ page.live => \E old \in Shows : Follows(page, Now, old) /\ (page.ours => old = BlankPage)
  /\ ~page.live => page.dot \in {"", "lost"}
  /\ ~page.live /\ page.ours => Within(page, Now)

(* No page is connected between two runs, nor is one the next run's.       *)
Between == phase = "idle" => ~page.live /\ (page = BlankPage \/ ~page.ours)

-----------------------------------------------------------------------------

(* An edge more is one more of the set.                                    *)
LEMMA EdgeMore ==
  ASSUME NEW S, NEW es \in Seq(S), NEW e \in S
  PROVE  Append(es, e) \in Seq(S) /\ ToSet(Append(es, e)) = ToSet(es) \cup {e}
<1> DEFINE t == Append(es, e)
           n == Len(es)
<1>1. /\ t \in Seq(S) /\ n \in Nat
      /\ t[n + 1] = e /\ \A i \in 1..n : t[i] = es[i]
      /\ DOMAIN t = 1..(n + 1) /\ DOMAIN es = 1..n
  OBVIOUS
<1> HIDE DEF t, n
<1>2. ToSet(t) \subseteq ToSet(es) \cup {e}
  <2>1. \A i \in 1..(n + 1) : i = n + 1 \/ i \in 1..n
    BY <1>1
  <2> QED
    BY <1>1, <2>1 DEF ToSet
<1>3. ToSet(es) \subseteq ToSet(t) /\ e \in ToSet(t)
  <2>1. n + 1 \in 1..(n + 1) /\ 1..n \subseteq 1..(n + 1)
    BY <1>1
  <2> QED
    BY <1>1, <2>1 DEF ToSet
<1> QED
  BY <1>1, <1>2, <1>3 DEF t

(* What one event does to a page.                                          *)
LEMMA EventDoes ==
  ASSUME NEW p \in Shows, NEW e \in Telling
  PROVE  LET q == HandleEvent(p, e) IN
         /\ q \in Shows /\ q.live = p.live /\ q.ours = p.ours
         /\ \A id \in PageNode : q.nodes[id] = p.nodes[id] \/ q.nodes[id] # NoNodes[id]
         /\ p.filled \subseteq q.filled /\ ToSet(p.edges) \subseteq ToSet(q.edges)
         /\ p.exportShown => q.exportShown
<1> DEFINE q == HandleEvent(p, e)
<1>1. CASE e.type \in {"start", "node"}
  <2>1. PICK v \in {"loading", "done", "error"} : q = [p EXCEPT !.nodes[e.id] = v]
    BY <1>1 DEF HandleEvent, Telling
  <2>2. e.id \in PageNode /\ e.id # "entity"
    BY <1>1 DEF Telling
  <2>3. p.nodes \in [PageNode -> Status]
    BY DEF Shows
  <2>4. q = [p EXCEPT !.nodes = [p.nodes EXCEPT ![e.id] = v]]
    BY <2>1
  <2>5. [p.nodes EXCEPT ![e.id] = v] \in [PageNode -> Status]
    BY <2>2, <2>3 DEF Status
  <2>6. \A id \in PageNode : [p.nodes EXCEPT ![e.id] = v][id] = p.nodes[id] \/ v # NoNodes[id]
    BY <2>2, <2>3 DEF NoNodes
  <2>7. q \in Shows
    BY <2>4, <2>5 DEF Shows
  <2>8. q.nodes = [p.nodes EXCEPT ![e.id] = v] /\ q.live = p.live /\ q.ours = p.ours
    BY <2>4 DEF Shows
  <2>9. q.filled = p.filled /\ q.edges = p.edges /\ q.exportShown = p.exportShown
    BY <2>4 DEF Shows
  <2>10. \A id \in PageNode : q.nodes[id] = p.nodes[id] \/ q.nodes[id] # NoNodes[id]
    BY <2>2, <2>3, <2>8 DEF NoNodes
  <2> QED
    BY <2>7, <2>8, <2>9, <2>10
<1>2. CASE e.type = "edge"
  <2>1. q = [p EXCEPT !.edges = Append(p.edges, <<e.from, e.to>>)]
    BY <1>2 DEF HandleEvent
  <2>2. p.edges \in Seq(PageNode \X PageNode) /\ <<e.from, e.to>> \in PageNode \X PageNode
    BY <1>2 DEF Shows, Telling, Drawn
  <2>3. /\ Append(p.edges, <<e.from, e.to>>) \in Drawn
        /\ ToSet(p.edges) \subseteq ToSet(Append(p.edges, <<e.from, e.to>>))
    BY <2>2, EdgeMore DEF Drawn
  <2> DEFINE es == Append(p.edges, <<e.from, e.to>>)
  <2> HIDE DEF es
  <2>4. q = [p EXCEPT !.edges = es] /\ es \in Drawn /\ ToSet(p.edges) \subseteq ToSet(es)
    BY <2>1, <2>3 DEF es
  <2> QED
    BY <2>4 DEF Shows
<1>3. CASE e.type = "section"
  BY <1>3 DEF HandleEvent, Shows, Telling
<1>4. CASE e.type = "depth"
  BY <1>4 DEF HandleEvent, Shows, Telling
<1>5. CASE e.type = "complete"
  BY <1>5 DEF HandleEvent, Shows, Telling
<1>6. CASE e.type = "interactive"
  BY <1>6 DEF HandleEvent, Shows, Text
<1> QED
  BY <1>1, <1>2, <1>3, <1>4, <1>5, <1>6 DEF Telling

(* Two pages told the same event follow on from each other.                *)
LEMMA EventFollows ==
  ASSUME NEW a \in Shows, NEW b \in Shows, NEW old \in Shows, NEW e \in Telling,
         Follows(a, b, old)
  PROVE  Follows(HandleEvent(a, e), HandleEvent(b, e), old)
<1> DEFINE c == HandleEvent(a, e)
           d == HandleEvent(b, e)
<1>1. CASE e.type \in {"start", "node"}
  <2>1. PICK v \in {"loading", "done", "error"} :
             c = [a EXCEPT !.nodes[e.id] = v] /\ d = [b EXCEPT !.nodes[e.id] = v]
    BY <1>1 DEF HandleEvent, Telling
  <2>2. a.nodes \in [PageNode -> Status] /\ b.nodes \in [PageNode -> Status]
    BY DEF Shows
  <2>3. /\ c = [a EXCEPT !.nodes = [a.nodes EXCEPT ![e.id] = v]]
        /\ d = [b EXCEPT !.nodes = [b.nodes EXCEPT ![e.id] = v]]
    BY <2>1
  <2>4. c.nodes = [a.nodes EXCEPT ![e.id] = v] /\ d.nodes = [b.nodes EXCEPT ![e.id] = v]
    BY <2>3 DEF Shows
  <2>5. /\ c.live = a.live /\ c.text = a.text /\ c.stopShown = a.stopShown
       /\ c.filled = a.filled /\ c.edges = a.edges
       /\ c.exportShown = a.exportShown /\ c.dot = a.dot
       /\ d.live = b.live /\ d.text = b.text /\ d.stopShown = b.stopShown
       /\ d.filled = b.filled /\ d.edges = b.edges
       /\ d.exportShown = b.exportShown /\ d.dot = b.dot
    BY <2>3 DEF Shows
  <2> HIDE DEF c, d
  <2>6. \A id \in PageNode : /\ c.nodes[id] = IF id = e.id THEN v ELSE a.nodes[id]
                             /\ d.nodes[id] = IF id = e.id THEN v ELSE b.nodes[id]
    BY <2>2, <2>4
  <2>7. \A id \in PageNode :
          \/ c.nodes[id] = d.nodes[id]
          \/ d.nodes[id] = NoNodes[id] /\ c.nodes[id] = old.nodes[id]
    BY <2>6 DEF Follows
  <2>8. Follows(c, d, old)
    BY <2>5, <2>7 DEF Follows
  <2> QED
    BY <2>8 DEF c, d
<1>2. CASE e.type = "edge"
  <2> DEFINE x == <<e.from, e.to>>
             ea == Append(a.edges, x)
             eb == Append(b.edges, x)
  <2>1. x \in PageNode \X PageNode
    BY <1>2 DEF Telling
  <2>2. ToSet(ea) = ToSet(a.edges) \cup {x} /\ ToSet(eb) = ToSet(b.edges) \cup {x}
    <3>1. a.edges \in Seq(PageNode \X PageNode) /\ b.edges \in Seq(PageNode \X PageNode)
      BY DEF Shows, Drawn
    <3> HIDE DEF x
    <3>2. ToSet(Append(a.edges, x)) = ToSet(a.edges) \cup {x}
      BY <2>1, <3>1, EdgeMore
    <3>3. ToSet(Append(b.edges, x)) = ToSet(b.edges) \cup {x}
      BY <2>1, <3>1, EdgeMore
    <3> QED
      BY <3>2, <3>3
  <2>3. c = [a EXCEPT !.edges = ea] /\ d = [b EXCEPT !.edges = eb]
    BY <1>2 DEF HandleEvent
  <2> HIDE DEF x, ea, eb, c, d
  <2>4. c.edges = ea /\ d.edges = eb
    BY <2>3 DEF Shows
  <2>5. /\ c.live = a.live /\ c.text = a.text /\ c.stopShown = a.stopShown
       /\ c.filled = a.filled /\ c.nodes = a.nodes
       /\ c.exportShown = a.exportShown /\ c.dot = a.dot
       /\ d.live = b.live /\ d.text = b.text /\ d.stopShown = b.stopShown
       /\ d.filled = b.filled /\ d.nodes = b.nodes
       /\ d.exportShown = b.exportShown /\ d.dot = b.dot
    BY <2>3 DEF Shows
  <2>6. ToSet(c.edges) = ToSet(d.edges) \cup ToSet(old.edges)
    BY <2>2, <2>4 DEF Follows
  <2>7. Follows(c, d, old)
    BY <2>5, <2>6 DEF Follows
  <2> QED
    BY <2>7 DEF c, d
<1>3. CASE e.type = "section"
  <2> DEFINE fa == a.filled \cup {e.id}
             fb == b.filled \cup {e.id}
  <2>1. c = [a EXCEPT !.filled = fa] /\ d = [b EXCEPT !.filled = fb]
    BY <1>3 DEF HandleEvent
  <2> HIDE DEF c, d, fa, fb
  <2>2. c.filled = fa /\ d.filled = fb
    BY <2>1 DEF Shows
  <2>3. /\ c.live = a.live /\ c.text = a.text /\ c.stopShown = a.stopShown
       /\ c.edges = a.edges /\ c.nodes = a.nodes
       /\ c.exportShown = a.exportShown /\ c.dot = a.dot
       /\ d.live = b.live /\ d.text = b.text /\ d.stopShown = b.stopShown
       /\ d.edges = b.edges /\ d.nodes = b.nodes
       /\ d.exportShown = b.exportShown /\ d.dot = b.dot
    BY <2>1 DEF Shows
  <2>4. c.filled = d.filled \cup old.filled
    BY <2>2 DEF Follows, fa, fb
  <2>5. Follows(c, d, old)
    BY <2>3, <2>4 DEF Follows
  <2> QED
    BY <2>5 DEF c, d
<1>4. CASE e.type = "depth"
  BY <1>4 DEF HandleEvent, Shows, Follows
<1>5. CASE e.type = "complete"
  BY <1>5 DEF HandleEvent, Shows, Follows
<1>6. CASE e.type = "interactive"
  BY <1>6 DEF HandleEvent, Shows, Follows
<1> QED
  BY <1>1, <1>2, <1>3, <1>4, <1>5, <1>6 DEF Telling

(* So do pages told the same sequence of events.                           *)
LEMMA DeliverFollows ==
  ASSUME NEW a \in Shows, NEW b \in Shows, NEW old \in Shows, NEW es \in Seq(Telling),
         Follows(a, b, old)
  PROVE  /\ Deliver(a, es) \in Shows /\ Deliver(b, es) \in Shows
         /\ Follows(Deliver(a, es), Deliver(b, es), old)
<1> DEFINE R == {ab \in Shows \X Shows : Follows(ab[1], ab[2], old)}
<1>1. Len(es) \in Nat /\ DOMAIN es = 1..Len(es)
  OBVIOUS
<1>2. <<a, b>> \in R
  OBVIOUS
<1>3. ASSUME NEW i \in 1..Len(es), NEW p, NEW q, <<p, q>> \in R
      PROVE  <<HandleEvent(p, es[i]), HandleEvent(q, es[i])>> \in R
  <2>1. es[i] \in Telling /\ p \in Shows /\ q \in Shows /\ Follows(p, q, old)
    BY <1>3
  <2>2. HandleEvent(p, es[i]) \in Shows /\ HandleEvent(q, es[i]) \in Shows
    BY <2>1, EventDoes
  <2>3. Follows(HandleEvent(p, es[i]), HandleEvent(q, es[i]), old)
    BY <2>1, EventFollows
  <2> QED
    BY <2>2, <2>3
<1> HIDE DEF R
<1>4. <<PageTold!Fold(a, es), PageTold!Fold(b, es)>> \in R
  BY <1>1, <1>2, <1>3, PageTold!FoldAlike
<1> QED
  BY <1>4, DeliverIsFold DEF R

(* What is told a page is never taken back by what follows.                *)
LEMMA DeliverGrows ==
  ASSUME NEW p \in Shows, NEW es \in Seq(Telling)
  PROVE  /\ Deliver(p, es) \in Shows /\ Deliver(p, es).live = p.live
         /\ Deliver(p, es).ours = p.ours /\ Within(p, Deliver(p, es))
<1> DEFINE A == {q \in Shows : q.live = p.live /\ q.ours = p.ours /\ Within(p, q)}
<1>1. Len(es) \in Nat /\ DOMAIN es = 1..Len(es)
  OBVIOUS
<1>2. p \in A
  BY DEF Within
<1>3. ASSUME NEW q \in A, NEW i \in 1..Len(es) PROVE HandleEvent(q, es[i]) \in A
  <2>1. es[i] \in Telling /\ q \in Shows
    OBVIOUS
  <2>2. LET r == HandleEvent(q, es[i]) IN
        /\ r \in Shows /\ r.live = q.live /\ r.ours = q.ours
        /\ \A id \in PageNode : r.nodes[id] = q.nodes[id] \/ r.nodes[id] # NoNodes[id]
        /\ q.filled \subseteq r.filled /\ ToSet(q.edges) \subseteq ToSet(r.edges)
        /\ q.exportShown => r.exportShown
    BY <2>1, EventDoes
  <2> QED
    BY <2>2 DEF Within
<1> HIDE DEF A
<1>4. PageTold!Fold(p, es) \in A
  BY <1>1, <1>2, <1>3, PageTold!FoldStays
<1> QED
  BY <1>4, DeliverIsFold DEF A

(* A blank page is one, and is within every other.                         *)
LEMMA BlankFits ==
  /\ BlankPage \in Shows /\ OnOpen(BlankPage) \in Shows
  /\ OnOpen(BlankPage).live = TRUE
  /\ \A q : Within(BlankPage, q)
  /\ \A p \in Shows : OnOpen(p) \in Shows
<1>1. ToSet(<< >>) = {}
  BY DEF ToSet
<1>2. BlankPage \in Shows
  <2>1. NoNodes \in [PageNode -> Status] /\ << >> \in Drawn
    BY DEF NoNodes, Status, Drawn
  <2> QED
    BY <2>1 DEF BlankPage, Shows, Text
<1>3. \A p \in Shows : OnOpen(p) \in Shows /\ OnOpen(p).live = TRUE
  BY DEF OnOpen, Shows, Text
<1>4. \A q : Within(BlankPage, q)
  BY <1>1 DEF Within, BlankPage
<1> QED
  BY <1>2, <1>3, <1>4

(* Events told keep the page what it should be.                            *)
LEMMA EmitKeeps ==
  ASSUME PageInv, NEW es \in Seq(Telling), Emit(es)
  PROVE  PageInv'
<1>1. CASE mode # "fresh"
  BY <1>1 DEF Emit, PageInv, Now
<1>2. CASE mode = "fresh"
  <2>1. events' = events \o es /\ page' = IF page.live THEN Deliver(page, es) ELSE page
    BY <1>2 DEF Emit
  <2>2. events' \in Seq(Telling) /\ events \in Seq(Telling) /\ page \in Shows
    <3>1. events \in Seq(Telling) /\ page \in Shows
      BY DEF PageInv
    <3>2. events \o es \in Seq(Telling)
      BY <3>1
    <3> QED
      BY <2>1, <3>1, <3>2
  <2>3. Now \in Shows
    BY <2>2, BlankFits, DeliverGrows DEF Now
  <2>4. Now' = Deliver(Now, es)
    <3>1. PageTold!Fold(OnOpen(BlankPage), events \o es)
            = PageTold!Fold(PageTold!Fold(OnOpen(BlankPage), events), es)
      BY <2>2, PageTold!FoldConcat
    <3> QED
      BY <2>1, <3>1, DeliverIsFold DEF Now
  <2>5. CASE page.live
    <3>1. PICK old \in Shows : Follows(page, Now, old) /\ (page.ours => old = BlankPage)
      BY <2>5 DEF PageInv
    <3>2. page' \in Shows /\ page'.live = page.live /\ page'.ours = page.ours
          /\ Follows(page', Now', old)
      BY <2>1, <2>2, <2>3, <2>4, <2>5, <3>1, DeliverFollows, DeliverGrows
    <3> QED
      BY <2>2, <2>5, <3>1, <3>2 DEF PageInv
  <2>6. CASE ~page.live
    <3>1. page' = page /\ page.dot \in {"", "lost"} /\ (page.ours => Within(page, Now))
      BY <2>1, <2>6 DEF PageInv
    <3>2. Within(Now, Now')
      BY <2>3, <2>4, DeliverGrows
    <3>3. page.ours => Within(page', Now')
      BY <3>1, <3>2 DEF Within
    <3> QED
      BY <2>2, <2>6, <3>1, <3>3 DEF PageInv
  <2> QED
    BY <2>5, <2>6
<1> QED
  BY <1>1, <1>2

(* What the run says, one by one.                                          *)
LEMMA Sayings ==
  /\ \A d \in Text : Depth(d) \in Telling /\ Finished(d) \in Telling
  /\ Interactive \in Telling
  /\ \A s \in Part : Section(s) \in Telling
  /\ \A id \in PageNode \ {"entity"} : Start(id) \in Telling
  /\ \A id, to \in PageNode : Edge(id, to) \in Telling
  /\ \A id \in PageNode \ {"entity"} : \A ok \in BOOLEAN : Node(id, ok) \in Seq(Telling)
<1>1. \A d \in Text : Depth(d) \in Telling /\ Finished(d) \in Telling
  BY DEF Depth, Finished, Telling
<1>2. Interactive \in Telling /\ \A s \in Part : Section(s) \in Telling
  BY DEF Interactive, Section, Telling
<1>3. \A id \in PageNode \ {"entity"} : Start(id) \in Telling
  BY DEF Start, Telling
<1>4. \A id, to \in PageNode : Edge(id, to) \in Telling
  BY DEF Edge, Telling
<1>5. ASSUME NEW id \in PageNode \ {"entity"}, NEW ok \in BOOLEAN
      PROVE  Node(id, ok) \in Seq(Telling)
  <2>1. Complete(id, ok) \in Telling
    BY DEF Complete, Telling
  <2>2. Parent(id) \in PageNode
    BY DEF Parent, PageNode
  <2>3. Edge(Parent(id), id) \in Telling
    BY <2>2, <1>4
  <2> QED
    BY <2>1, <2>3 DEF Node
<1> QED
  BY <1>1, <1>2, <1>3, <1>4, <1>5

(* Short sequences of sayings, and one after another.                      *)
LEMMA SaidInOrder ==
  /\ << >> \in Seq(Telling)
  /\ \A x \in Telling : <<x>> \in Seq(Telling)
  /\ \A x, y \in Telling : <<x, y>> \in Seq(Telling)
  /\ \A x, y, z \in Telling : <<x, y, z>> \in Seq(Telling)
  /\ \A s, t \in Seq(Telling) : s \o t \in Seq(Telling)
  OBVIOUS

(* A page that comes back shows the run, and what it had kept.             *)
LEMMA ConnectKeeps ==
  ASSUME PageInv, Connect
  PROVE  PageInv'
<1>1. events \in Seq(Telling) /\ page \in Shows /\ events' = events /\ page' = Replay(page)
  BY DEF PageInv, Connect
<1>2. page.dot \in {"", "lost"} /\ (page.ours => Within(page, Now))
  BY DEF PageInv, Connect
<1>3. Follows(OnOpen(page), OnOpen(BlankPage), page)
  <2>1. ToSet(<< >>) = {}
    BY DEF ToSet
  <2> QED
    BY <1>1, <1>2, <2>1 DEF Follows, OnOpen, BlankPage, Shows
<1>4. OnOpen(page) \in Shows /\ OnOpen(page).live = TRUE /\ OnOpen(page).ours = page.ours
  BY <1>1, BlankFits DEF OnOpen, Shows
<1>5. page' \in Shows /\ Follows(page', Now, page)
  BY <1>1, <1>3, <1>4, BlankFits, DeliverFollows DEF Replay, Now
<1>6. page'.live = TRUE /\ page'.ours = page.ours
  BY <1>1, <1>4, DeliverGrows DEF Replay
<1>7. page.ours => Follows(page', Now, BlankPage)
  <2>1. ToSet(<< >>) = {}
    BY DEF ToSet
  <2>2. BlankPage.nodes = NoNodes /\ BlankPage.filled = {} /\ BlankPage.edges = << >>
        /\ BlankPage.exportShown = FALSE
    BY DEF BlankPage
  <2> QED
    BY <1>2, <1>5, <2>1, <2>2 DEF Follows, Within
<1>8. Now' = Now
  BY <1>1 DEF Now
<1>9. \E old \in Shows : Follows(page', Now, old) /\ (page'.ours => old = BlankPage)
  <2>1. CASE page.ours
    BY <2>1, <1>6, <1>7, BlankFits
  <2>2. CASE ~page.ours
    BY <2>2, <1>1, <1>5, <1>6
  <2> QED
    BY <2>1, <2>2
<1> QED
  BY <1>1, <1>5, <1>6, <1>8, <1>9 DEF PageInv

(* A page opened, or reloaded, shows the run and nothing else.             *)
LEMMA OpenKeeps ==
  ASSUME PageInv, OpenPage
  PROVE  PageInv'
<1>1. events \in Seq(Telling) /\ events' = events /\ page' = Now
  BY DEF PageInv, OpenPage, Replay, Now
<1>2. OnOpen(BlankPage).live = TRUE /\ OnOpen(BlankPage).ours = TRUE
  BY DEF OnOpen, BlankPage
<1>3. page' \in Shows /\ page'.live = TRUE /\ Now' = Now
  BY <1>1, <1>2, BlankFits, DeliverGrows DEF Now
<1>4. Follows(page', Now, BlankPage)
  <2>1. ToSet(<< >>) = {}
    BY DEF ToSet
  <2> QED
    BY <1>1, <2>1 DEF Follows, BlankPage
<1> QED
  BY <1>1, <1>3, <1>4, BlankFits DEF PageInv

(* A page that loses the connection keeps nothing the run did not say.     *)
LEMMA DropKeeps ==
  ASSUME PageInv, Drop
  PROVE  PageInv'
<1>1. /\ events \in Seq(Telling) /\ page \in Shows /\ events' = events
      /\ page' = [page EXCEPT !.live = FALSE, !.text = "Connection lost", !.dot = "lost"]
      /\ page.ours => Follows(page, Now, BlankPage)
  BY DEF PageInv, Drop, Lost
<1>2. page' \in Shows /\ page'.live = FALSE /\ page'.dot = "lost" /\ page'.nodes = page.nodes
      /\ page'.filled = page.filled /\ page'.edges = page.edges
      /\ page'.exportShown = page.exportShown /\ page'.ours = page.ours
  BY <1>1 DEF Shows, Text
<1>3. page.ours => Within(page', Now)
  <2>1. ToSet(<< >>) = {}
    BY DEF ToSet
  <2>2. BlankPage.nodes = NoNodes /\ BlankPage.filled = {} /\ BlankPage.edges = << >>
        /\ BlankPage.exportShown = FALSE
    BY DEF BlankPage
  <2> QED
    BY <1>1, <1>2, <2>1, <2>2 DEF Follows, Within
<1>4. Now' = Now
  BY <1>1 DEF Now
<1> QED
  BY <1>1, <1>2, <1>3, <1>4 DEF PageInv

(* A page nobody has opened is in order, whatever was said so far.         *)
LEMMA BlankKeeps ==
  ASSUME page' = BlankPage, events' \in Seq(Telling)
  PROVE  PageInv'
<1>1. BlankPage.live = FALSE /\ BlankPage.dot = ""
  BY DEF BlankPage
<1> QED
  BY <1>1, BlankFits DEF PageInv

(* A run finds the page as the last one left it.                           *)
LEMMA FoundKeeps ==
  ASSUME PageInv, Between, phase = "idle", page' = page, events' \in Seq(Telling)
  PROVE  PageInv'
<1>1. CASE page = BlankPage
  BY <1>1, BlankKeeps
<1>2. CASE ~page.ours
  <2>1. page \in Shows /\ page.live = FALSE /\ page.dot \in {"", "lost"}
    BY DEF PageInv, Between, Shows
  <2> QED
    BY <1>2, <2>1 DEF PageInv
<1> QED
  BY <1>1, <1>2 DEF Between

(* When a run ends its page is closed, or left as it is.                   *)
LEMMA ExitKeeps ==
  ASSUME PageInv, Exit
  PROVE  PageInv'
<1>1. events' = << >> /\ page \in Shows
  BY DEF Exit, PageInv
<1>2. events' \in Seq(Telling)
  BY <1>1, SaidInOrder
<1>3. CASE page' = BlankPage
  BY <1>2, <1>3, BlankKeeps
<1>4. CASE page' = [Lost(page) EXCEPT !.ours = FALSE]
  <2>1. page' \in Shows /\ page'.live = FALSE /\ page'.ours = FALSE /\ page'.dot = "lost"
    BY <1>1, <1>4 DEF Lost, Shows, Text
  <2> QED
    BY <1>2, <2>1 DEF PageInv
<1> QED
  BY <1>3, <1>4 DEF Exit

(* Between two runs no page is connected.                                  *)
LEMMA BetweenStep == PageInv /\ Between /\ [CliNext]_cliVars => Between'
<1> SUFFICES ASSUME PageInv, Between, [CliNext]_cliVars PROVE Between'
  OBVIOUS
<1>1. CASE FreshRun \/ ReadPages \/ AskTheWeb \/ Rerender \/ Edit \/ Deep
  BY <1>1 DEF FreshRun, ReadPages, AskTheWeb, Rerender, Edit, Deep, Between
<1>2. CASE Probe \/ Extract
  BY <1>2 DEF Probe, Extract, Between
<1>3. CASE UsualAnswer \/ Depart
  <2>1. ASSUME NEW reply, Confirm(reply) PROVE phase' # "idle"
    BY <2>1 DEF Confirm
  <2> QED
    BY <1>3, <2>1 DEF UsualAnswer, Depart, Between
<1>4. CASE OpenPage \/ Connect \/ StopArrives
  BY <1>4 DEF OpenPage, Connect, StopArrives, Listening, Between
<1>5. CASE Drop \/ PressStop
  BY <1>5 DEF Drop, PressStop, Between
<1>6. CASE Exit
  <2>1. page \in Shows /\ BlankPage.live = FALSE
    BY DEF PageInv, BlankPage
  <2>2. page' = BlankPage \/ page' = [Lost(page) EXCEPT !.ours = FALSE]
    BY <1>6 DEF Exit
  <2>3. CASE page' = BlankPage
    BY <2>1, <2>3 DEF Between
  <2>4. CASE page' = [Lost(page) EXCEPT !.ours = FALSE]
    <3>1. page'.live = FALSE /\ page'.ours = FALSE
      BY <2>1, <2>4 DEF Lost, Shows
    <3> QED
      BY <3>1 DEF Between
  <2> QED
    BY <2>2, <2>3, <2>4
<1>7. CASE UNCHANGED cliVars
  BY <1>7 DEF cliVars, Between
<1> QED
  BY <1>1, <1>2, <1>3, <1>4, <1>5, <1>6, <1>7 DEF CliNext

(* Every step keeps the page what it should be.                            *)
LEMMA PageStep == PageInv /\ Between /\ [CliNext]_cliVars => PageInv'
<1> SUFFICES ASSUME PageInv, Between, [CliNext]_cliVars PROVE PageInv'
  OBVIOUS
<1>1. ASSUME UNCHANGED <<events, page>> PROVE PageInv'
  BY <1>1 DEF PageInv, Now
<1>2. CASE FreshRun
  <2>1. Depth("quick") \in Telling /\ Start("firecrawl") \in Telling
    BY Sayings DEF Text, PageNode
  <2>2. <<Depth("quick"), Start("firecrawl")>> \in Seq(Telling)
    BY <2>1, SaidInOrder
  <2> QED
    BY <1>2, <2>2, FoundKeeps DEF FreshRun, Begin
<1>3. CASE ReadPages
  <2> DEFINE ok == company.pages > 0
             said == <<Section("company_snapshot"), Start("perplexity")>>
  <2>1. Section("company_snapshot") \in Telling /\ Start("perplexity") \in Telling
    BY Sayings DEF Part, PageNode
  <2>2. said \in Seq(Telling)
    BY <2>1, SaidInOrder
  <2>3. "firecrawl" \in PageNode \ {"entity"} /\ ok \in BOOLEAN
    BY DEF PageNode
  <2> HIDE DEF ok, said
  <2>4. Node("firecrawl", ok) \in Seq(Telling)
    BY <2>3, Sayings
  <2>5. Node("firecrawl", ok) \o said \in Seq(Telling)
    BY <2>2, <2>4, SaidInOrder
  <2> QED
    BY <1>3, <2>5, EmitKeeps DEF ReadPages, ok, said
<1>4. CASE AskTheWeb
  <2> DEFINE ok == WebOk(company)
             said == <<Section("web_intelligence"), Start("dns")>>
  <2>1. Section("web_intelligence") \in Telling /\ Start("dns") \in Telling
    BY Sayings DEF Part, PageNode
  <2>2. said \in Seq(Telling)
    BY <2>1, SaidInOrder
  <2>3. "perplexity" \in PageNode \ {"entity"} /\ ok \in BOOLEAN
    BY DEF PageNode, WebOk
  <2> HIDE DEF ok, said
  <2>4. Node("perplexity", ok) \in Seq(Telling)
    BY <2>3, Sayings
  <2>5. Node("perplexity", ok) \o said \in Seq(Telling)
    BY <2>2, <2>4, SaidInOrder
  <2> QED
    BY <1>4, <2>5, EmitKeeps DEF AskTheWeb, ok, said
<1>5. CASE Probe
  <2> DEFINE rest == IF Stopped THEN <<Finished("quick")>>
                     ELSE <<Depth("standard"), Start("vector")>>
             first == <<Section("email_security"), Section("breach")>>
             node == Node("dns", TRUE)
  <2>1. /\ Section("email_security") \in Telling /\ Section("breach") \in Telling
        /\ Finished("quick") \in Telling /\ Depth("standard") \in Telling
        /\ Start("vector") \in Telling
    BY Sayings DEF Part, PageNode, Text
  <2>2. first \in Seq(Telling) /\ rest \in Seq(Telling)
    BY <2>1, SaidInOrder
  <2>3. node \in Seq(Telling)
    BY Sayings DEF PageNode
  <2> HIDE DEF rest, first, node
  <2>4. node \o first \o rest \in Seq(Telling)
    BY <2>2, <2>3, SaidInOrder
  <2> QED
    BY <1>5, <2>4, EmitKeeps DEF Probe, rest, first, node
<1>6. CASE Extract
  <2> DEFINE rest == IF Stopped THEN <<Finished("standard")>> ELSE <<Interactive>>
             first == <<Section("signal_extraction")>>
             ok == VectorOk(company)
             node == Node("vector", ok)
  <2>1. /\ Section("signal_extraction") \in Telling
        /\ Finished("standard") \in Telling /\ Interactive \in Telling
    BY Sayings DEF Part, Text
  <2>2. first \in Seq(Telling) /\ rest \in Seq(Telling)
    BY <2>1, SaidInOrder
  <2>3. "vector" \in PageNode \ {"entity"} /\ ok \in BOOLEAN
    BY DEF PageNode, VectorOk, VectorAttempted
  <2> HIDE DEF ok
  <2>4. node \in Seq(Telling)
    BY <2>3, Sayings
  <2> HIDE DEF rest, first, node
  <2>5. node \o first \o rest \in Seq(Telling)
    BY <2>2, <2>4, SaidInOrder
  <2> QED
    BY <1>6, <2>5, EmitKeeps DEF Extract, rest, first, node, ok
<1>7. ASSUME NEW reply, Confirm(reply) PROVE PageInv'
  <2>1. Depth("deep") \in Telling /\ Start("corpus") \in Telling
    BY Sayings DEF Text, PageNode
  <2>2. <<Depth("deep"), Start("corpus")>> \in Seq(Telling)
    BY <2>1, SaidInOrder
  <2>3. Emit(<<Depth("deep"), Start("corpus")>>) \/ UNCHANGED <<events, page>>
    BY <1>7 DEF Confirm
  <2> QED
    BY <1>1, <2>2, <2>3, EmitKeeps
<1>8. CASE UsualAnswer
  BY <1>7, <1>8 DEF UsualAnswer
<1>9. CASE Depart
  BY <1>7, <1>9 DEF Depart
<1>10. CASE Rerender \/ Edit
  <2>1. << >> \in Seq(Telling)
    OBVIOUS
  <2> QED
    BY <1>10, <2>1, FoundKeeps DEF Rerender, Edit, Begin
<1>11. CASE Deep
  <2> DEFINE last == <<Edge("gap_analysis", "spv"), Section("spv_context"), Finished("")>>
             gaps == <<Section("trust_gaps")>>
             seen(c) == IF c THEN <<Section("evidence_sources")>> ELSE << >>
             told(c) == Node("corpus", c) \o seen(c) \o Node("gap_analysis", TRUE)
                               \o gaps \o Node("aws_programs", TRUE) \o Node("spv", TRUE) \o last
  <2>1. PICK corpus \in BOOLEAN : Emit(told(corpus))
    BY <1>11 DEF Deep
  <2>2. /\ Node("corpus", corpus) \in Seq(Telling) /\ Node("gap_analysis", TRUE) \in Seq(Telling)
        /\ Node("aws_programs", TRUE) \in Seq(Telling) /\ Node("spv", TRUE) \in Seq(Telling)
    BY Sayings DEF PageNode
  <2>3. /\ Edge("gap_analysis", "spv") \in Telling /\ Section("spv_context") \in Telling
        /\ Finished("") \in Telling /\ Section("trust_gaps") \in Telling
        /\ Section("evidence_sources") \in Telling
    BY Sayings DEF PageNode, Part, Text
  <2>4. last \in Seq(Telling) /\ gaps \in Seq(Telling) /\ seen(corpus) \in Seq(Telling)
    BY <2>3, SaidInOrder
  <2> HIDE DEF last, gaps, seen
  <2>5. Node("corpus", corpus) \o seen(corpus) \o Node("gap_analysis", TRUE) \in Seq(Telling)
    BY <2>2, <2>4, SaidInOrder
  <2> DEFINE begun == Node("corpus", corpus) \o seen(corpus) \o Node("gap_analysis", TRUE)
  <2> HIDE DEF begun
  <2>6. begun \o gaps \o Node("aws_programs", TRUE) \in Seq(Telling)
    BY <2>2, <2>4, <2>5, SaidInOrder DEF begun
  <2> DEFINE half == begun \o gaps \o Node("aws_programs", TRUE)
  <2> HIDE DEF half
  <2>7. half \o Node("spv", TRUE) \o last \in Seq(Telling)
    BY <2>2, <2>4, <2>6, SaidInOrder DEF half
  <2>8. told(corpus) \in Seq(Telling)
    BY <2>7 DEF half, begun
  <2> QED
    BY <2>1, <2>8, EmitKeeps
<1>12. CASE Connect
  BY <1>12, ConnectKeeps
<1>13. CASE Drop
  BY <1>13, DropKeeps
<1>14. CASE PressStop
  <2>1. page \in Shows /\ page' = [page EXCEPT !.pressed = TRUE] /\ Now' = Now /\ events' = events
    BY <1>14 DEF PressStop, PageInv, Now
  <2>2. /\ page' \in Shows /\ page'.live = page.live /\ page'.ours = page.ours
        /\ page'.nodes = page.nodes /\ page'.edges = page.edges /\ page'.filled = page.filled
        /\ page'.text = page.text /\ page'.dot = page.dot /\ page'.stopShown = page.stopShown
        /\ page'.exportShown = page.exportShown
    BY <2>1 DEF Shows
  <2>3. \A b, old : Follows(page, b, old) => Follows(page', b, old)
    BY <2>2 DEF Follows
  <2>4. Within(page, Now) => Within(page', Now)
    BY <2>2 DEF Within
  <2> QED
    BY <2>1, <2>2, <2>3, <2>4 DEF PageInv
<1>15. CASE StopArrives
  BY <1>1, <1>15 DEF StopArrives
<1>16. CASE UNCHANGED cliVars
  BY <1>1, <1>16 DEF cliVars
<1>17. CASE OpenPage
  BY <1>17, OpenKeeps
<1>18. CASE Exit
  BY <1>18, ExitKeeps
<1> QED
  BY <1>2, <1>3, <1>4, <1>5, <1>6, <1>8, <1>9, <1>10, <1>11, <1>12, <1>13, <1>14, <1>15,
     <1>16, <1>17, <1>18 DEF CliNext

(* The companion page always shows what it was told, and nothing else but  *)
(* what an earlier run left on it.                                         *)
THEOREM ThePageIsTold == CliSpec => [](PageInv /\ Between)
<1>1. CliInit => PageInv /\ Between
  <2>1. << >> \in Seq(Telling) /\ BlankPage.live = FALSE /\ BlankPage.dot = ""
    BY DEF BlankPage
  <2> QED
    BY <2>1, BlankFits DEF CliInit, PageInv, Between
<1> QED
  BY <1>1, PageStep, BetweenStep, PTL DEF CliSpec

(* A connected page shows all its run said, however often it reconnected,  *)
(* and nothing else when that run opened it.                               *)
THEOREM TheCompanionIsCurrent == CliSpec => []CompanionIsCurrent
<1>1. PageInv => CompanionIsCurrent
  <2> SUFFICES ASSUME PageInv, page.live PROVE CompanionIsCurrent
    BY DEF CompanionIsCurrent
  <2>1. Now \in Shows /\ page \in Shows
    BY BlankFits, DeliverGrows DEF PageInv, Now
  <2>2. PICK old \in Shows : Follows(page, Now, old) /\ (page.ours => old = BlankPage)
    BY DEF PageInv
  <2>3. /\ page.text = Now.text /\ page.stopShown = Now.stopShown /\ page.dot \in {Now.dot, "lost"}
        /\ \A id \in PageNode : Now.nodes[id] \in {NoNodes[id], page.nodes[id]}
        /\ Now.filled \subseteq page.filled /\ ToSet(Now.edges) \subseteq ToSet(page.edges)
        /\ Now.exportShown => page.exportShown
    BY <2>2 DEF Follows
  <2>4. ASSUME page.ours
        PROVE  /\ page.nodes = Now.nodes /\ page.filled = Now.filled
               /\ ToSet(page.edges) = ToSet(Now.edges) /\ page.exportShown = Now.exportShown
    <3>1. ToSet(<< >>) = {} /\ Follows(page, Now, BlankPage)
      BY <2>2, <2>4 DEF ToSet
    <3>2. BlankPage.nodes = NoNodes /\ BlankPage.filled = {} /\ BlankPage.edges = << >>
          /\ BlankPage.exportShown = FALSE
      BY DEF BlankPage
    <3>3. page.nodes = Now.nodes
      <4>1. \A id \in PageNode : page.nodes[id] = Now.nodes[id]
        BY <3>1, <3>2 DEF Follows
      <4>2. page.nodes \in [PageNode -> Status] /\ Now.nodes \in [PageNode -> Status]
        BY <2>1 DEF Shows
      <4> QED
        BY <4>1, <4>2
    <3>4. page.filled = Now.filled /\ ToSet(page.edges) = ToSet(Now.edges)
      BY <3>1, <3>2 DEF Follows
    <3>5. page.exportShown = Now.exportShown
      BY <2>1, <3>1, <3>2 DEF Follows, Shows
    <3> QED
      BY <3>3, <3>4, <3>5
  <2> QED
    BY <2>3, <2>4 DEF CompanionIsCurrent, Now
<1> QED
  BY <1>1, ThePageIsTold, PTL
----------------------------------------------------------------------------
(* A site's reading: what the probes said, and what the engines make of it.*)

SaidBy ==
  [dns |-> {"dmarc_policy", "spf_policy", "mx_provider"}, http |-> HttpField,
   certs |-> {"has_staging_exposure"}, ip |-> {"cloud_provider", "hosting_provider"},
   github |-> {}, jobs |-> {}, hibp |-> {"domain_in_breach"}, ports |-> {},
   ssllabs |-> {"ssl_grade", "has_old_tls"},
   abuseipdb |-> {"abuse_confidence_score", "ip_is_abusive"}]

(* A source that was not heard says nothing, and one that was says its own *)
(* fields, all of them but the flag only the flattening computes.          *)
Heard(s, entry) ==
  /\ entry.kind # "ok" => DOMAIN entry.said = {}
  /\ entry.kind = "ok" => DOMAIN entry.said = SaidBy[s] \ {"ip_is_abusive"}

(* The empty record has no field.                                          *)
LEMMA SaysNothing == DOMAIN << >> = {}
  OBVIOUS

(* Every probe, whatever its lookups answered, is heard or is silent.      *)
LEMMA ReconIsHeard ==
  ASSUME NEW s \in Source, NEW a
  PROVE  Heard(s, Recon(s, a))
<1>1. Heard(s, Failed) /\ Heard(s, Skipped)
  BY DEF Heard, Failed, Skipped
<1>2. \A fields : DOMAIN fields = SaidBy[s] \ {"ip_is_abusive"} => Heard(s, Says(fields))
  BY DEF Heard, Says
<1>3. CASE a.how = "timeout" \/ a.how = "not public" \/ s = "ports"
  BY <1>1, <1>3 DEF Recon
<1> SUFFICES ASSUME ~(a.how = "timeout" \/ a.how = "not public" \/ s = "ports")
             PROVE  Heard(s, Recon(s, a))
  BY <1>3
<1>4. CASE s = "dns"
  <2>1. Recon(s, a) = ReconDns(a)
    BY <1>4 DEF Recon
  <2> QED
    BY <1>2, <1>4, <2>1 DEF ReconDns, SaidBy
<1>5. CASE s = "http"
  <2>1. Recon(s, a) = ReconHttp(a)
    BY <1>5 DEF Recon
  <2> QED
    BY <1>2, <1>5, <2>1 DEF ReconHttp, SaidBy, HttpField
<1>6. CASE s = "certs"
  <2>1. Recon(s, a) = ReconCerts(a)
    BY <1>6 DEF Recon
  <2> QED
    BY <1>1, <1>2, <1>6, <2>1 DEF ReconCerts, SaidBy
<1>7. CASE s = "ip"
  <2>1. Recon(s, a) = ReconIp(a)
    BY <1>7 DEF Recon
  <2> QED
    BY <1>1, <1>2, <1>7, <2>1 DEF ReconIp, SaidBy
<1>8. CASE s = "hibp"
  <2>1. Recon(s, a) = ReconHibp(a)
    BY <1>8 DEF Recon
  <2> QED
    BY <1>1, <1>2, <1>8, <2>1 DEF ReconHibp, SaidBy
<1>9. CASE s = "ssllabs"
  <2>1. Recon(s, a) = ReconSslLabs(a)
    BY <1>9 DEF Recon
  <2> QED
    BY <1>1, <1>2, <1>9, <2>1 DEF ReconSslLabs, SaidBy
<1>10. CASE s = "abuseipdb"
  <2>1. Recon(s, a) = ReconAbuseIpdb(a)
    BY <1>10 DEF Recon
  <2> QED
    BY <1>1, <1>2, <1>10, <2>1 DEF ReconAbuseIpdb, SaidBy
<1>11. CASE s \in {"github", "jobs"}
  <2>1. Recon(s, a) = Says(<< >>)
    BY <1>11 DEF Recon
  <2>2. SaidBy["github"] = {} /\ SaidBy["jobs"] = {}
    BY DEF SaidBy
  <2>3. SaidBy[s] \ {"ip_is_abusive"} = {}
    BY <1>11, <2>2
  <2>4. \A fields : DOMAIN fields = {} => Heard(s, Says(fields))
    BY <1>2, <2>3
  <2> QED
    BY <2>1, <2>4, SaysNothing
<1> QED
  BY <1>4, <1>5, <1>6, <1>7, <1>8, <1>9, <1>10, <1>11 DEF Source

(* No two sources say the same field.                                      *)
LEMMA SourcesApart ==
  ASSUME NEW s \in Source, NEW u \in Source, s # u
  PROVE  SaidBy[s] \cap SaidBy[u] = {}
  BY DEF Source, SaidBy, HttpField

(* What is gathered of a field is what its one source said.                *)
LEMMA GatherOne ==
  ASSUME NEW said, NEW s, NEW f,
         \A u \in DOMAIN said : u # s => f \notin DOMAIN said[u]
  PROVE  /\ f \in DOMAIN Gather(said) <=> s \in DOMAIN said /\ f \in DOMAIN said[s]
         /\ f \in DOMAIN Gather(said) => Gather(said)[f] = said[s][f]
<1>1. f \in DOMAIN Gather(said) <=> \E u \in DOMAIN said : f \in DOMAIN said[u]
  BY DEF Gather
<1>2. f \in DOMAIN Gather(said) => s \in DOMAIN said /\ f \in DOMAIN said[s]
  BY <1>1
<1>3. ASSUME f \in DOMAIN Gather(said) PROVE Gather(said)[f] = said[s][f]
  <2> DEFINE u == CHOOSE u \in DOMAIN said : f \in DOMAIN said[u]
  <2>1. u \in DOMAIN said /\ f \in DOMAIN said[u]
    BY <1>1, <1>3
  <2>2. u = s
    BY <2>1
  <2>3. Gather(said)[f] = said[u][f]
    BY <1>1, <1>3 DEF Gather
  <2> QED
    BY <2>2, <2>3
<1> QED
  BY <1>1, <1>2, <1>3

(* The flattening of a source keeps to its fields.                         *)
LEMMA FlattenSays ==
  ASSUME NEW s \in Source, NEW entry, Heard(s, entry)
  PROVE  DOMAIN Flatten(s, entry) \subseteq SaidBy[s]
<1>1. CASE s = "dns"
  BY <1>1 DEF Flatten, SaidBy, Heard
<1>2. CASE s = "http"
  BY <1>2 DEF Flatten, SaidBy
<1>3. CASE s = "certs"
  BY <1>3 DEF Flatten, SaidBy
<1>4. CASE s = "ip"
  BY <1>4 DEF Flatten, SaidBy
<1>5. CASE s = "hibp"
  BY <1>5 DEF Flatten, SaidBy
<1>6. CASE s = "ssllabs"
  BY <1>6 DEF Flatten, SaidBy
<1>7. CASE s = "abuseipdb"
  BY <1>7 DEF Flatten, SaidBy
<1>8. CASE s \in {"github", "jobs", "ports"}
  BY <1>8 DEF Flatten
<1> QED
  BY <1>1, <1>2, <1>3, <1>4, <1>5, <1>6, <1>7, <1>8 DEF Source

(* The probes of one site, and the payloads stored of them.                *)
Probed ==
  /\ DOMAIN recon = Source /\ \A s \in Source : Heard(s, recon[s])
  /\ \A s \in Source : recon[s] = Recon(s, site.probe[s])
  /\ DOMAIN stored \subseteq Source
  /\ \A s \in DOMAIN stored : stored[s] = recon[s].said

(* What is passed to the analysis of a probe field is what the flattening  *)
(* made of its source: no text and no correction is put over it.           *)
LEMMA AnalysisReads ==
  ASSUME Probed, NEW s \in Source, NEW f \in SaidBy[s]
  PROVE  normalizeContext[f] = IF f \in DOMAIN Flatten(s, recon[s])
                               THEN Flatten(s, recon[s])[f] ELSE Null
<1> DEFINE said == [u \in Source |-> Flatten(u, recon[u])]
           X == extractReconContext(recon)
<1>1. \A u \in DOMAIN said : u # s => f \notin DOMAIN said[u]
  BY FlattenSays, SourcesApart DEF Probed
<1>2. /\ f \in DOMAIN X <=> f \in DOMAIN Flatten(s, recon[s])
      /\ f \in DOMAIN X => X[f] = Flatten(s, recon[s])[f]
  <2>1. s \in DOMAIN said /\ said[s] = Flatten(s, recon[s]) /\ X = Gather(said)
    BY DEF extractReconContext
  <2> HIDE DEF said, X
  <2> QED
    BY <1>1, <2>1, GatherOne
<1>3. f \in Field /\ f \notin PassthroughSignals /\ f # "compliance_status"
  BY DEF SaidBy, Source, Field, SignalField, ProbeField, PassthroughSignals, HttpField
<1>4. f \notin DOMAIN CorrectableFields(site, X)
  <2>1. f \notin {"infrastructure", "customer_type", "data_sensitivity"}
    BY DEF SaidBy, Source, HttpField
  <2> HIDE DEF X
  <2> QED
    BY <2>1 DEF CorrectableFields, ##
<1> DEFINE C == CorrectableFields(site, X)
<1>5. normalizeContext = X ## C ## [compliance_status |-> "unknown"]
                           ## [q \in PassthroughSignals |-> site.text[q]] ## Nothing
  BY DEF normalizeContext
<1> HIDE DEF X, C, said
<1> QED
  BY <1>2, <1>3, <1>4, <1>5 DEF ##, Nothing, C

(* What the kernel reads of it, if no founder overrode it, is the payload  *)
(* stored of that source.                                                  *)
LEMMA KernelReads ==
  ASSUME Probed, NEW s \in Source, NEW f \in SaidBy[s], f \notin DOMAIN current
  PROVE  buildContext[f] = IF s \in DOMAIN stored /\ f \in DOMAIN recon[s].said
                           THEN recon[s].said[f] ELSE Null
<1>1. \A u \in DOMAIN stored : u # s => f \notin DOMAIN stored[u]
  BY SourcesApart DEF Probed, Heard
<1>2. /\ f \in DOMAIN Gather(stored) <=> s \in DOMAIN stored /\ f \in DOMAIN stored[s]
      /\ f \in DOMAIN Gather(stored) => Gather(stored)[f] = stored[s][f]
  BY <1>1, GatherOne
<1>3. f \in Field
  BY DEF SaidBy, Source, Field, SignalField, ProbeField, HttpField
<1>4. s \in DOMAIN stored => stored[s] = recon[s].said
  BY DEF Probed
<1> DEFINE G == Gather(stored)
<1>5. buildContext = G ## current ## Nothing
  BY DEF buildContext
<1> HIDE DEF G
<1> QED
  BY <1>2, <1>3, <1>4, <1>5 DEF ##, Nothing, G

(* Of a source that was heard the analysis has the word; of a silent one   *)
(* nothing, or the No that the flattening has for two of them.             *)
LEMMA WhatAnalysisHears ==
  ASSUME Probed, NEW s \in Source, NEW f \in SaidBy[s] \ {"ip_is_abusive"}
  PROVE  /\ recon[s].kind = "ok" => normalizeContext[f] = recon[s].said[f]
         /\ recon[s].kind # "ok" => normalizeContext[f] \in {Null, No}
         /\ recon[s].kind # "ok" /\ s \notin {"certs", "hibp"} => normalizeContext[f] = Null
<1> DEFINE e == recon[s]
<1>1. Heard(s, e)
  BY DEF Probed
<1>2. normalizeContext[f] = IF f \in DOMAIN Flatten(s, e) THEN Flatten(s, e)[f] ELSE Null
  BY AnalysisReads
<1>3. /\ e.kind = "ok" => f \in DOMAIN e.said
      /\ e.kind # "ok" => f \notin DOMAIN e.said
  BY <1>1 DEF Heard
<1> HIDE DEF e
<1>4. CASE s = "dns"
  BY <1>2, <1>3, <1>4 DEF Flatten, e
<1>5. CASE s = "http"
  <2>1. f \in HttpField
    BY <1>5 DEF SaidBy
  <2> QED
    BY <1>2, <1>3, <1>5, <2>1 DEF Flatten, Said, e
<1>6. CASE s = "certs"
  <2>1. f = "has_staging_exposure"
    BY <1>6 DEF SaidBy
  <2> QED
    BY <1>2, <1>3, <1>6, <2>1 DEF Flatten, Said, e, No
<1>7. CASE s = "ip"
  <2>1. f \in {"cloud_provider", "hosting_provider"}
    BY <1>7 DEF SaidBy
  <2> QED
    BY <1>2, <1>3, <1>7, <2>1 DEF Flatten, Said, e
<1>8. CASE s = "hibp"
  <2>1. f = "domain_in_breach"
    BY <1>8 DEF SaidBy
  <2>2. CASE e.kind = "skipped"
    BY <1>2, <1>3, <1>8, <2>2 DEF Flatten, e
  <2>3. CASE e.kind # "skipped"
    BY <1>2, <1>3, <1>8, <2>1, <2>3 DEF Flatten, Said, e, No
  <2> QED
    BY <2>2, <2>3
<1>9. CASE s = "ssllabs"
  <2>1. f \in {"ssl_grade", "has_old_tls"}
    BY <1>9 DEF SaidBy
  <2>2. CASE e.kind = "skipped"
    BY <1>2, <1>3, <1>9, <2>2 DEF Flatten, e
  <2>3. CASE e.kind # "skipped"
    BY <1>2, <1>3, <1>9, <2>1, <2>3 DEF Flatten, Said, e
  <2> QED
    BY <2>2, <2>3
<1>10. CASE s = "abuseipdb"
  <2>1. f = "abuse_confidence_score"
    BY <1>10 DEF SaidBy
  <2>2. CASE e.kind = "ok"
    BY <1>2, <1>3, <1>10, <2>1, <2>2 DEF Flatten, Said, e
  <2>3. CASE e.kind # "ok"
    BY <1>2, <1>3, <1>10, <2>3 DEF Flatten, e
  <2> QED
    BY <2>2, <2>3
<1>11. SaidBy["github"] = {} /\ SaidBy["jobs"] = {} /\ SaidBy["ports"] = {}
  BY DEF SaidBy
<1> QED
  BY <1>4, <1>5, <1>6, <1>7, <1>8, <1>9, <1>10, <1>11 DEF Source

(* The flag is computed, from a score that was heard.                      *)
LEMMA AbuseIsHeard ==
  ASSUME Probed, recon["abuseipdb"].kind # "ok"
  PROVE  normalizeContext["ip_is_abusive"] = Null
<1>1. "abuseipdb" \in Source /\ "ip_is_abusive" \in SaidBy["abuseipdb"]
  BY DEF Source, SaidBy
<1>2. "ip_is_abusive" \notin DOMAIN Flatten("abuseipdb", recon["abuseipdb"])
  BY DEF Flatten
<1> QED
  BY <1>1, <1>2, AnalysisReads

(* The kernel has the word, or nothing.                                    *)
LEMMA WhatTheKernelHears ==
  ASSUME Probed, NEW s \in Source, NEW f \in SaidBy[s], f \notin DOMAIN current
  PROVE  /\ s \in DOMAIN stored /\ recon[s].kind = "ok" /\ f # "ip_is_abusive" =>
              buildContext[f] = recon[s].said[f]
         /\ s \notin DOMAIN stored \/ recon[s].kind # "ok" \/ f = "ip_is_abusive" =>
              buildContext[f] = Null
<1>1. Heard(s, recon[s])
  BY DEF Probed
<1> QED
  BY <1>1, KernelReads DEF Heard

OfSection(section) == {g \in DOMAIN section : section[g]}

(* The gaps triggered are those of the sections.                           *)
LEMMA TriggeredBySection ==
  ASSUME NEW c
  PROVE  Triggered(c) =
           OfSection(AssuranceGaps(c)) \cup OfSection(AccessGaps(c)) \cup OfSection(MailGaps(c))
           \cup OfSection(SectorGaps(c)) \cup OfSection(PerimeterGaps(c))
           \cup OfSection(PracticeGaps(c)) \cup OfSection(CommercialGaps(c))
<1> DEFINE T == <<AssuranceGaps(c), AccessGaps(c), MailGaps(c), SectorGaps(c),
                  PerimeterGaps(c), PracticeGaps(c), CommercialGaps(c)>>
<1>1. Triggered(c) = UNION {OfSection(T[i]) : i \in 1..7}
  BY DEF Triggered, Sections, OfSection
<1>2. \A i \in 1..7 : i \in {1, 2, 3, 4, 5, 6, 7}
  OBVIOUS
<1> QED
  BY <1>1, <1>2

(* A probe gap is triggered by its own condition and no other.             *)
LEMMA ProbeTriggers ==
  ASSUME NEW c
  PROVE  /\ "dmarc" \in Triggered(c) <=> c.dmarc_policy \in {"missing", "none"}
         /\ "spf" \in Triggered(c) <=> c.spf_policy \in {"missing", "open"}
         /\ "security_headers" \in Triggered(c) <=> c.has_hsts = No \/ c.has_csp = No
         /\ "staging_exposure" \in Triggered(c) <=> c.has_staging_exposure = Yes
         /\ "domain_breach" \in Triggered(c) <=> c.domain_in_breach = Yes
         /\ "tls_configuration" \in Triggered(c) <=>
              \/ c.tls_is_current = No \/ c.has_old_tls = Yes
              \/ GradeBelowEight(c.ssl_grade)
              \/ c.cert_expiry_days # Null /\ c.cert_expiry_days < 14
         /\ "ip_reputation" \in Triggered(c) <=> c.ip_is_abusive = Yes
<1>1. \A g \in {"dmarc", "spf", "security_headers", "staging_exposure", "domain_breach",
                "tls_configuration", "ip_reputation"} :
        g \notin DOMAIN AssuranceGaps(c) \cup DOMAIN AccessGaps(c) \cup DOMAIN SectorGaps(c)
                 \cup DOMAIN PracticeGaps(c)
  BY DEF AssuranceGaps, AccessGaps, SectorGaps, PracticeGaps
<1>2. \A g \in {"dmarc", "spf"} :
        /\ g \notin DOMAIN PerimeterGaps(c) \cup DOMAIN CommercialGaps(c)
        /\ g \in Triggered(c) <=> MailGaps(c)[g]
  <2>1. \A g \in {"dmarc", "spf"} :
          g \in DOMAIN MailGaps(c) /\ g \notin DOMAIN PerimeterGaps(c) \cup DOMAIN CommercialGaps(c)
    BY DEF MailGaps, PerimeterGaps, CommercialGaps
  <2> QED
    BY Zenon, <1>1, <2>1, TriggeredBySection DEF OfSection
<1>3. "ip_reputation" \in Triggered(c) <=> CommercialGaps(c)["ip_reputation"]
  <2>1. /\ "ip_reputation" \in DOMAIN CommercialGaps(c)
        /\ "ip_reputation" \notin DOMAIN MailGaps(c) \cup DOMAIN PerimeterGaps(c)
    BY DEF CommercialGaps, MailGaps, PerimeterGaps
  <2> QED
    BY Zenon, <1>1, <2>1, TriggeredBySection DEF OfSection
<1>4. \A g \in {"security_headers", "staging_exposure", "domain_breach", "tls_configuration"} :
        g \in Triggered(c) <=> PerimeterGaps(c)[g]
  <2>1. \A g \in {"security_headers", "staging_exposure", "domain_breach", "tls_configuration"} :
          g \in DOMAIN PerimeterGaps(c) /\ g \notin DOMAIN MailGaps(c) \cup DOMAIN CommercialGaps(c)
    BY DEF PerimeterGaps, MailGaps, CommercialGaps
  <2> QED
    BY Zenon, <1>1, <2>1, TriggeredBySection DEF OfSection
<1>5. /\ MailGaps(c)["dmarc"] <=> c.dmarc_policy \in {"missing", "none"}
      /\ MailGaps(c)["spf"] <=> c.spf_policy \in {"missing", "open"}
  BY Zenon DEF MailGaps
<1>6. CommercialGaps(c)["ip_reputation"] <=> c.ip_is_abusive = Yes
  BY Zenon DEF CommercialGaps
<1>7. /\ PerimeterGaps(c)["security_headers"] <=> c.has_hsts = No \/ c.has_csp = No
      /\ PerimeterGaps(c)["staging_exposure"] <=> c.has_staging_exposure = Yes
      /\ PerimeterGaps(c)["domain_breach"] <=> c.domain_in_breach = Yes
      /\ PerimeterGaps(c)["tls_configuration"] <=>
              \/ c.tls_is_current = No \/ c.has_old_tls = Yes
              \/ GradeBelowEight(c.ssl_grade)
              \/ c.cert_expiry_days # Null /\ c.cert_expiry_days < 14
  BY Zenon DEF PerimeterGaps
<1> QED
  BY <1>2, <1>3, <1>4, <1>5, <1>6, <1>7

(* The probes are those of the site that was read, heard once and for all; *)
(* the rows are copied from the session record, never before it is there;  *)
(* and the analysis is of that record.                                     *)
ReadInv ==
  /\ toStore \in Seq(Source)
  /\ toStore # << >> => site # Null
  /\ site # Null =>
       /\ DOMAIN recon = Source /\ \A s \in Source : Heard(s, recon[s])
       /\ \A s \in Source : recon[s] = Recon(s, site.probe[s])
  /\ DOMAIN stored \subseteq Source
  /\ \A s \in DOMAIN stored : site # Null /\ stored[s] = recon[s].said
  /\ analysis # Null => site # Null /\ analysis.triggered = Triggered(normalizeContext)

(* Once a site is read its probes are there.                               *)
LEMMA SiteIsProbed == ASSUME ReadInv, site # Null PROVE Probed
  BY DEF ReadInv, Probed

(* Every step keeps the reading of one site.                               *)
LEMMA ReadStep ==
  ASSUME ReadInv, [ReadingNext]_readingVars PROVE ReadInv'
<1>1. CASE ReadSite
  <2>1. PICK of \in Sites : site' = of /\ recon' = runReconPipeline(of)
    BY <1>1 DEF ReadSite
  <2>2. site' # Null
    BY <2>1, SiteAssumption
  <2>3. DOMAIN recon' = Source /\ \A s \in Source : recon'[s] = Recon(s, of.probe[s])
    BY <2>1 DEF runReconPipeline
  <2>4. /\ \A s \in Source : Heard(s, recon'[s])
        /\ \A s \in Source : recon'[s] = Recon(s, site'.probe[s])
    BY <2>1, <2>3, ReconIsHeard
  <2>5. stored' = stored /\ DOMAIN stored = {} /\ analysis' = analysis /\ analysis = Null
    BY <1>1 DEF ReadSite, ReadInv
  <2>6. toStore' \in Seq(Source)
    <3>1. RECON_SOURCES \in Seq(Source)
      BY DEF RECON_SOURCES, Source
    <3> QED
      BY <1>1, <3>1 DEF ReadSite
  <2> QED
    BY <2>2, <2>3, <2>4, <2>5, <2>6 DEF ReadInv
<1>2. CASE Persist
  <2> DEFINE s == Head(toStore)
  <2>1. toStore \in Seq(Source) /\ toStore # << >> /\ site # Null
    BY <1>2 DEF Persist, ReadInv
  <2>2. s \in Source /\ Tail(toStore) \in Seq(Source)
    BY <2>1
  <2>3. /\ toStore' = Tail(toStore) /\ site' = site /\ recon' = recon /\ analysis' = analysis
        /\ stored' = stored \/ stored' = [x \in {s} |-> recon[s].said] ## stored
    BY <1>2 DEF Persist
  <2>4. normalizeContext' = normalizeContext
    BY <2>3 DEF normalizeContext
  <2> HIDE DEF s
  <2>5. /\ DOMAIN stored' \subseteq Source
        /\ \A u \in DOMAIN stored' : stored'[u] = recon[u].said
    <3>1. CASE stored' = stored
      BY <3>1 DEF ReadInv
    <3>2. CASE stored' = [x \in {s} |-> recon[s].said] ## stored
      <4>1. DOMAIN stored' = {s} \cup DOMAIN stored
        BY <3>2 DEF ##
      <4>2. \A u \in DOMAIN stored' : stored'[u] = IF u = s THEN recon[s].said ELSE stored[u]
        BY <3>2 DEF ##
      <4> QED
        BY <2>2, <4>1, <4>2 DEF ReadInv
    <3> QED
      BY <2>3, <3>1, <3>2
  <2> QED
    BY <2>1, <2>2, <2>3, <2>4, <2>5 DEF ReadInv
<1>3. CASE PersistFails
  <2>1. /\ toStore' = << >> /\ site' = site /\ recon' = recon /\ analysis' = analysis
        /\ stored' = stored
    BY <1>3 DEF PersistFails
  <2>2. normalizeContext' = normalizeContext
    BY <2>1 DEF normalizeContext
  <2> QED
    BY <2>1, <2>2 DEF ReadInv
<1>4. CASE Analyze
  <2>1. /\ site # Null /\ site' = site /\ recon' = recon /\ stored' = stored /\ toStore' = toStore
        /\ \E slugs : analysis' = runGapAnalysis(normalizeContext, slugs)
    BY <1>4 DEF Analyze
  <2>2. normalizeContext' = normalizeContext
    BY <2>1 DEF normalizeContext
  <2> DEFINE c == normalizeContext
  <2>3. analysis'.triggered = Triggered(c)
    <3>1. \A d, slugs : runGapAnalysis(d, slugs).triggered = Triggered(d)
      BY DEF runGapAnalysis
    <3> HIDE DEF c
    <3> QED
      BY <2>1, <3>1 DEF c
  <2> QED
    BY <2>1, <2>2, <2>3 DEF ReadInv
<1>5. CASE OverrideField \/ AttestAndPublish \/ UNCHANGED readingVars
  <2>1. UNCHANGED <<site, recon, analysis, stored, toStore>>
    BY <1>5 DEF OverrideField, AttestAndPublish, readingVars
  <2>2. normalizeContext' = normalizeContext
    BY <2>1 DEF normalizeContext
  <2> QED
    BY <2>1, <2>2 DEF ReadInv
<1> QED
  BY <1>1, <1>2, <1>3, <1>4, <1>5 DEF ReadingNext

(* The two engines read one set of probes, for any site, overrides, corpus *)
(* answers and moment a write of the rows fails.                           *)
THEOREM OneReading == ReadingSpec => []ReadInv
<1>1. ReadingInit => ReadInv
  BY SaysNothing DEF ReadingInit, ReadInv
<1> QED
  BY <1>1, ReadStep, PTL DEF ReadingSpec

(* The gaps only a probe can see, by name.                                 *)
LEMMA GapsOfProbes ==
  ProbeGap = {"dmarc", "spf", "security_headers", "staging_exposure", "domain_breach",
              "tls_configuration", "ip_reputation"}
  BY DEF ProbeGap, AlwaysObserved, EligibilityGap

(* What was returned without an answer: 'unknown', or nothing of the TLS.  *)
LEMMA UnansweredSays ==
  ASSUME Probed, NEW g \in ProbeGap, NEW s \in SeenBy(g), recon[s].kind = "ok",
         Unspoken(g, s, site.probe[s])
  PROVE  \/ g = "dmarc" /\ recon[s].said["dmarc_policy"] = "unknown"
         \/ g = "spf" /\ recon[s].said["spf_policy"] = "unknown"
         \/ /\ g = "tls_configuration" /\ s = "http"
            /\ recon[s].said["tls_is_current"] = Null /\ recon[s].said["cert_expiry_days"] = Null
<1> DEFINE a == site.probe[s]
<1>1. s \in Source /\ recon[s] = Recon(s, a)
  <2>1. SeenBy(g) \subseteq Source
    BY GapsOfProbes DEF SeenBy, Source
  <2> QED
    BY <2>1 DEF Probed
<1>2. Failed.kind # "ok" /\ Skipped.kind # "ok"
  BY DEF Failed, Skipped
<1>3. g \in {"dmarc", "spf"} => s = "dns"
  BY DEF SeenBy
<1>4. s = "dns" => recon[s] = ReconDns(a)
  BY <1>1, <1>2 DEF Recon
<1>5. s = "http" => recon[s] = ReconHttp(a)
  BY <1>1, <1>2 DEF Recon
<1> HIDE DEF a
<1>6. CASE g = "dmarc"
  BY <1>3, <1>4, <1>6 DEF Unspoken, ReconDns, Says, a
<1>7. CASE g = "spf"
  BY <1>3, <1>4, <1>7 DEF Unspoken, ReconDns, Says, a
<1>8. CASE g = "tls_configuration"
  <2>1. s = "http" /\ ~Reached(a.hops)
    BY <1>8 DEF Unspoken, a
  <2>2. FetchWithCert(a.hops) = NoPage
    BY <2>1 DEF FetchWithCert
  <2>3. NoPage.protocol = Null /\ NoPage.days = Null /\ IsTlsCurrent(Null) = Null
    BY DEF NoPage, IsTlsCurrent
  <2>4. /\ ReconHttp(a).said["tls_is_current"] = IsTlsCurrent(NoPage.protocol)
        /\ ReconHttp(a).said["cert_expiry_days"] = NoPage.days
    BY <2>2 DEF ReconHttp, Says
  <2> QED
    BY <1>5, <1>8, <2>1, <2>3, <2>4
<1> QED
  BY <1>6, <1>7, <1>8 DEF Unspoken

(* The analysis: a gap of a silent source has not been triggered.          *)
LEMMA AnalysisIsFair ==
  ASSUME Probed, NEW g \in ProbeGap, Answered(g) = {}
  PROVE  g \notin Triggered(normalizeContext)
<1> DEFINE c == normalizeContext
<1>1. \A s \in Source : \A f \in SaidBy[s] \ {"ip_is_abusive"} :
        /\ recon[s].kind = "ok" => c[f] = recon[s].said[f]
        /\ recon[s].kind # "ok" =>
             c[f] \in {Null, No} /\ (s \notin {"certs", "hibp"} => c[f] = Null)
  BY WhatAnalysisHears
<1>0. \A s \in SeenBy(g) :
        \/ recon[s].kind # "ok"
        \/ g = "dmarc" /\ recon[s].said["dmarc_policy"] = "unknown"
        \/ g = "spf" /\ recon[s].said["spf_policy"] = "unknown"
        \/ /\ g = "tls_configuration" /\ s = "http"
           /\ recon[s].said["tls_is_current"] = Null /\ recon[s].said["cert_expiry_days"] = Null
  BY UnansweredSays DEF Answered
<1> HIDE DEF c
<1>2. {"dns", "http", "certs", "hibp", "ssllabs", "abuseipdb"} \subseteq Source
  BY DEF Source
<1>3. CASE g \in {"dmarc", "spf"}
  <2>1. "dns" \in SeenBy(g) /\ {"dmarc_policy", "spf_policy"} \subseteq SaidBy["dns"] \ {"ip_is_abusive"}
    BY <1>3 DEF SeenBy, SaidBy
  <2>2. /\ g = "dmarc" => c.dmarc_policy \in {Null, "unknown"}
        /\ g = "spf" => c.spf_policy \in {Null, "unknown"}
    BY <1>0, <1>1, <1>2, <1>3, <2>1
  <2> QED
    BY <1>3, <2>2, ProbeTriggers, NullAssumption DEF c
<1>4. CASE g = "security_headers"
  <2>1. /\ recon["http"].kind # "ok" /\ {"has_hsts", "has_csp"} \subseteq SaidBy["http"]
        /\ "ip_is_abusive" \notin SaidBy["http"]
    BY <1>0, <1>4 DEF SeenBy, SaidBy, HttpField
  <2>2. c.has_hsts = Null /\ c.has_csp = Null
    BY <1>1, <1>2, <2>1
  <2> QED
    BY <1>4, <2>2, ProbeTriggers, NullAssumption DEF c
<1>5. CASE g = "staging_exposure"
  <2>1. /\ recon["certs"].kind # "ok" /\ "has_staging_exposure" \in SaidBy["certs"]
        /\ "ip_is_abusive" \notin SaidBy["certs"]
    BY <1>0, <1>5 DEF SeenBy, SaidBy
  <2>2. c.has_staging_exposure \in {Null, No}
    BY <1>1, <1>2, <2>1
  <2> QED
    BY <1>5, <2>2, ProbeTriggers, NullAssumption DEF c, Yes, No
<1>6. CASE g = "domain_breach"
  <2>1. /\ recon["hibp"].kind # "ok" /\ "domain_in_breach" \in SaidBy["hibp"]
        /\ "ip_is_abusive" \notin SaidBy["hibp"]
    BY <1>0, <1>6 DEF SeenBy, SaidBy
  <2>2. c.domain_in_breach \in {Null, No}
    BY <1>1, <1>2, <2>1
  <2> QED
    BY <1>6, <2>2, ProbeTriggers, NullAssumption DEF c, Yes, No
<1>7. CASE g = "tls_configuration"
  <2>1. /\ {"tls_is_current", "cert_expiry_days"} \subseteq SaidBy["http"] \ {"ip_is_abusive"}
        /\ {"ssl_grade", "has_old_tls"} \subseteq SaidBy["ssllabs"] \ {"ip_is_abusive"}
        /\ SeenBy(g) = {"http", "ssllabs"}
    BY <1>7 DEF SeenBy, SaidBy, HttpField
  <2>2. c.ssl_grade = Null /\ c.has_old_tls = Null
    BY <1>0, <1>1, <1>2, <1>7, <2>1
  <2>4. c.tls_is_current = Null /\ c.cert_expiry_days = Null
    BY <1>0, <1>1, <1>2, <1>7, <2>1
  <2>3. ~GradeBelowEight(Null)
    BY NullAssumption DEF GradeBelowEight
  <2> QED
    BY <1>7, <2>2, <2>3, <2>4, ProbeTriggers, NullAssumption DEF c
<1>8. CASE g = "ip_reputation"
  <2>1. recon["abuseipdb"].kind # "ok"
    BY <1>0, <1>8 DEF SeenBy
  <2>2. c.ip_is_abusive = Null
    BY <2>1, AbuseIsHeard DEF c
  <2> QED
    BY <1>8, <2>2, ProbeTriggers, NullAssumption DEF c
<1> QED
  BY <1>3, <1>4, <1>5, <1>6, <1>7, <1>8, GapsOfProbes

(* The kernel: nor has one whose source is not stored.                     *)
LEMMA KernelIsFair ==
  ASSUME Probed, NEW g \in ProbeGap, TriggerFields[g] \cap DOMAIN current = {},
         Answered(g) \cap DOMAIN stored = {}
  PROVE  g \notin triggered
<1> DEFINE c == buildContext
           fs == TriggerFields[g]
<1>1. \A s \in Source : \A f \in SaidBy[s] \cap fs :
        /\ s \in DOMAIN stored /\ recon[s].kind = "ok" /\ f # "ip_is_abusive" =>
             c[f] = recon[s].said[f]
        /\ s \notin DOMAIN stored \/ recon[s].kind # "ok" => c[f] = Null
  BY WhatTheKernelHears
<1>0. \A s \in SeenBy(g) :
        \/ s \notin DOMAIN stored \/ recon[s].kind # "ok"
        \/ g = "dmarc" /\ recon[s].said["dmarc_policy"] = "unknown"
        \/ g = "spf" /\ recon[s].said["spf_policy"] = "unknown"
        \/ /\ g = "tls_configuration" /\ s = "http"
           /\ recon[s].said["tls_is_current"] = Null /\ recon[s].said["cert_expiry_days"] = Null
  BY UnansweredSays DEF Answered
<1>2. {"dns", "http", "certs", "hibp", "ssllabs", "abuseipdb"} \subseteq Source
  BY DEF Source
<1> HIDE DEF c
<1>3. CASE g \in {"dmarc", "spf"}
  <2>1. /\ "dns" \in SeenBy(g)
        /\ {"dmarc_policy", "spf_policy"} \subseteq SaidBy["dns"]
        /\ {"dmarc_policy", "spf_policy"} \subseteq fs
    BY <1>3 DEF SeenBy, SaidBy, TriggerFields
  <2> HIDE DEF fs
  <2>2. /\ g = "dmarc" => c.dmarc_policy \in {Null, "unknown"}
        /\ g = "spf" => c.spf_policy \in {Null, "unknown"}
    BY <1>0, <1>1, <1>2, <1>3, <2>1
  <2> QED
    BY <1>3, <2>2, ProbeTriggers, NullAssumption DEF c, triggered
<1>4. CASE g = "security_headers"
  <2>1. /\ "http" \notin DOMAIN stored \/ recon["http"].kind # "ok"
        /\ {"has_hsts", "has_csp"} \subseteq SaidBy["http"]
        /\ {"has_hsts", "has_csp"} \subseteq fs
    BY <1>0, <1>4 DEF SeenBy, SaidBy, TriggerFields, HttpField
  <2> HIDE DEF fs
  <2>2. c.has_hsts = Null /\ c.has_csp = Null
    BY <1>1, <1>2, <2>1
  <2> QED
    BY <1>4, <2>2, ProbeTriggers, NullAssumption DEF c, triggered
<1>5. CASE g = "staging_exposure"
  <2>1. /\ "certs" \notin DOMAIN stored \/ recon["certs"].kind # "ok"
        /\ "has_staging_exposure" \in SaidBy["certs"] /\ "has_staging_exposure" \in fs
    BY <1>0, <1>5 DEF SeenBy, SaidBy, TriggerFields
  <2> HIDE DEF fs
  <2>2. c.has_staging_exposure = Null
    BY <1>1, <1>2, <2>1
  <2> QED
    BY <1>5, <2>2, ProbeTriggers, NullAssumption DEF c, triggered
<1>6. CASE g = "domain_breach"
  <2>1. /\ "hibp" \notin DOMAIN stored \/ recon["hibp"].kind # "ok"
        /\ "domain_in_breach" \in SaidBy["hibp"] /\ "domain_in_breach" \in fs
    BY <1>0, <1>6 DEF SeenBy, SaidBy, TriggerFields
  <2> HIDE DEF fs
  <2>2. c.domain_in_breach = Null
    BY <1>1, <1>2, <2>1
  <2> QED
    BY <1>6, <2>2, ProbeTriggers, NullAssumption DEF c, triggered
<1>7. CASE g = "tls_configuration"
  <2>1. /\ SeenBy(g) = {"http", "ssllabs"}
        /\ {"tls_is_current", "cert_expiry_days"} \subseteq SaidBy["http"]
        /\ {"ssl_grade", "has_old_tls"} \subseteq SaidBy["ssllabs"]
        /\ {"tls_is_current", "cert_expiry_days", "ssl_grade", "has_old_tls"} \subseteq fs
    BY <1>7 DEF SeenBy, SaidBy, TriggerFields, HttpField
  <2> HIDE DEF fs
  <2>2. c.ssl_grade = Null /\ c.has_old_tls = Null
    BY <1>0, <1>1, <1>2, <1>7, <2>1
  <2>4. c.tls_is_current = Null /\ c.cert_expiry_days = Null
    BY <1>0, <1>1, <1>2, <1>7, <2>1
  <2>3. ~GradeBelowEight(Null)
    BY NullAssumption DEF GradeBelowEight
  <2> QED
    BY <1>7, <2>2, <2>3, <2>4, ProbeTriggers, NullAssumption DEF c, triggered
<1>8. CASE g = "ip_reputation"
  <2>1. "ip_is_abusive" \in SaidBy["abuseipdb"] /\ "ip_is_abusive" \in fs
    BY <1>8 DEF SaidBy, TriggerFields
  <2> HIDE DEF fs
  <2>2. c.ip_is_abusive = Null
    BY <1>2, <2>1, WhatTheKernelHears DEF c, fs
  <2> QED
    BY <1>8, <2>2, ProbeTriggers, NullAssumption DEF c, triggered
<1> QED
  BY <1>3, <1>4, <1>5, <1>6, <1>7, <1>8, GapsOfProbes

(* Neither engine makes a gap of silence.                                  *)
LEMMA FairReading ==
  ASSUME ReadInv PROVE NoVerdictFromSilence
<1>1. ASSUME analysis # Null, NEW g \in ProbeGap \cap analysis.triggered
      PROVE  Answered(g) # {}
  BY <1>1, SiteIsProbed, AnalysisIsFair DEF ReadInv
<1>2. ASSUME site # Null, NEW g \in ProbeGap \cap triggered,
             TriggerFields[g] \cap DOMAIN current = {}
      PROVE  Answered(g) \cap DOMAIN stored # {}
  BY <1>2, SiteIsProbed, KernelIsFair
<1> QED
  BY <1>1, <1>2 DEF NoVerdictFromSilence

(* A gap is never put to a company because a probe of it failed, was       *)
(* skipped, ran out of time or was never answered: not by the analysis, and*)
(* not by the kernel over the rows. Of security_headers the last is not    *)
(* said: a host that never answers is read as one without headers.         *)
THEOREM NothingFromSilence == ReadingSpec => []NoVerdictFromSilence
  BY OneReading, FairReading, PTL

(* With every payload that was worth a row stored, the two engines read    *)
(* the same of a field, or both read nothing there.                        *)
LEMMA SameSaid ==
  ASSUME Probed, DOMAIN stored = {s \in ToSet(RECON_SOURCES) : Worth(s)},
         NEW s \in Source, NEW f \in SaidBy[s] \ {"ip_is_abusive"}, f \notin DOMAIN current
  PROVE  \/ normalizeContext[f] = buildContext[f]
         \/ /\ s \in {"certs", "hibp"}
            /\ normalizeContext[f] = No /\ buildContext[f] = Null
<1>1. CASE recon[s].kind = "ok"
  <2>1. s \in ToSet(RECON_SOURCES)
    <3>1. /\ DOMAIN RECON_SOURCES = 1..10
          /\ \A u \in Source : \E i \in 1..10 : RECON_SOURCES[i] = u
      BY DEF RECON_SOURCES, Source
    <3> QED
      BY <3>1 DEF ToSet
  <2>2. s \in DOMAIN stored
    BY <1>1, <2>1 DEF Worth
  <2> QED
    BY <1>1, <2>2, WhatAnalysisHears, WhatTheKernelHears
<1>2. CASE recon[s].kind # "ok"
  BY <1>2, WhatAnalysisHears, WhatTheKernelHears
<1> QED
  BY <1>1, <1>2

(* The conditions of a probe gap cannot tell the two contexts apart.       *)
LEMMA OneStory ==
  ASSUME ReadInv PROVE SameProbesSameGaps
<1> SUFFICES ASSUME analysis # Null,
                    DOMAIN stored = {s \in ToSet(RECON_SOURCES) : Worth(s)},
                    NEW g \in ProbeGap \ {"ip_reputation"},
                    TriggerFields[g] \cap DOMAIN current = {}
             PROVE  g \in Triggered(normalizeContext) <=> g \in triggered
  BY DEF SameProbesSameGaps, ReadInv
<1> DEFINE a == normalizeContext
           k == buildContext
           fs == TriggerFields[g]
<1>1. Probed
  BY SiteIsProbed DEF ReadInv
<1>2. \A s \in Source : \A f \in (SaidBy[s] \cap fs) \ {"ip_is_abusive"} :
        \/ a[f] = k[f]
        \/ s \in {"certs", "hibp"} /\ a[f] = No /\ k[f] = Null
  BY <1>1, SameSaid
<1>3. {"dns", "http", "certs", "hibp", "ssllabs", "abuseipdb"} \subseteq Source
  BY DEF Source
<1> HIDE DEF a, k
<1>4. CASE g \in {"dmarc", "spf"}
  <2>1. {"dmarc_policy", "spf_policy"} \subseteq SaidBy["dns"] \cap fs
    BY <1>4 DEF SaidBy, TriggerFields
  <2> HIDE DEF fs
  <2>2. a.dmarc_policy = k.dmarc_policy /\ a.spf_policy = k.spf_policy
    BY <1>2, <1>3, <2>1
  <2> QED
    BY <1>4, <2>2, ProbeTriggers DEF a, k, triggered
<1>5. CASE g = "security_headers"
  <2>1. {"has_hsts", "has_csp"} \subseteq SaidBy["http"] \cap fs
    BY <1>5 DEF SaidBy, TriggerFields, HttpField
  <2> HIDE DEF fs
  <2>2. a.has_hsts = k.has_hsts /\ a.has_csp = k.has_csp
    BY <1>2, <1>3, <2>1
  <2> QED
    BY <1>5, <2>2, ProbeTriggers DEF a, k, triggered
<1>6. CASE g = "staging_exposure"
  <2>1. "has_staging_exposure" \in SaidBy["certs"] \cap fs
    BY <1>6 DEF SaidBy, TriggerFields
  <2> HIDE DEF fs
  <2>2. a.has_staging_exposure = Yes <=> k.has_staging_exposure = Yes
    BY <1>2, <1>3, <2>1, NullAssumption DEF Yes, No
  <2> QED
    BY <1>6, <2>2, ProbeTriggers DEF a, k, triggered
<1>7. CASE g = "domain_breach"
  <2>1. "domain_in_breach" \in SaidBy["hibp"] \cap fs
    BY <1>7 DEF SaidBy, TriggerFields
  <2> HIDE DEF fs
  <2>2. a.domain_in_breach = Yes <=> k.domain_in_breach = Yes
    BY <1>2, <1>3, <2>1, NullAssumption DEF Yes, No
  <2> QED
    BY <1>7, <2>2, ProbeTriggers DEF a, k, triggered
<1>8. CASE g = "tls_configuration"
  <2>1. /\ {"tls_is_current", "cert_expiry_days"} \subseteq SaidBy["http"] \cap fs
        /\ {"ssl_grade", "has_old_tls"} \subseteq SaidBy["ssllabs"] \cap fs
    BY <1>8 DEF SaidBy, TriggerFields, HttpField
  <2> HIDE DEF fs
  <2>2. /\ a.tls_is_current = k.tls_is_current /\ a.cert_expiry_days = k.cert_expiry_days
        /\ a.ssl_grade = k.ssl_grade /\ a.has_old_tls = k.has_old_tls
    BY <1>2, <1>3, <2>1
  <2> QED
    BY <1>8, <2>2, ProbeTriggers DEF a, k, triggered
<1> QED
  BY <1>4, <1>5, <1>6, <1>7, <1>8, GapsOfProbes

(* The analysis of the session record and the recompute over the rows find *)
(* the same gaps in the same probes, whatever the probes answered.         *)
THEOREM OneStoryOfTheProbes == ReadingSpec => []SameProbesSameGaps
  BY OneReading, OneStory, PTL

(* The vendors of a reading.                                               *)
InTiers == INSTANCE FoldTheorems WITH Op <- PutInTier

(* The library's fold over the catalog and the instance's are the same.    *)
LEMMA TiersAreFolded ==
  \A base : FoldLeft(PutInTier, base, VENDORS) = InTiers!Fold(base, VENDORS)
  BY Zenon DEF InTiers!Fold, FoldLeft, InTiers!FoldLeft, MapThenFoldSet,
               InTiers!MapThenFoldSet, Max, InTiers!Max

Listing ==
  Range(Grc) \cup Range(Trust) \cup Range(Identity) \cup Range(Network)
  \cup Range(Endpoint) \cup Range(Backup) \cup Range(Programs)

(* A list is a sequence of what it lists.                                  *)
LEMMA ListIsOfItsOwn ==
  ASSUME NEW n \in Nat, NEW s, s = [i \in 1..n |-> s[i]]
  PROVE  s \in Seq(Range(s))
<1>1. DOMAIN s = 1..n /\ \A i \in 1..n : s[i] \in Range(s)
  BY DEF Range
<1>2. s \in [1..n -> Range(s)]
  BY <1>1
<1> QED
  BY <1>2

(* The catalog is a list of vendors.                                       *)
LEMMA CatalogIsListed == VENDORS \in Seq(Listing)
<1>1. /\ Grc \in Seq(Range(Grc)) /\ Trust \in Seq(Range(Trust))
      /\ Identity \in Seq(Range(Identity)) /\ Network \in Seq(Range(Network))
      /\ Endpoint \in Seq(Range(Endpoint)) /\ Backup \in Seq(Range(Backup))
      /\ Programs \in Seq(Range(Programs))
  <2>1. Grc = [i \in 1..6 |-> Grc[i]]
    BY DEF Grc
  <2>2. Trust = [i \in 1..3 |-> Trust[i]]
    BY DEF Trust
  <2>3. Identity = [i \in 1..5 |-> Identity[i]]
    BY DEF Identity
  <2>4. Network = [i \in 1..3 |-> Network[i]]
    BY DEF Network
  <2>5. Endpoint = [i \in 1..1 |-> Endpoint[i]]
    BY DEF Endpoint
  <2>6. Backup = [i \in 1..2 |-> Backup[i]]
    BY DEF Backup
  <2>7. Programs = [i \in 1..3 |-> Programs[i]]
    BY DEF Programs
  <2> QED
    BY <2>1, <2>2, <2>3, <2>4, <2>5, <2>6, <2>7, ListIsOfItsOwn
<1>2. /\ Grc \in Seq(Listing) /\ Trust \in Seq(Listing) /\ Identity \in Seq(Listing)
      /\ Network \in Seq(Listing) /\ Endpoint \in Seq(Listing) /\ Backup \in Seq(Listing)
      /\ Programs \in Seq(Listing)
  BY <1>1 DEF Listing
<1> QED
  BY <1>2 DEF VENDORS

(* A vendor is selected for a gap it closes.                               *)
LEMMA SelectedCloses ==
  ASSUME NEW gaps, NEW slugs, NEW v \in ToSet(SelectVendors(gaps, slugs))
  PROVE  v.closes \cap gaps # {}
<1> DEFINE Closing == {w \in Listing : w.closes \cap gaps # {}}
           Tiers == [(0..2) \X BOOLEAN -> Seq(Closing)]
           A == [gaps : {gaps}, slugs : {slugs}, tier : Tiers]
           base == [gaps |-> gaps, slugs |-> slugs, tier |-> NoVendors]
<1>1. base \in A
  <2>1. << >> \in Seq(Closing)
    OBVIOUS
  <2> QED
    BY <2>1 DEF NoVendors
<1>2. ASSUME NEW matched \in A, NEW w \in Listing PROVE PutInTier(matched, w) \in A
  <2> DEFINE at == <<Priority(w, matched.gaps), CorpusConfirms(w, matched.gaps, matched.slugs)>>
  <2>1. CASE w.closes \cap matched.gaps = {}
    BY <2>1 DEF PutInTier
  <2>2. CASE w.closes \cap matched.gaps # {}
    <3>1. matched.gaps = gaps /\ matched.slugs = slugs /\ matched.tier \in Tiers
      OBVIOUS
    <3>2. w \in Closing
      BY <2>2, <3>1
    <3> HIDE DEF Closing
    <3>3. PutInTier(matched, w) = [matched EXCEPT !.tier[at] = Append(@, w)]
      BY <2>2 DEF PutInTier
    <3> HIDE DEF at
    <3>4. \A t \in Tiers : [t EXCEPT ![at] = Append(@, w)] \in Tiers
      <4>1. \A q \in Seq(Closing) : Append(q, w) \in Seq(Closing)
        BY <3>2
      <4> QED
        BY <4>1
    <3>5. PutInTier(matched, w) = [matched EXCEPT !.tier = [matched.tier EXCEPT ![at] = Append(@, w)]]
      BY <3>3
    <3>6. matched = [gaps |-> gaps, slugs |-> slugs, tier |-> matched.tier]
      BY <3>1
    <3> DEFINE put == [matched.tier EXCEPT ![at] = Append(@, w)]
    <3>7. put \in Tiers
      BY <3>1, <3>4
    <3> HIDE DEF Tiers, put
    <3>8. PutInTier(matched, w) = [gaps |-> gaps, slugs |-> slugs, tier |-> put]
      BY <3>5, <3>6 DEF put
    <3> QED
      BY <3>7, <3>8
  <2> HIDE DEF A
  <2> QED
    BY <2>1, <2>2, Zenon
<1>3. InTiers!Fold(base, VENDORS) \in A
  <2>1. PICK n \in Nat : DOMAIN VENDORS = 1..n /\ \A i \in 1..n : VENDORS[i] \in Listing
    BY CatalogIsListed
  <2> HIDE DEF A, base
  <2> QED
    BY <1>1, <1>2, <2>1, InTiers!FoldStays
<1> DEFINE matched == FoldLeft(PutInTier, base, VENDORS)
           AtTier(tier) == matched.tier[tier, TRUE] \o matched.tier[tier, FALSE]
<1>4. matched.tier \in Tiers
  BY <1>3, TiersAreFolded
<1>5. SelectVendors(gaps, slugs) = AtTier(0) \o AtTier(1) \o AtTier(2)
  BY Zenon DEF SelectVendors
<1> HIDE DEF matched, Closing
<1>6. SelectVendors(gaps, slugs) \in Seq(Closing)
  <2>1. ASSUME NEW tier \in 0..2 PROVE AtTier(tier) \in Seq(Closing)
    <3>1. matched.tier[tier, TRUE] \in Seq(Closing) /\ matched.tier[tier, FALSE] \in Seq(Closing)
      BY <1>4
    <3>2. \A p, q \in Seq(Closing) : p \o q \in Seq(Closing)
      OBVIOUS
    <3>3. AtTier(tier) = matched.tier[tier, TRUE] \o matched.tier[tier, FALSE]
      OBVIOUS
    <3> HIDE DEF AtTier
    <3> QED
      BY <3>1, <3>2, <3>3
  <2> HIDE DEF AtTier
  <2> QED
    BY <1>5, <2>1
<1>7. v \in Closing
  BY <1>6 DEF ToSet
<1> QED
  BY <1>7 DEF Closing

(* What is recommended closes a gap that may be bought for.                *)
LEMMA AttestedBuys == UnattestedBuysNoVendor
<1> SUFFICES ASSUME published, NEW v \in recommended
             PROVE  LET attested == {g \in DOMAIN class : class[g] = "ATTESTED"}
                        buying == observed \ (DOMAIN class \ attested)
                    IN  v.closes \cap buying # {}
  BY DEF UnattestedBuysNoVendor
<1>1. v \in ToSet(SelectVendors(MatrixIncluded(observed), NoSlugs))
  BY DEF recommended
<1>2. v.closes \cap MatrixIncluded(observed) # {}
  BY <1>1, SelectedCloses
<1> QED
  BY <1>2 DEF MatrixIncluded

(* On the published page a vendor is recommended only for a gap that was   *)
(* observed and that VERITAS did not call inferred or unknown.             *)
THEOREM NothingUnattestedSells == ReadingSpec => []UnattestedBuysNoVendor
  BY AttestedBuys, PTL
----------------------------------------------------------------------------
(* The score of the command line.                                          *)

(* Five things are finitely many.                                          *)
LEMMA FiveAreFinite == \A a, b, c, d, e : IsFiniteSet({a, b, c, d, e})
<1>1. \A a : IsFiniteSet({a})
  BY FS_Singleton
<1> QED
  <2> SUFFICES ASSUME NEW a, NEW b, NEW c, NEW d, NEW e PROVE IsFiniteSet({a, b, c, d, e})
    OBVIOUS
  <2>1. IsFiniteSet({a} \cup {b})
    BY <1>1, FS_Union
  <2>2. IsFiniteSet(({a} \cup {b}) \cup {c})
    BY <1>1, <2>1, FS_Union
  <2>3. IsFiniteSet((({a} \cup {b}) \cup {c}) \cup {d})
    BY <1>1, <2>2, FS_Union
  <2>4. IsFiniteSet(((({a} \cup {b}) \cup {c}) \cup {d}) \cup {e})
    BY <1>1, <2>3, FS_Union
  <2>5. {a, b, c, d, e} = ((({a} \cup {b}) \cup {c}) \cup {d}) \cup {e}
    OBVIOUS
  <2> QED
    BY <2>4, <2>5

(* A context triggers finitely many gaps.                                  *)
LEMMA FewTriggered == \A c : IsFiniteSet(Triggered(c))
<1> DEFINE A == {"soc2", "mfa", "cyber_insurance", "incident_response", "vendor_questionnaire"}
           B == {"edr", "sso", "founder_trust", "dmarc", "spf"}
           C == {"hipaa_security", "pci_dss", "apra_prudential", "essential_eight",
                 "security_headers"}
           D == {"staging_exposure", "domain_breach", "tls_configuration", "ai_governance",
                 "data_privacy"}
           E == {"penetration_testing", "backup_dr", "aws_program_eligibility",
                 "microsoft_program_eligibility", "ip_reputation"}
<1>1. IsFiniteSet(A \cup B \cup C \cup D \cup E)
  BY FiveAreFinite, FS_Union
<1>2. ASSUME NEW c PROVE Triggered(c) \subseteq A \cup B \cup C \cup D \cup E
  <2>1. /\ OfSection(AssuranceGaps(c)) \subseteq A /\ OfSection(AccessGaps(c)) \subseteq A \cup B
        /\ OfSection(MailGaps(c)) \subseteq B /\ OfSection(SectorGaps(c)) \subseteq C
        /\ OfSection(PerimeterGaps(c)) \subseteq C \cup D
        /\ OfSection(PracticeGaps(c)) \subseteq D \cup E /\ OfSection(CommercialGaps(c)) \subseteq E
    BY DEF OfSection, AssuranceGaps, AccessGaps, MailGaps, SectorGaps, PerimeterGaps,
           PracticeGaps, CommercialGaps
  <2> HIDE DEF A, B, C, D, E
  <2> QED
    BY <2>1, TriggeredBySection
<1> QED
  BY <1>1, <1>2, FS_Subset

(* Of fewer gaps the score is no lower.                                    *)
LEMMA FewerGapsScoreMore ==
  ASSUME NEW few, NEW many, IsFiniteSet(many), few \subseteq many
  PROVE  TrustScore(few) >= TrustScore(many)
<1> DEFINE n(gaps, s) == Cardinality({g \in gaps : Severity(g) = s})
<1>1. ASSUME NEW s PROVE n(few, s) \in Nat /\ n(many, s) \in Nat /\ n(few, s) <= n(many, s)
  <2>1. {g \in few : Severity(g) = s} \subseteq {g \in many : Severity(g) = s}
    OBVIOUS
  <2>2. IsFiniteSet({g \in many : Severity(g) = s})
    BY FS_Subset
  <2>3. IsFiniteSet({g \in few : Severity(g) = s})
    BY <2>1, <2>2, FS_Subset
  <2> QED
    BY <2>1, <2>2, <2>3, FS_Subset, FS_CardinalityType
<1> DEFINE Penalty(gaps) == 20 * n(gaps, "critical") + 10 * n(gaps, "high") + 5 * n(gaps, "medium")
<1>2. \A gaps : TrustScore(gaps) = IF Penalty(gaps) > 100 THEN 0 ELSE 100 - Penalty(gaps)
  BY DEF TrustScore, SEVERITY_WEIGHTS
<1> HIDE DEF n
<1>3. Penalty(few) \in Nat /\ Penalty(many) \in Nat /\ Penalty(few) <= Penalty(many)
  BY <1>1
<1> HIDE DEF Penalty
<1> QED
  BY <1>2, <1>3

(* The fields the founder is asked.                                        *)
LEMMA AskedFields ==
  Asked = {"product_type", "customer_type", "stage", "sector", "geo_market", "infrastructure",
           "has_raised_institutional", "abn_entity_type", "identity_model", "insurance_status",
           "pen_test_completed", "has_backup", "aws_program_enrolled"}
<1> DEFINE S == ToSet(ConfirmedField) \cup ToSet(ChosenField)
<1>1. ConfirmedField \in Seq(S) /\ ChosenField \in Seq(S)
  <2>1. /\ ConfirmedField = [i \in 1..6 |-> ConfirmedField[i]]
        /\ ChosenField = [i \in 1..7 |-> ChosenField[i]]
    BY DEF ConfirmedField, ChosenField
  <2> QED
    BY <2>1, ListIsOfItsOwn DEF ToSet
<1>2. \A p, q \in Seq(S) : {(p \o q)[i] : i \in 1..Len(p \o q)} = ToSet(p) \cup ToSet(q)
  <2> SUFFICES ASSUME NEW p \in Seq(S), NEW q \in Seq(S)
               PROVE  {(p \o q)[i] : i \in 1..Len(p \o q)} = ToSet(p) \cup ToSet(q)
    OBVIOUS
  <2> HIDE DEF S
  <2>1. /\ Len(p) \in Nat /\ Len(q) \in Nat /\ Len(p \o q) = Len(p) + Len(q)
        /\ DOMAIN p = 1..Len(p) /\ DOMAIN q = 1..Len(q)
        /\ \A i \in 1..Len(p) : (p \o q)[i] = p[i]
        /\ \A i \in 1..Len(q) : (p \o q)[Len(p) + i] = q[i]
    OBVIOUS
  <2>2. \A i \in 1..Len(p \o q) : i \in 1..Len(p) \/ i - Len(p) \in 1..Len(q)
    BY <2>1
  <2>3. \A i \in 1..Len(p \o q) : (p \o q)[i] \in ToSet(p) \cup ToSet(q)
    BY <2>1, <2>2 DEF ToSet
  <2>4. /\ \A i \in 1..Len(p) : i \in 1..Len(p \o q)
        /\ \A i \in 1..Len(q) : Len(p) + i \in 1..Len(p \o q)
    BY <2>1
  <2>5. \A i \in 1..Len(p) : p[i] \in {(p \o q)[j] : j \in 1..Len(p \o q)}
    BY <2>1, <2>4
  <2>6. \A i \in 1..Len(q) : q[i] \in {(p \o q)[j] : j \in 1..Len(p \o q)}
    BY <2>1, <2>4
  <2> QED
    BY <2>1, <2>3, <2>5, <2>6 DEF ToSet
<1>3. /\ \A i \in 1..6 : i \in {1, 2, 3, 4, 5, 6}
      /\ \A i \in 1..7 : i \in {1, 2, 3, 4, 5, 6, 7}
  OBVIOUS
<1>4. ToSet(ConfirmedField) = {"product_type", "customer_type", "stage", "sector", "geo_market",
                               "infrastructure"}
  BY <1>3 DEF ToSet, ConfirmedField
<1>5. ToSet(ChosenField) = {"has_raised_institutional", "abn_entity_type", "identity_model",
        "insurance_status", "pen_test_completed", "has_backup", "aws_program_enrolled"}
  BY <1>3 DEF ToSet, ChosenField
<1>6. Asked = S
  <2> HIDE DEF S
  <2> QED
    BY <1>1, <1>2 DEF Asked, Questions, S
<1> QED
  BY <1>4, <1>5, <1>6

(* One context is the other's for want of a field.                         *)
Wants(c, d, f) == d[f] = Null /\ \A h \in CliField : h # f => d[h] = c[h]

(* A gap that does not depend on a field is not triggered for want of it.  *)
LEMMA NoRuleTurnsOnWant ==
  ASSUME NEW c, NEW d, NEW f \in Asked, Wants(c, d, f),
         NEW g \in Triggered(d), f \notin Dependencies(g)
  PROVE  g \in Triggered(c)
<1>1. \A h \in CliField : h # f => d[h] = c[h]
  BY DEF Wants
<1>2. CASE g \in OfSection(AssuranceGaps(d))
  <2>1. /\ g = "soc2" => d.compliance_status = c.compliance_status
        /\ g = "mfa" => d.identity_model = c.identity_model
        /\ g = "cyber_insurance" => d.insurance_status = c.insurance_status
        /\ g = "incident_response" => d.compliance_status = c.compliance_status
    BY <1>1, AskedFields DEF Dependencies, GAP_DEPENDENCIES, CliField, Field, SignalField,
           FounderField, ProbeField
  <2>2. \A x : DOMAIN AssuranceGaps(x) = {"soc2", "mfa", "cyber_insurance", "incident_response"}
    BY DEF AssuranceGaps
  <2>3. CASE g = "soc2"
    <3>1. AssuranceGaps(d)[g] => AssuranceGaps(c)[g]
      BY Zenon, <2>1, <2>3 DEF AssuranceGaps
    <3> QED
      BY <1>2, <2>2, <2>3, <3>1, TriggeredBySection DEF OfSection
  <2>4. CASE g = "mfa"
    <3>1. AssuranceGaps(d)[g] => AssuranceGaps(c)[g]
      BY Zenon, <2>1, <2>4 DEF AssuranceGaps
    <3> QED
      BY <1>2, <2>2, <2>4, <3>1, TriggeredBySection DEF OfSection
  <2>5. CASE g = "cyber_insurance"
    <3>1. AssuranceGaps(d)[g] => AssuranceGaps(c)[g]
      BY Zenon, <2>1, <2>5 DEF AssuranceGaps
    <3> QED
      BY <1>2, <2>2, <2>5, <3>1, TriggeredBySection DEF OfSection
  <2>6. CASE g = "incident_response"
    <3>1. AssuranceGaps(d)[g] => AssuranceGaps(c)[g]
      BY Zenon, <2>1, <2>6 DEF AssuranceGaps
    <3> QED
      BY <1>2, <2>2, <2>6, <3>1, TriggeredBySection DEF OfSection
  <2> QED
    BY <1>2, <2>2, <2>3, <2>4, <2>5, <2>6 DEF OfSection
<1>3. CASE g \in OfSection(AccessGaps(d))
  <2>1. /\ g = "vendor_questionnaire" => d.questionnaire_experience = c.questionnaire_experience
        /\ g = "edr" => d.identity_model = c.identity_model
        /\ g = "sso" => d.identity_model = c.identity_model
        /\ g = "founder_trust" => d.founder_profile_completed = c.founder_profile_completed
    BY <1>1, AskedFields DEF Dependencies, GAP_DEPENDENCIES, CliField, Field, SignalField,
           FounderField, ProbeField
  <2>2. \A x : DOMAIN AccessGaps(x) = {"vendor_questionnaire", "edr", "sso", "founder_trust"}
    BY DEF AccessGaps
  <2>3. CASE g = "vendor_questionnaire"
    <3>1. AccessGaps(d)[g] => AccessGaps(c)[g]
      BY Zenon, <2>1, <2>3 DEF AccessGaps
    <3> QED
      BY <1>3, <2>2, <2>3, <3>1, TriggeredBySection DEF OfSection
  <2>4. CASE g = "edr"
    <3>1. AccessGaps(d)[g] => AccessGaps(c)[g]
      BY Zenon, <2>1, <2>4 DEF AccessGaps
    <3> QED
      BY <1>3, <2>2, <2>4, <3>1, TriggeredBySection DEF OfSection
  <2>5. CASE g = "sso"
    <3>1. AccessGaps(d)[g] => AccessGaps(c)[g]
      BY Zenon, <2>1, <2>5 DEF AccessGaps
    <3> QED
      BY <1>3, <2>2, <2>5, <3>1, TriggeredBySection DEF OfSection
  <2>6. CASE g = "founder_trust"
    <3>1. AccessGaps(d)[g] => AccessGaps(c)[g]
      BY Zenon, <2>1, <2>6 DEF AccessGaps
    <3> QED
      BY <1>3, <2>2, <2>6, <3>1, TriggeredBySection DEF OfSection
  <2> QED
    BY <1>3, <2>2, <2>3, <2>4, <2>5, <2>6 DEF OfSection
<1>4. CASE g \in OfSection(MailGaps(d))
  <2>1. /\ g = "dmarc" => d.dmarc_policy = c.dmarc_policy
        /\ g = "spf" => d.spf_policy = c.spf_policy
    BY <1>1, AskedFields DEF Dependencies, GAP_DEPENDENCIES, CliField, Field, SignalField,
           FounderField, ProbeField
  <2>2. \A x : DOMAIN MailGaps(x) = {"dmarc", "spf"}
    BY DEF MailGaps
  <2>3. CASE g = "dmarc"
    <3>1. MailGaps(d)[g] => MailGaps(c)[g]
      BY Zenon, <2>1, <2>3 DEF MailGaps
    <3> QED
      BY <1>4, <2>2, <2>3, <3>1, TriggeredBySection DEF OfSection
  <2>4. CASE g = "spf"
    <3>1. MailGaps(d)[g] => MailGaps(c)[g]
      BY Zenon, <2>1, <2>4 DEF MailGaps
    <3> QED
      BY <1>4, <2>2, <2>4, <3>1, TriggeredBySection DEF OfSection
  <2> QED
    BY <1>4, <2>2, <2>3, <2>4 DEF OfSection
<1>5. CASE g \in OfSection(SectorGaps(d))
  <2>1. /\ g = "hipaa_security" => d.sector = c.sector /\ d.data_sensitivity = c.data_sensitivity
        /\ g = "pci_dss" => d.handles_payments = c.handles_payments /\ d.sector = c.sector
        /\ g = "apra_prudential" => d.sector = c.sector /\ d.geo_market = c.geo_market
        /\ g = "essential_eight" => d.sector = c.sector /\ d.geo_market = c.geo_market
    BY <1>1, AskedFields DEF Dependencies, GAP_DEPENDENCIES, CliField, Field, SignalField,
           FounderField, ProbeField
  <2>2. \A x : DOMAIN SectorGaps(x) = {"hipaa_security", "pci_dss", "apra_prudential", "essential_eight"}
    BY DEF SectorGaps
  <2>3. CASE g = "hipaa_security"
    <3>1. SectorGaps(d)[g] => SectorGaps(c)[g]
      BY Zenon, <2>1, <2>3 DEF SectorGaps
    <3> QED
      BY <1>5, <2>2, <2>3, <3>1, TriggeredBySection DEF OfSection
  <2>4. CASE g = "pci_dss"
    <3>1. SectorGaps(d)[g] => SectorGaps(c)[g]
      BY Zenon, <2>1, <2>4 DEF SectorGaps
    <3> QED
      BY <1>5, <2>2, <2>4, <3>1, TriggeredBySection DEF OfSection
  <2>5. CASE g = "apra_prudential"
    <3>1. SectorGaps(d)[g] => SectorGaps(c)[g]
      BY Zenon, <2>1, <2>5 DEF SectorGaps
    <3> QED
      BY <1>5, <2>2, <2>5, <3>1, TriggeredBySection DEF OfSection
  <2>6. CASE g = "essential_eight"
    <3>1. SectorGaps(d)[g] => SectorGaps(c)[g]
      BY Zenon, <2>1, <2>6 DEF SectorGaps
    <3> QED
      BY <1>5, <2>2, <2>6, <3>1, TriggeredBySection DEF OfSection
  <2> QED
    BY <1>5, <2>2, <2>3, <2>4, <2>5, <2>6 DEF OfSection
<1>6. CASE g \in OfSection(PerimeterGaps(d))
  <2>1. /\ g = "security_headers" => d.has_hsts = c.has_hsts /\ d.has_csp = c.has_csp
        /\ g = "staging_exposure" => d.has_staging_exposure = c.has_staging_exposure
        /\ g = "domain_breach" => d.domain_in_breach = c.domain_in_breach
        /\ g = "tls_configuration" => d.tls_is_current = c.tls_is_current /\ d.has_old_tls = c.has_old_tls /\ d.ssl_grade = c.ssl_grade /\ d.cert_expiry_days = c.cert_expiry_days
    BY <1>1, AskedFields DEF Dependencies, GAP_DEPENDENCIES, CliField, Field, SignalField,
           FounderField, ProbeField
  <2>2. \A x : DOMAIN PerimeterGaps(x) = {"security_headers", "staging_exposure", "domain_breach", "tls_configuration"}
    BY DEF PerimeterGaps
  <2>3. CASE g = "security_headers"
    <3>1. PerimeterGaps(d)[g] => PerimeterGaps(c)[g]
      BY Zenon, <2>1, <2>3 DEF PerimeterGaps
    <3> QED
      BY <1>6, <2>2, <2>3, <3>1, TriggeredBySection DEF OfSection
  <2>4. CASE g = "staging_exposure"
    <3>1. PerimeterGaps(d)[g] => PerimeterGaps(c)[g]
      BY Zenon, <2>1, <2>4 DEF PerimeterGaps
    <3> QED
      BY <1>6, <2>2, <2>4, <3>1, TriggeredBySection DEF OfSection
  <2>5. CASE g = "domain_breach"
    <3>1. PerimeterGaps(d)[g] => PerimeterGaps(c)[g]
      BY Zenon, <2>1, <2>5 DEF PerimeterGaps
    <3> QED
      BY <1>6, <2>2, <2>5, <3>1, TriggeredBySection DEF OfSection
  <2>6. CASE g = "tls_configuration"
    <3>1. PerimeterGaps(d)[g] => PerimeterGaps(c)[g]
      BY Zenon, <2>1, <2>6 DEF PerimeterGaps
    <3> QED
      BY <1>6, <2>2, <2>6, <3>1, TriggeredBySection DEF OfSection
  <2> QED
    BY <1>6, <2>2, <2>3, <2>4, <2>5, <2>6 DEF OfSection
<1>7. CASE g \in OfSection(PracticeGaps(d))
  <2>1. /\ g = "ai_governance" => d.uses_ai = c.uses_ai
        /\ g = "data_privacy" => d.handles_personal_data = c.handles_personal_data
        /\ g = "penetration_testing" => d.pen_test_completed = c.pen_test_completed /\ d.compliance_status = c.compliance_status
        /\ g = "backup_dr" => d.has_backup = c.has_backup
    BY <1>1, AskedFields DEF Dependencies, GAP_DEPENDENCIES, CliField, Field, SignalField,
           FounderField, ProbeField
  <2>2. \A x : DOMAIN PracticeGaps(x) = {"ai_governance", "data_privacy", "penetration_testing", "backup_dr"}
    BY DEF PracticeGaps
  <2>3. CASE g = "ai_governance"
    <3>1. PracticeGaps(d)[g] => PracticeGaps(c)[g]
      BY Zenon, <2>1, <2>3 DEF PracticeGaps
    <3> QED
      BY <1>7, <2>2, <2>3, <3>1, TriggeredBySection DEF OfSection
  <2>4. CASE g = "data_privacy"
    <3>1. PracticeGaps(d)[g] => PracticeGaps(c)[g]
      BY Zenon, <2>1, <2>4 DEF PracticeGaps
    <3> QED
      BY <1>7, <2>2, <2>4, <3>1, TriggeredBySection DEF OfSection
  <2>5. CASE g = "penetration_testing"
    <3>1. PracticeGaps(d)[g] => PracticeGaps(c)[g]
      BY Zenon, <2>1, <2>5 DEF PracticeGaps
    <3> QED
      BY <1>7, <2>2, <2>5, <3>1, TriggeredBySection DEF OfSection
  <2>6. CASE g = "backup_dr"
    <3>1. PracticeGaps(d)[g] => PracticeGaps(c)[g]
      BY Zenon, <2>1, <2>6 DEF PracticeGaps
    <3> QED
      BY <1>7, <2>2, <2>6, <3>1, TriggeredBySection DEF OfSection
  <2> QED
    BY <1>7, <2>2, <2>3, <2>4, <2>5, <2>6 DEF OfSection
<1>8. CASE g \in OfSection(CommercialGaps(d))
  <2>1. /\ g = "aws_program_eligibility" => d.infrastructure = c.infrastructure /\ d.cloud_provider = c.cloud_provider /\ d.aws_program_enrolled = c.aws_program_enrolled
        /\ g = "microsoft_program_eligibility" => d.cloud_provider = c.cloud_provider /\ d.microsoft_program_enrolled = c.microsoft_program_enrolled
        /\ g = "ip_reputation" => d.ip_is_abusive = c.ip_is_abusive
    BY <1>1, AskedFields DEF Dependencies, GAP_DEPENDENCIES, CliField, Field, SignalField,
           FounderField, ProbeField
  <2>2. d.infrastructure \in {c.infrastructure, Null}
    BY <1>1 DEF Wants, CliField, Field, SignalField
  <2>3. \A x : DOMAIN CommercialGaps(x) = {"aws_program_eligibility", "microsoft_program_eligibility", "ip_reputation"}
    BY DEF CommercialGaps
  <2>4. CASE g = "aws_program_eligibility"
    <3>1. CommercialGaps(d)[g] => CommercialGaps(c)[g]
      BY Zenon, <2>1, <2>4, <2>2, NullAssumption DEF CommercialGaps
    <3> QED
      BY <1>8, <2>3, <2>4, <3>1, TriggeredBySection DEF OfSection
  <2>5. CASE g = "microsoft_program_eligibility"
    <3>1. CommercialGaps(d)[g] => CommercialGaps(c)[g]
      BY Zenon, <2>1, <2>5, <2>2, NullAssumption DEF CommercialGaps
    <3> QED
      BY <1>8, <2>3, <2>5, <3>1, TriggeredBySection DEF OfSection
  <2>6. CASE g = "ip_reputation"
    <3>1. CommercialGaps(d)[g] => CommercialGaps(c)[g]
      BY Zenon, <2>1, <2>6, <2>2, NullAssumption DEF CommercialGaps
    <3> QED
      BY <1>8, <2>3, <2>6, <3>1, TriggeredBySection DEF OfSection
  <2> QED
    BY <1>8, <2>3, <2>4, <2>5, <2>6 DEF OfSection
<1> QED
  BY <1>2, <1>3, <1>4, <1>5, <1>6, <1>7, <1>8, TriggeredBySection

(* To have said "not sure" leaves no gap that counts against the company.  *)
LEMMA NotSureLeavesFewer ==
  ASSUME NEW of, NEW said, DOMAIN said = Asked, NEW f \in Asked
  PROVE  LET unsure == [said EXCEPT ![f] = NotSure]
         IN  CliScore(AnalyseGaps(FounderContext(of, unsure), FieldStates(unsure)))
               >= CliScore(AnalyseGaps(FounderContext(of, said), FieldStates(said)))
<1> DEFINE unsure == [said EXCEPT ![f] = NotSure]
           c == FounderContext(of, said)
           d == FounderContext(of, unsure)
           s == FieldStates(said)
           t == FieldStates(unsure)
           Held(x, y) == {g \in DOMAIN AnalyseGaps(x, y) : AnalyseGaps(x, y)[g] # "UNVERIFIED"}
<1>1. /\ DOMAIN unsure = Asked
      /\ unsure[f] = NotSure /\ \A h \in Asked : h # f => unsure[h] = said[h]
  OBVIOUS
<1>2. /\ f \in CliField /\ f # "compliance_status" /\ "compliance_status" \notin Asked
      /\ {"compliance_status", "infrastructure"} \subseteq CliField
  BY AskedFields DEF CliField, AskedOnlyField, Field, SignalField, FounderField
<1>3. \A x, y : /\ DOMAIN AnalyseGaps(x, y)
                     = Triggered(x) \cup {g \in ANSWER_GAPS : UnverifiedFields(g, x, y) # {}}
                /\ \A g \in DOMAIN AnalyseGaps(x, y) : AnalyseGaps(x, y)[g] = Strength(g, x, y)
  BY DEF AnalyseGaps
<1>4. \A x, y, g : Strength(g, x, y) # "UNVERIFIED" <=> UnverifiedFields(g, x, y) = {}
  BY DEF Strength
<1>5. \A x, y : Held(x, y) = {g \in Triggered(x) : UnverifiedFields(g, x, y) = {}}
  <2> SUFFICES ASSUME NEW x, NEW y, NEW g
               PROVE  g \in Held(x, y) <=>
                        g \in Triggered(x) /\ UnverifiedFields(g, x, y) = {}
    OBVIOUS
  <2>1. g \in Held(x, y) <=>
          g \in DOMAIN AnalyseGaps(x, y) /\ Strength(g, x, y) # "UNVERIFIED"
    BY <1>3
  <2> HIDE DEF Held
  <2>2. g \in DOMAIN AnalyseGaps(x, y) <=>
          g \in Triggered(x) \/ (g \in ANSWER_GAPS /\ UnverifiedFields(g, x, y) # {})
    <3>1. DOMAIN AnalyseGaps(x, y)
            = Triggered(x) \cup {h \in ANSWER_GAPS : UnverifiedFields(h, x, y) # {}}
      BY <1>3, Zenon
    <3> QED
      BY ONLY <3>1
  <2>3. Strength(g, x, y) # "UNVERIFIED" <=> UnverifiedFields(g, x, y) = {}
    BY <1>4
  <2> QED
    BY <2>1, <2>2, <2>3
<1>6. Wants(c, d, f)
  <2>1. \A h \in CliField : h # f =>
          /\ h \in DOMAIN unsure <=> h \in DOMAIN said
          /\ h \in DOMAIN said => unsure[h].value = said[h].value
    BY <1>1
  <2>2. unsure[f].value = Null
    BY <1>1 DEF NotSure, Reply
  <2> HIDE DEF unsure
  <2> QED
    BY <1>1, <1>2, <2>1, <2>2 DEF Wants, FounderContext
<1>7. /\ t[f] = "not_sure" /\ f \in DOMAIN t
      /\ DOMAIN t = DOMAIN s /\ \A h \in DOMAIN s : h # f => t[h] = s[h]
  <2>1. unsure[f].state = "not_sure"
    BY <1>1 DEF NotSure, Reply
  <2> HIDE DEF unsure
  <2> QED
    BY <1>1, <2>1 DEF FieldStates, ##
<1>8. Held(d, t) \subseteq Held(c, s)
  <2> SUFFICES ASSUME NEW g \in Triggered(d), UnverifiedFields(g, d, t) = {}
               PROVE  g \in Triggered(c) /\ UnverifiedFields(g, c, s) = {}
    <3> HIDE DEF Held, c, d, s, t
    <3> QED
      BY <1>5
  <2>1. \A h \in Dependencies(g) : At(t, h) # "not_sure" /\ d[h] # Null
    BY DEF UnverifiedFields
  <2>2. f \notin Dependencies(g)
    BY <1>7, <2>1 DEF At
  <2>3. g \in Triggered(c)
    BY <1>6, <2>2, NoRuleTurnsOnWant
  <2>4. Dependencies(g) \subseteq CliField
    BY DEF Dependencies, GAP_DEPENDENCIES, CliField, Field, SignalField, FounderField, ProbeField
  <2>5. \A h \in Dependencies(g) : At(s, h) = At(t, h) /\ c[h] = d[h]
    BY <1>6, <1>7, <2>2, <2>4 DEF At, Wants
  <2> QED
    BY <2>1, <2>3, <2>5 DEF UnverifiedFields
<1>9. IsFiniteSet(Held(c, s))
  <2>1. Held(c, s) \subseteq Triggered(c)
    BY <1>5
  <2> QED
    BY <2>1, FewTriggered, FS_Subset
<1>10. \A x, y : CliScore(AnalyseGaps(x, y)) = TrustScore(Held(x, y))
  BY DEF CliScore
<1> HIDE DEF Held, c, d, s, t
<1>11. TrustScore(Held(d, t)) >= TrustScore(Held(c, s))
  BY <1>8, <1>9, FewerGapsScoreMore
<1> QED
  BY <1>10, <1>11 DEF c, d, s, t

(* What is saved is what a founder said of every question; who is not sure *)
(* has given no value.                                                     *)
Honest(said) ==
  \A f \in DOMAIN said :
    /\ said[f].state \in {"confirmed", "changed", "not_sure"}
    /\ said[f].state = "not_sure" => said[f].value = Null

SavedAsSaid(s) ==
  \E said : /\ DOMAIN said = Asked /\ Honest(said)
            /\ s.states = FieldStates(said) /\ s.context = FounderContext(s.company, said)

(* What the end of collectFounderContext makes of a value.                 *)
Final(f, v) ==
  IF f = "compliance_status" /\ v = Null THEN "none"
  ELSE IF f = "infrastructure" /\ v = Unknown THEN Null ELSE v

(* A field of the context is what was said of it, or else what was found.  *)
LEMMA ContextOfSaid ==
  ASSUME NEW of, NEW said, NEW f \in CliField
  PROVE  /\ FounderContext(of, said) = [h \in CliField |-> FounderContext(of, said)[h]]
         /\ FounderContext(of, said)[f] =
              Final(f, IF f \in DOMAIN said THEN said[f].value ELSE BaseContext(of)[f])
<1>1. "compliance_status" # "infrastructure" /\ {"compliance_status", "infrastructure"} \subseteq CliField
  BY DEF CliField, Field, SignalField, FounderField
<1> DEFINE b == BaseContext(of)
           raw == [h \in CliField |-> IF h \in DOMAIN said THEN said[h].value ELSE b[h]]
<1>2. FounderContext(of, said) =
        [raw EXCEPT !.compliance_status = IF @ = Null THEN "none" ELSE @,
                    !.infrastructure = IF @ = Unknown THEN Null ELSE @]
  BY DEF FounderContext
<1> HIDE DEF b
<1> QED
  BY <1>1, <1>2 DEF Final, b

(* Who is told to be unsure of the same fields shows the same gaps.        *)
LEMMA SameStrength ==
  ASSUME NEW c, NEW s, NEW t,
         \A g : UnverifiedFields(g, c, s) = UnverifiedFields(g, c, t)
  PROVE  AnalyseGaps(c, s) = AnalyseGaps(c, t)
<1>1. \A g : Strength(g, c, s) = Strength(g, c, t)
  BY DEF Strength
<1>2. {g \in ANSWER_GAPS : UnverifiedFields(g, c, s) # {}}
        = {g \in ANSWER_GAPS : UnverifiedFields(g, c, t) # {}}
  OBVIOUS
<1> QED
  BY <1>1, <1>2 DEF AnalyseGaps

(* Programs rest on known fields only, so a state that differs on an       *)
(* unknown field does not weaken one.                                      *)
LEMMA SamePrograms ==
  ASSUME NEW c, NEW s, NEW t,
         \A f \in CliField : c[f] # Null =>
           (StateOf(f, c, s) \in {"not_sure", "probable", "not_asked"} <=>
              StateOf(f, c, t) \in {"not_sure", "probable", "not_asked"})
  PROVE  EvaluateAwsPrograms(c, s) = EvaluateAwsPrograms(c, t)
<1> DEFINE known == [f \in {f \in CliField : c[f] # Null} |-> c[f]]
           D == MatchedPrograms(known) \cap DOMAIN AWS_PROGRAMS
           weak(p, x) == \E r \in AWS_PROGRAMS[p] :
                           StateOf(r.field, c, x) \in {"not_sure", "probable", "not_asked"}
<1>1. \A x : EvaluateAwsPrograms(c, x) = [p \in D |-> IF weak(p, x) THEN "possible" ELSE "eligible"]
  BY DEF EvaluateAwsPrograms
<1>2. ASSUME NEW p \in D PROVE weak(p, s) <=> weak(p, t)
  <2>1. AWS_PROGRAMS[p] = PROGRAMS[p]
    BY DEF AWS_PROGRAMS
  <2>2. \A r \in PROGRAMS[p] : r.field \in DOMAIN known
    BY DEF MatchedPrograms
  <2>3. \A r \in AWS_PROGRAMS[p] : r.field \in CliField /\ c[r.field] # Null
    BY <2>1, <2>2
  <2> QED
    BY <2>3
<1> HIDE DEF D, weak
<1> QED
  BY <1>1, <1>2

(* The replies of an edit that only pressed Enter make the saved dossier.  *)
LEMMA EnterRestores ==
  ASSUME SavedAsSaid(file), company = file.company, DOMAIN replies = Asked,
         \A f \in Asked : replies[f] = Enter(f)
  PROVE  Dossier(company, FounderContext(company, replies), FieldStates(replies))
           = Dossier(file.company, file.context, file.states)
<1> DEFINE c == file.context
           s == file.states
           t == FieldStates(replies)
<1>1. PICK said : /\ DOMAIN said = Asked /\ Honest(said)
                  /\ s = FieldStates(said) /\ c = FounderContext(file.company, said)
  BY DEF SavedAsSaid
<1>2. \A f \in Asked : replies[f].value = c[f] /\ replies[f].state = "confirmed"
  BY DEF Enter, Reply
<1>3. "compliance_status" \notin Asked /\ Asked \subseteq CliField
  BY AskedFields DEF CliField, AskedOnlyField, Field, SignalField, FounderField
<1> HIDE DEF c, s, t
<1>4. FounderContext(company, replies) = c
  <2>1. ASSUME NEW f \in CliField PROVE FounderContext(company, replies)[f] = c[f]
    <3>1. c[f] = Final(f, IF f \in Asked THEN said[f].value ELSE BaseContext(company)[f])
      BY <1>1, ContextOfSaid
    <3>2. FounderContext(company, replies)[f]
            = Final(f, IF f \in Asked THEN c[f] ELSE BaseContext(company)[f])
      BY <1>2, ContextOfSaid
    <3> QED
      BY <1>3, <3>1, <3>2 DEF Final
  <2>2. /\ c = [h \in CliField |-> c[h]]
        /\ FounderContext(company, replies) = [h \in CliField |-> FounderContext(company, replies)[h]]
    <3>1. "stage" \in CliField
      BY DEF CliField, Field, SignalField
    <3> QED
      BY <1>1, <3>1, ContextOfSaid
  <2> QED
    BY <2>1, <2>2
<1>5. /\ DOMAIN s = Asked \cup {"compliance_status"} /\ DOMAIN t = DOMAIN s
      /\ s["compliance_status"] = "probable" /\ t["compliance_status"] = "probable"
      /\ \A f \in Asked : /\ t[f] = "confirmed" /\ s[f] \in {"confirmed", "changed", "not_sure"}
                          /\ s[f] = "not_sure" => c[f] = Null
  <2>1. \A a : DOMAIN a = Asked =>
          /\ DOMAIN FieldStates(a) = Asked \cup {"compliance_status"}
          /\ FieldStates(a)["compliance_status"] = "probable"
          /\ \A f \in Asked : FieldStates(a)[f] = a[f].state
    BY <1>3 DEF FieldStates, ##
  <2>2. ASSUME NEW f \in Asked, said[f].state = "not_sure" PROVE c[f] = Null
    <3>1. said[f].value = Null
      BY <1>1, <2>2 DEF Honest
    <3>2. c[f] = Final(f, Null)
      BY <1>1, <1>3, <3>1, ContextOfSaid
    <3> QED
      BY <1>3, <3>2 DEF Final
  <2>3. /\ DOMAIN s = Asked \cup {"compliance_status"} /\ s["compliance_status"] = "probable"
        /\ \A f \in Asked : s[f] = said[f].state
    BY <1>1, <2>1
  <2>4. /\ DOMAIN t = Asked \cup {"compliance_status"} /\ t["compliance_status"] = "probable"
        /\ \A f \in Asked : t[f] = replies[f].state
    BY <2>1 DEF t
  <2> QED
    BY <1>1, <1>2, <2>2, <2>3, <2>4 DEF Honest
<1>6. \A g : UnverifiedFields(g, c, s) = UnverifiedFields(g, c, t)
  <2>1. \A f : At(s, f) = "not_sure" \/ c[f] = Null <=> At(t, f) = "not_sure" \/ c[f] = Null
    BY <1>5 DEF At
  <2> QED
    BY <2>1 DEF UnverifiedFields
<1>7. AnalyseGaps(c, s) = AnalyseGaps(c, t)
  BY <1>6, SameStrength
<1>8. EvaluateAwsPrograms(c, s) = EvaluateAwsPrograms(c, t)
  <2>1. \A f \in CliField : c[f] # Null =>
          (StateOf(f, c, s) \in {"not_sure", "probable", "not_asked"} <=>
             StateOf(f, c, t) \in {"not_sure", "probable", "not_asked"})
    BY <1>5 DEF StateOf
  <2> QED
    BY <2>1, SamePrograms
<1> QED
  BY <1>4, <1>7, <1>8 DEF Dossier, c, s, t

(* The questions are thirteen.                                             *)
LEMMA QuestionsApart ==
  /\ Len(Questions) = 13 /\ Asked = {Questions[i] : i \in 1..13}
  /\ \A i, j \in 1..13 : Questions[i] = Questions[j] => i = j
<1>1. /\ ConfirmedField = [i \in 1..6 |-> ConfirmedField[i]]
      /\ ChosenField = [i \in 1..7 |-> ChosenField[i]]
      /\ Len(ConfirmedField) = 6 /\ Len(ChosenField) = 7
  BY DEF ConfirmedField, ChosenField
<1> DEFINE S == Range(ConfirmedField) \cup Range(ChosenField)
<1>2. ConfirmedField \in Seq(S) /\ ChosenField \in Seq(S)
  <2>1. ConfirmedField \in Seq(Range(ConfirmedField)) /\ ChosenField \in Seq(Range(ChosenField))
    BY <1>1, ListIsOfItsOwn
  <2> QED
    BY <2>1
<1> HIDE DEF S
<1>3. /\ Len(Questions) = 13
      /\ \A i \in 1..6 : Questions[i] = ConfirmedField[i]
      /\ \A i \in 7..13 : Questions[i] = ChosenField[i - 6]
  <2>1. \A p, q \in Seq(S) : Len(p) = 6 /\ Len(q) = 7 =>
          /\ Len(p \o q) = 13
          /\ \A i \in 1..6 : (p \o q)[i] = p[i]
          /\ \A i \in 7..13 : (p \o q)[i] = q[i - 6]
    <3> SUFFICES ASSUME NEW p \in Seq(S), NEW q \in Seq(S), Len(p) = 6, Len(q) = 7
                 PROVE  /\ Len(p \o q) = 13
                        /\ \A i \in 1..6 : (p \o q)[i] = p[i]
                        /\ \A i \in 7..13 : (p \o q)[i] = q[i - 6]
      OBVIOUS
    <3>1. /\ Len(p \o q) = Len(p) + Len(q)
          /\ \A i \in 1..Len(p) + Len(q) : (p \o q)[i] = IF i <= Len(p) THEN p[i] ELSE q[i - Len(p)]
      BY ConcatProperties
    <3> DEFINE r == p \o q
    <3> HIDE DEF r
    <3>2. /\ Len(r) = 6 + 7
          /\ \A i \in 1..(6 + 7) : r[i] = IF i <= 6 THEN p[i] ELSE q[i - 6]
      BY Zenon, <3>1 DEF r
    <3>3. \A i \in 1..6 : r[i] = p[i]
      <4>1. \A i \in 1..6 : i \in 1..(6 + 7) /\ i <= 6
        BY Z3
      <4> QED
        BY Zenon, <3>2, <4>1
    <3>4. \A i \in 7..13 : r[i] = q[i - 6]
      <4>1. \A i \in 7..13 : i \in 1..(6 + 7) /\ ~(i <= 6)
        BY Z3
      <4> QED
        BY Zenon, <3>2, <4>1
    <3>5. Len(r) = 13
      BY <3>2
    <3> QED
      BY Zenon, <3>3, <3>4, <3>5 DEF r
  <2> QED
    BY <1>1, <1>2, <2>1 DEF Questions
<1>4. \A i, j \in 1..6 : ConfirmedField[i] = ConfirmedField[j] => i = j
  <2>1. \A i \in 1..6 : i \in {1, 2, 3, 4, 5, 6}
    OBVIOUS
  <2> QED
    BY <2>1 DEF ConfirmedField
<1>5. \A i, j \in 1..7 : ChosenField[i] = ChosenField[j] => i = j
  <2>1. \A i \in 1..7 : i \in {1, 2, 3, 4, 5, 6, 7}
    OBVIOUS
  <2> QED
    BY <2>1 DEF ChosenField
<1>6. \A i \in 1..6, j \in 1..7 : ConfirmedField[i] # ChosenField[j]
  <2>1. \A i \in 1..7 : i \in {1, 2, 3, 4, 5, 6, 7}
    OBVIOUS
  <2>2. \A i \in 1..6 : i \in {1, 2, 3, 4, 5, 6}
    OBVIOUS
  <2> QED
    BY <2>1, <2>2 DEF ConfirmedField, ChosenField
<1>7. \A i \in 1..13 : i \in 1..6 \/ (i \in 7..13 /\ i - 6 \in 1..7)
  OBVIOUS
<1>8. \A i, j \in 1..13 : Questions[i] = Questions[j] => i = j
  <2> SUFFICES ASSUME NEW i \in 1..13, NEW j \in 1..13, Questions[i] = Questions[j] PROVE i = j
    OBVIOUS
  <2>1. CASE i \in 1..6 /\ j \in 1..6
    BY <1>3, <1>4, <2>1
  <2>2. CASE i \in 7..13 /\ j \in 7..13
    <3>1. i - 6 \in 1..7 /\ j - 6 \in 1..7 /\ ChosenField[i - 6] = ChosenField[j - 6]
      BY <1>3, <2>2
    <3>2. i - 6 = j - 6
      BY <1>5, <3>1
    <3> QED
      BY <3>2
  <2>3. CASE i \in 1..6 /\ j \in 7..13
    BY <1>3, <1>6, <1>7, <2>3
  <2>4. CASE i \in 7..13 /\ j \in 1..6
    BY <1>3, <1>6, <1>7, <2>4
  <2> QED
    BY <1>7, <2>1, <2>2, <2>3, <2>4
<1> QED
  BY <1>3, <1>8 DEF Asked

(* The questions up to the n-th.                                           *)
FirstAsked(n) == {Questions[i] : i \in 1..n}

(* A run asks its questions in order, and those of before ended it asked   *)
(* all; what it prints is of what it was told, and what is saved can be    *)
(* told again.                                                             *)
SessionInv ==
  /\ \E n \in 0..13 : /\ DOMAIN replies = FirstAsked(n)
                      /\ IsFiniteSet(DOMAIN replies) /\ Cardinality(DOMAIN replies) = n
                      /\ phase = "confirm" => n < 13
                      /\ phase \in {"pages", "web", "recon", "extract"} => n = 0
                      /\ phase \in {"deep", "done"} /\ mode # "rerender" => n = 13
  /\ Honest(replies)
  /\ file # Null => SavedAsSaid(file)
  /\ phase # "idle" /\ mode \in {"edit", "rerender"} => file # Null /\ company = file.company
  /\ phase = "done" /\ mode # "rerender" =>
       dossier = Dossier(company, FounderContext(company, replies), FieldStates(replies))

(* Nothing is asked yet.                                                   *)
LEMMA NoneAsked ==
  /\ DOMAIN NothingAnswered = {} /\ FirstAsked(0) = {}
  /\ IsFiniteSet(DOMAIN NothingAnswered) /\ Cardinality(DOMAIN NothingAnswered) = 0
  /\ Honest(NothingAnswered)
<1>1. DOMAIN NothingAnswered = {} /\ FirstAsked(0) = {}
  BY DEF NothingAnswered, FirstAsked
<1> QED
  BY <1>1, FS_EmptySet DEF Honest

(* A run begins with nothing asked.                                        *)
LEMMA BeginStep ==
  ASSUME SessionInv, FreshRun \/ Rerender \/ Edit PROVE SessionInv'
<1>1. replies' = NothingAnswered /\ file' = file
  BY DEF FreshRun, Rerender, Edit, Begin
<1>2. \/ mode' = "fresh" /\ phase' = "pages"
      \/ mode' = "rerender" /\ phase' = "deep" /\ file # Null /\ company' = file.company
      \/ mode' = "edit" /\ phase' = "confirm" /\ file # Null /\ company' = file.company
  BY DEF FreshRun, Rerender, Edit, Begin
<1>3. DOMAIN replies' = FirstAsked(0) /\ IsFiniteSet(DOMAIN replies')
      /\ Cardinality(DOMAIN replies') = 0 /\ Honest(replies')
  BY <1>1, NoneAsked
<1>4. 0 \in 0..13 /\ 0 < 13
  OBVIOUS
<1> QED
  BY <1>1, <1>2, <1>3, <1>4 DEF SessionInv

(* A reply is given to the next question.                                  *)
LEMMA ConfirmStep ==
  ASSUME SessionInv, NEW reply, Confirm(reply),
         reply.state \in {"confirmed", "changed", "not_sure"},
         reply.state = "not_sure" => reply.value = Null
  PROVE  SessionInv'
<1> DEFINE said == [f \in {Asking} |-> reply] ## replies
<1>1. /\ phase = "confirm" /\ replies' = said
      /\ IF Cardinality(DOMAIN said) = Len(Questions)
         THEN phase' = "deep" /\ file' = IF mode = "fresh" THEN Session(said) ELSE file
         ELSE phase' = phase /\ file' = file
      /\ mode' = mode /\ company' = company
  BY DEF Confirm
<1>2. PICK n \in 0..12 : /\ DOMAIN replies = FirstAsked(n)
                         /\ IsFiniteSet(DOMAIN replies) /\ Cardinality(DOMAIN replies) = n
  BY <1>1 DEF SessionInv
<1>3. Asking = Questions[n + 1] /\ DOMAIN said = DOMAIN replies \cup {Asking}
  BY <1>2 DEF Asking, ##
<1>4. DOMAIN said = FirstAsked(n + 1)
  BY <1>2, <1>3 DEF FirstAsked
<1>5. Asking \notin DOMAIN replies
  BY <1>2, <1>3, QuestionsApart DEF FirstAsked
<1>6. IsFiniteSet(DOMAIN said) /\ Cardinality(DOMAIN said) = n + 1
  BY <1>2, <1>3, <1>5, FS_AddElement
<1>7. Honest(said)
  <2>1. \A f \in DOMAIN said : said[f] = reply \/ (f \in DOMAIN replies /\ said[f] = replies[f])
    BY DEF ##
  <2> HIDE DEF said
  <2> QED
    BY <2>1 DEF Honest, SessionInv
<1> HIDE DEF said
<1>8. CASE n + 1 = 13
  <2>1. DOMAIN said = Asked
    BY <1>4, <1>8, QuestionsApart DEF FirstAsked
  <2>2. phase' = "deep" /\ file' = IF mode = "fresh" THEN Session(said) ELSE file
    BY <1>1, <1>6, <1>8, QuestionsApart
  <2>3. SavedAsSaid(Session(said))
    BY <1>7, <2>1 DEF SavedAsSaid, Session
  <2>4. file' # Null => SavedAsSaid(file')
    BY <2>2, <2>3 DEF SessionInv
  <2>5. mode \in {"edit", "rerender"} => file' # Null /\ company' = file'.company
    BY <1>1, <2>2 DEF SessionInv
  <2>6. DOMAIN replies' = FirstAsked(13) /\ IsFiniteSet(DOMAIN replies')
        /\ Cardinality(DOMAIN replies') = 13 /\ Honest(replies')
    BY <1>1, <1>4, <1>6, <1>7, <1>8
  <2> QED
    BY <1>1, <2>2, <2>4, <2>5, <2>6 DEF SessionInv
<1>9. CASE n + 1 < 13
  <2>1. phase' = "confirm" /\ file' = file
    BY <1>1, <1>6, <1>9, QuestionsApart
  <2>2. /\ n + 1 \in 0..13 /\ DOMAIN replies' = FirstAsked(n + 1) /\ IsFiniteSet(DOMAIN replies')
        /\ Cardinality(DOMAIN replies') = n + 1 /\ Honest(replies')
    BY <1>1, <1>4, <1>6, <1>7
  <2> QED
    BY <1>1, <1>9, <2>1, <2>2 DEF SessionInv
<1> QED
  BY <1>8, <1>9

(* Every step keeps the questions in order and the file as it was said.    *)
LEMMA SessionStep ==
  ASSUME SessionInv, [CliNext]_cliVars PROVE SessionInv'
<1>1. CASE FreshRun \/ Rerender \/ Edit
  BY <1>1, BeginStep
<1>2. CASE UsualAnswer
  <2>1. /\ Confirm(UsualReply(Asking)) /\ UsualReply(Asking).state = "confirmed"
    BY <1>2 DEF UsualAnswer, UsualReply, Enter, Reply
  <2> QED
    BY <2>1, ConfirmStep
<1>3. CASE Depart
  <2>1. PICK reply \in Others(Asking) : Confirm(reply)
    BY <1>3 DEF Depart
  <2>2. /\ reply.state \in {"confirmed", "changed", "not_sure"}
        /\ reply.state = "not_sure" => reply.value = Null
    BY DEF Others, NotSure, Reply
  <2> QED
    BY <2>1, <2>2, ConfirmStep
<1>4. CASE Deep
  <2>1. /\ phase = "deep" /\ phase' = "done"
        /\ mode # "rerender" =>
             dossier' = Dossier(company, FounderContext(company, replies), FieldStates(replies))
        /\ UNCHANGED <<mode, company, replies, file>>
    BY <1>4 DEF Deep
  <2> QED
    BY <2>1 DEF SessionInv, Honest
<1>5. CASE Exit
  <2>1. phase' = "idle" /\ replies' = NothingAnswered /\ file' = file
    BY <1>5 DEF Exit
  <2>2. DOMAIN replies' = FirstAsked(0) /\ IsFiniteSet(DOMAIN replies')
        /\ Cardinality(DOMAIN replies') = 0 /\ Honest(replies')
    BY <2>1, NoneAsked
  <2> QED
    BY <2>1, <2>2 DEF SessionInv
<1>6. CASE ReadPages \/ AskTheWeb \/ Probe \/ Extract
  <2>1. /\ phase \in {"pages", "web", "recon", "extract"}
        /\ phase' \in {"web", "recon", "extract", "stopped", "confirm"}
        /\ UNCHANGED <<mode, company, replies, file>>
    BY <1>6 DEF ReadPages, AskTheWeb, Probe, Extract
  <2> QED
    BY <2>1 DEF SessionInv, Honest
<1>7. CASE OpenPage \/ Connect \/ Drop \/ PressStop \/ StopArrives \/ UNCHANGED cliVars
  <2>1. UNCHANGED <<phase, mode, company, replies, file, dossier>>
    BY <1>7 DEF OpenPage, Connect, Drop, PressStop, StopArrives, cliVars
  <2> QED
    BY <2>1 DEF SessionInv, Honest
<1> QED
  BY <1>1, <1>2, <1>3, <1>4, <1>5, <1>6, <1>7 DEF CliNext

(* Of any company, any replies and any number of runs, edits and           *)
(* interruptions: what is printed is of all the questions, and what is     *)
(* saved is what was said.                                                 *)
THEOREM WhatIsSavedWasSaid == CliSpec => []SessionInv
<1>1. CliInit => SessionInv
  BY NoneAsked DEF CliInit, SessionInv
<1> QED
  BY <1>1, SessionStep, PTL DEF CliSpec

(* What is printed by other than a rerender was asked to the end.          *)
LEMMA AllAsked ==
  ASSUME SessionInv, Printed, mode # "rerender"
  PROVE  /\ DOMAIN replies = Asked
         /\ dossier = Dossier(company, FounderContext(company, replies), FieldStates(replies))
  BY QuestionsApart DEF SessionInv, Printed, FirstAsked

(* "Not sure becomes UNVERIFIED, not negative evidence" (cli.mjs): to have *)
(* said "not sure" to any one question would not have lowered the score.   *)
THEOREM NotSureIsFree == CliSpec => []NotSureNeverCosts
<1>1. SessionInv => NotSureNeverCosts
  <2> SUFFICES ASSUME SessionInv, Printed, mode # "rerender", NEW f \in Asked
               PROVE  LET said == [replies EXCEPT ![f] = NotSure]
                      IN CliScore(AnalyseGaps(FounderContext(company, said), FieldStates(said)))
                           >= dossier.score
    BY Zenon DEF NotSureNeverCosts
  <2>1. DOMAIN replies = Asked
    BY AllAsked
  <2>2. dossier.score = CliScore(AnalyseGaps(FounderContext(company, replies), FieldStates(replies)))
    BY AllAsked DEF Dossier
  <2>3. LET said == [replies EXCEPT ![f] = NotSure]
        IN CliScore(AnalyseGaps(FounderContext(company, said), FieldStates(said)))
             >= CliScore(AnalyseGaps(FounderContext(company, replies), FieldStates(replies)))
    BY Zenon, <2>1, NotSureLeavesFewer
  <2> QED
    BY <2>2, <2>3
<1> QED
  BY <1>1, WhatIsSavedWasSaid, PTL

(* An edit in which the founder only pressed Enter prints the dossier of   *)
(* the saved session.                                                      *)
THEOREM EnterIsNoChange == CliSpec => []EnterKeepsTheDossier
<1>1. SessionInv => EnterKeepsTheDossier
  <2> SUFFICES ASSUME SessionInv, Printed, mode = "edit", \A f \in Asked : replies[f] = Enter(f)
               PROVE  dossier = Dossier(file.company, file.context, file.states)
    BY DEF EnterKeepsTheDossier
  <2>1. SavedAsSaid(file) /\ company = file.company
    BY DEF SessionInv, Printed
  <2> QED
    BY <2>1, AllAsked, EnterRestores
<1> QED
  BY <1>1, WhatIsSavedWasSaid, PTL
=============================================================================
