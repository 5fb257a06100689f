------------------------------- MODULE Record -------------------------------
(***************************************************************************)
(* The Record of one session: the claims a cold read infers, the founder's *)
(* answers to them in chat and in the panel, and the shortlist that the    *)
(* answers open. claims-projection.js, confirm-ceremony.js,                *)
(* handlers/record.js, shortlist.js, session-chat.js.                      *)
(*                                                                         *)
(* A chat turn runs without interruption from the message to the corpus    *)
(* lookup (Compose) and again when the reply has been streamed; panel      *)
(* requests and other turns run in between. Claims have at most one record *)
(* per field, so the field names the claim. Of the log of claim events,    *)
(* foldOne reads the last event and the last correction; these are kept.   *)
(***************************************************************************)
EXTENDS ProgramRules, Naturals, Sequences, Bags, SequencesExt, FiniteSetsExt

CONSTANTS
    Turn,          \* chat turns that may be in flight together
    Read,          \* cold reads: [recon |-> a function, signals |-> a sequence]
    Message,       \* what a founder may write, see Interpret
    Correction,    \* what a founder may type over a claim
    Register,      \* active entries of the capability register, in order
    MaxTurns,      \* bound on messages sent
    MaxTaps,       \* bound on requests from the panel
    None

(* What the compiled register is: an id names one entry, and no entry      *)
(* waits for a gap called undefined.                                       *)
ASSUME RecordAssumption ==
    \A e \in Range(Register) :
        /\ e.id # None
        /\ \A other \in Range(Register) : other.id = e.id => other = e
        /\ e.kind \in {"gaps", "expr"}
        /\ e.kind = "gaps" => "undefined" \notin e.gaps

VARIABLES
    read,            \* the cold read the session stands on
    answers,         \* field -> the fold of its claim events
    analysed,        \* trust_score is not null
    rows,            \* the moves of shortlist_records, with their copies
    declined,        \* declined_proposals
    pendingConfirm,  \* pending_confirm
    confirmVoiced,   \* pending_confirm_voiced
    pendingProposal, \* pending_proposal
    proposalVoiced,  \* pending_proposal_voiced
    asks,            \* confirm_asks
    turn,            \* the turns in flight
    sent, taps,      \* history: messages and panel requests so far
    heard,           \* history: what the last finished reply voiced
    overlapped       \* history: two turns were once in flight together

session == <<answers, analysed, rows, declined, pendingConfirm, confirmVoiced,
             pendingProposal, proposalVoiced, asks>>
vars == <<read, session, turn, sent, taps, heard, overlapped>>

-----------------------------------------------------------------------------
(* Claims: recon first, then the signals; a field is claimed once, and a   *)
(* second witness that disagrees is kept on the claim.                     *)

ReconFields == <<"infrastructure", "cdn_provider", "waf", "email_provider", "dmarc_policy">>

SignalFields == {"customer_type", "data_sensitivity", "stage", "product_type",
                 "compliance_status", "identity_model", "infrastructure",
                 "insurance_status"}

Claim(f, v) == [field |-> f, value |-> v, conflict |-> None]

AddSignal(claims, s) ==
    LET i == SelectInSeq(claims, LAMBDA c : c.field = s.field)
    IN IF s.field \notin SignalFields THEN claims
       ELSE IF i = 0 THEN Append(claims, Claim(s.field, s.value))
       ELSE IF claims[i].value = s.value THEN claims
       ELSE [claims EXCEPT ![i].conflict = s.value]

BuildInferredClaims(r) ==
    LET seen == SelectSeq(ReconFields, LAMBDA f : f \in DOMAIN r.recon)
    IN FoldLeft(AddSignal, [i \in DOMAIN seen |-> Claim(seen[i], r.recon[seen[i]])],
                r.signals)

Claims == BuildInferredClaims(read)
Fields == {Claims[i].field : i \in DOMAIN Claims}

Unanswered == [status |-> "inferred", correction |-> None]

Answer(as, f, type, value) ==
    [as EXCEPT ![f].status = type,
               ![f].correction = IF type = "corrected" THEN value ELSE @]

Testimony == {"confirmed", "corrected"}

(* The testified claims and their folded values.                           *)
Testified(as) ==
    [f \in {g \in DOMAIN as : as[g].status \in Testimony} |->
        IF as[f].correction # None THEN as[f].correction
        ELSE (CHOOSE c \in Range(Claims) : c.field = f).value]

ConfirmPriority == <<"infrastructure", "product_type", "customer_type", "stage",
                     "compliance_status", "data_sensitivity", "identity_model",
                     "insurance_status">>

MaxAsksPerClaim == 1

(* The order of nextConfirmable: the priority fields, then the rest.       *)
AskOrder ==
    ConfirmPriority \o SelectSeq([i \in DOMAIN Claims |-> Claims[i].field],
                                 LAMBDA f : f \notin Range(ConfirmPriority))

NextConfirmable(as) ==
    LET first == SelectInSeq(AskOrder, LAMBDA f : /\ f \in DOMAIN as
                                                  /\ as[f].status = "inferred"
                                                  /\ asks[f] < MaxAsksPerClaim)
    IN IF first = 0 THEN None ELSE AskOrder[first]

-----------------------------------------------------------------------------
(* What a message answers: a record of what the patterns look for. A       *)
(* question is no answer, a hedge spoils a yes and a correction, and a     *)
(* long yes is not clean testimony.                                        *)

Interpret(m) ==
    CASE m.question -> None
      [] ~m.question /\ m.opens = "no" /\ m.rest = None -> "rejected"
      [] ~m.question /\ m.opens = "no" /\ m.rest # None /\ ~m.hedged -> "corrected"
      [] ~m.question /\ m.opens = "yes" /\ ~m.hedged /\ ~m.long -> "confirmed"
      [] OTHER -> None

-----------------------------------------------------------------------------
(* Proposals. The gaps of a session carry gap_id, and openGapIds reads id: *)
(* every open gap counts as undefined, so an entry that waits for a gap is *)
(* never proposed.                                                         *)

OpenGapIds == IF analysed THEN {"undefined"} ELSE {}

EntryFires(e, testified) ==
    CASE e.kind = "gaps" -> e.gaps \cap OpenGapIds # {}
      [] e.kind = "expr" -> Fires(e.trigger, testified)

Row(e) == [item |-> e.title, trigger |-> e.id]
Taken(rs, ds) == {r.trigger : r \in BagToSet(rs)} \cup ds

(* The places in the register of the entries that are open; the first one  *)
(* is the one to raise.                                                    *)
LiveProposals(as, rs, ds) ==
    IF DOMAIN Testified(as) = {} THEN {}
    ELSE {i \in DOMAIN Register : /\ EntryFires(Register[i], Testified(as))
                                 /\ Register[i].id \notin Taken(rs, ds)}

IsLive(p, as, rs, ds) == \E i \in LiveProposals(as, rs, ds) : Register[i].id = p
Entry(p) == CHOOSE e \in Range(Register) : e.id = p
Copies(r, rs) == IF BagIn(r, rs) THEN rs[r] ELSE 0
Keep(rs, r) == rs (+) SetToBag({r})

(* Mutant: every accept appends a move, as it did before August 2026.      *)
KeptAgain(p, as, rs, ds) == Keep(rs, Row(Entry(p)))

(* acceptProposal: nothing if it is there already or no longer open.       *)
AcceptProposal(p, as, rs, ds) ==
    IF p \in {r.trigger : r \in BagToSet(rs)} \/ ~IsLive(p, as, rs, ds)
    THEN rs ELSE Keep(rs, Row(Entry(p)))

-----------------------------------------------------------------------------
Idle == [at |-> "idle", message |-> None, claim |-> None, proposal |-> None]

Init ==
    /\ read \in Read
    /\ answers = [f \in Fields |-> Unanswered]
    /\ analysed = FALSE
    /\ rows = EmptyBag
    /\ declined = {}
    /\ pendingConfirm = None /\ confirmVoiced = FALSE
    /\ pendingProposal = None /\ proposalVoiced = FALSE
    /\ asks = [f \in Fields |-> 0]
    /\ turn = [t \in Turn |-> Idle]
    /\ sent = 0 /\ taps = 0
    /\ heard = [claim |-> None, proposal |-> None]
    /\ overlapped = FALSE

(* Mutant: an answer counts whether or not the question was voiced.        *)
AnsweredUnheard(m) ==
    IF /\ pendingConfirm # None
       /\ answers[pendingConfirm].status = "inferred"
       /\ Interpret(m) # None
    THEN pendingConfirm ELSE None

(* The claim a message may answer: still open, and voiced last time.       *)
AnsweredClaim(m) ==
    IF /\ pendingConfirm # None
       /\ answers[pendingConfirm].status = "inferred"
       /\ confirmVoiced
       /\ Interpret(m) # None
    THEN pendingConfirm ELSE None

(* Mutant: a claim answered in the panel stays pending.                    *)
PendingThoughSettled(m) ==
    IF pendingConfirm # None /\ Interpret(m) = None THEN pendingConfirm ELSE None

(* pending_confirm survives a message only if it was voiced and is open.   *)
StillPending(m) ==
    IF /\ pendingConfirm # None
       /\ answers[pendingConfirm].status = "inferred"
       /\ confirmVoiced
       /\ Interpret(m) = None
    THEN pendingConfirm ELSE None

(* A proposal outranks a confirm question: only one of them stands.        *)
ClaimToAsk(m, as, proposal) ==
    IF proposal # None THEN None
    ELSE IF StillPending(m) # None THEN StillPending(m)
    ELSE NextConfirmable(as)

(* sessionChatHandler from the capture of an answer to the corpus lookup.  *)
Compose(t, m) ==
    LET c == AnsweredClaim(m)
        as == IF c = None THEN answers
              ELSE Answer(answers, c, Interpret(m), m.rest)
        p == IF pendingProposal # None /\ IsLive(pendingProposal, as, rows, declined)
             THEN pendingProposal ELSE None
        answered == p # None /\ proposalVoiced /\ Interpret(m) # None
        rs == IF answered /\ Interpret(m) = "confirmed"
              THEN AcceptProposal(p, as, rows, declined) ELSE rows
        ds == IF answered /\ Interpret(m) # "confirmed"
              THEN declined \cup {p} ELSE declined
        live == LiveProposals(as, rs, ds)
        proposal == IF p # None /\ ~answered THEN p
                    ELSE IF live # {} THEN Register[Min(live)].id ELSE None
        claim == ClaimToAsk(m, as, proposal)
    IN /\ answers' = as
       /\ rows' = rs
       /\ declined' = ds
       /\ pendingProposal' = proposal
       /\ pendingConfirm' = claim
       /\ confirmVoiced' = FALSE
       /\ proposalVoiced' = FALSE
       /\ turn' = [turn EXCEPT ![t] = [at |-> "replying", message |-> None,
                                       claim |-> claim, proposal |-> proposal]]
       /\ UNCHANGED asks

Busy == {t \in Turn : turn[t].at # "idle"}

(* A message arrives. Before the first analysis the turn runs it.          *)
Send(t, m) ==
    /\ turn[t] = Idle
    /\ sent < MaxTurns
    /\ sent' = sent + 1
    /\ overlapped' = (overlapped \/ Busy # {})
    /\ IF analysed
       THEN Compose(t, m) /\ UNCHANGED analysed
       ELSE /\ turn' = [turn EXCEPT ![t].at = "analysing", ![t].message = m]
            /\ UNCHANGED session
    /\ UNCHANGED <<read, taps, heard>>

AnalysisBack(t) ==
    /\ turn[t].at = "analysing"
    /\ analysed' = TRUE
    /\ Compose(t, turn[t].message)
    /\ UNCHANGED <<read, sent, taps, heard, overlapped>>

(* The analysis threw: the request fails and leaves nothing.               *)
AnalysisFails(t) ==
    /\ turn[t].at = "analysing"
    /\ turn' = [turn EXCEPT ![t] = Idle]
    /\ UNCHANGED <<read, session, sent, taps, heard, overlapped>>

(* questionWasVoiced and proposalWasVoiced: without something to ask, no;  *)
(* else what the model wrote decides.                                      *)
MayVoice(asked) == {FALSE, asked # None}

(* The reply was streamed; it voiced the question it was given, or not.    *)
ReplyDone(t) ==
    /\ turn[t].at = "replying"
    /\ \E voicedClaim \in MayVoice(turn[t].claim),
          voicedProposal \in MayVoice(turn[t].proposal) :
          /\ confirmVoiced' = voicedClaim
          /\ proposalVoiced' = voicedProposal
          /\ asks' = IF voicedClaim THEN [asks EXCEPT ![turn[t].claim] = @ + 1] ELSE asks
          /\ heard' = [claim |-> IF voicedClaim THEN turn[t].claim ELSE None,
                       proposal |-> IF voicedProposal THEN turn[t].proposal ELSE None]
    /\ turn' = [turn EXCEPT ![t] = Idle]
    /\ UNCHANGED <<read, answers, analysed, rows, declined, pendingConfirm,
                   pendingProposal, sent, taps, overlapped>>

(* The stream failed or stayed empty, or the message went to John.         *)
ReplyWithout(t) ==
    /\ turn[t].at = "replying"
    /\ heard' = [claim |-> None, proposal |-> None]
    /\ turn' = [turn EXCEPT ![t] = Idle]
    /\ UNCHANGED <<read, session, sent, taps, overlapped>>

(* The panel. Tap is what its requests have in common.                     *)
Tap ==
    /\ taps < MaxTaps
    /\ taps' = taps + 1
    /\ UNCHANGED <<read, analysed, confirmVoiced, proposalVoiced, pendingConfirm,
                   asks, turn, sent, heard, overlapped>>

ClaimAnswer ==
    /\ Tap
    /\ \E f \in Fields, type \in {"confirmed", "corrected", "rejected", "unknown"},
          v \in Correction :
          answers' = Answer(answers, f, type, v)
    /\ UNCHANGED <<rows, declined, pendingProposal>>

ProposalAccept ==
    /\ Tap
    /\ \E p \in {e.id : e \in Range(Register)} :
          rows' = AcceptProposal(p, answers, rows, declined)
    /\ UNCHANGED <<answers, declined, pendingProposal>>

ProposalDecline ==
    /\ Tap
    /\ \E p \in {e.id : e \in Range(Register)} :
          /\ declined' = declined \cup {p}
          /\ pendingProposal' = IF pendingProposal = p THEN None ELSE pendingProposal
    /\ UNCHANGED <<answers, rows>>

(* shortlistAddHandler: anything by name, once per name.                   *)
ShortlistAdd ==
    /\ Tap
    /\ \E e \in Range(Register) :
          rows' = IF e.title \in {r.item : r \in BagToSet(rows)} THEN rows
                  ELSE Keep(rows, [item |-> e.title, trigger |-> None])
    /\ UNCHANGED <<answers, declined, pendingProposal>>

Next ==
    \/ \E t \in Turn :
          \/ \E m \in Message : Send(t, m)
          \/ AnalysisBack(t)
          \/ AnalysisFails(t)
          \/ ReplyDone(t)
          \/ ReplyWithout(t)
    \/ ClaimAnswer
    \/ ProposalAccept
    \/ ProposalDecline
    \/ ShortlistAdd

Spec == Init /\ [][Next]_vars

-----------------------------------------------------------------------------
(* Properties.                                                             *)

(* A chat message testifies to a claim, or keeps or declines a proposal,   *)
(* only if the reply before it voiced that very question: a yes to         *)
(* something else is never forged into testimony. Of turns that never      *)
(* overlapped; see the README for those that did.                          *)
TestimonyWasAsked ==
    [][overlapped' \/ taps' # taps \/
         /\ \A f \in Fields : answers'[f] # answers[f] => heard.claim = f
         /\ rows' # rows \/ declined' # declined => heard.proposal = pendingProposal]_vars

(* However the requests interleave, a row enters the shortlist under a     *)
(* proposal at most once, never after the proposal was declined, and only  *)
(* on testimony: the fields its trigger reads have been confirmed or       *)
(* corrected by the founder at that moment.                                *)
KeptOnceOnTestimony ==
    [][\A e \in Range(Register) :
         Copies(Row(e), rows') # Copies(Row(e), rows) =>
            /\ Copies(Row(e), rows') = 1
            /\ e.id \notin declined
            /\ e.kind = "expr"
            /\ \A c \in e.trigger :
                  c.field \in Fields /\ answers'[c.field].status \in Testimony]_vars

(* What the founder has settled, in chat or in the panel, stands: no reply *)
(* composed afterwards is given that claim to ask, and no message changes  *)
(* the answer. A reply already composed, that waits for the corpus or is   *)
(* being streamed, still puts the question it was given; the yes to it     *)
(* then changes nothing.                                                   *)
SettledStands ==
    [][/\ \A t \in Turn :
            turn'[t] # turn[t] /\ turn'[t].claim # None =>
               answers'[turn'[t].claim].status = "inferred"
       /\ taps' = taps =>
            \A f \in Fields : answers[f].status # "inferred" => answers'[f] = answers[f]]_vars
=============================================================================
