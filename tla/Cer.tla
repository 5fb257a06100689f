-------------------------------- MODULE Cer --------------------------------
(***************************************************************************)
(* The CERs of one founder profile, as the handlers of handlers/cer.js,    *)
(* handlers/partner-cers.js and handlers/session-attach.js drive them.     *)
(*                                                                         *)
(* Every handler first replays the log and evaluates its gate on the       *)
(* projection (replayProfile awaits file reads and takes no lock), then    *)
(* appends one transaction (appendTransaction, under profile.lock). Other  *)
(* requests run between the two, so each handler is two steps here: Begin* *)
(* reads, gates and leaves the records to append in the request's slot,    *)
(* AppendTransaction commits them. A refusal (400, 404, 409, 425) changes  *)
(* nothing and has no action.                                              *)
(*                                                                         *)
(* The state of a CER is the fold of its records, carried here one record  *)
(* at a time; CerLog keeps the log itself and folds at read time as the    *)
(* code does, and is proved to implement this module in MemoryStoreProofs. *)
(***************************************************************************)
EXTENDS CerRecords

CONSTANTS
  Request,    \* slots for requests in flight in the API process
  Session,    \* cold-read sessions bound to this profile
  NoTx        \* an idle slot

VARIABLES
  cer,        \* cer[c]: the projection of c's records in the log
  pending,    \* pending[r]: the transaction r is about to append, or NoTx
  shortlist,  \* shortlist[s]: CERs in session s's shortlist_records buffer
  minted,     \* CER ids handed out so far
  disclosed,  \* <<p, c>>: partner p was sent the founder's contact for c
  granted     \* history, <<p, c>>: the founder granted p's ask on c

vars == <<cer, pending, shortlist, minted, disclosed, granted>>

(* A transaction: the CERs it carries a record for, and that record.       *)
Tx == [cers : SUBSET Cer, event : Event]

ASSUME NoTxAssumption == NoTx \notin Tx

(* Projections, transactions in flight and history are well formed. *)
TypeOK ==
  /\ cer \in [Cer -> CerView]
  /\ pending \in [Request -> Tx \cup {NoTx}]
  /\ shortlist \in [Session -> SUBSET Cer]
  /\ minted \in SUBSET Cer
  /\ disclosed \in SUBSET (Partner \X Cer)
  /\ granted \in SUBSET (Partner \X Cer)

Shortlisted == UNION {shortlist[s] : s \in Session}

Init ==
  /\ cer = [c \in Cer |-> AbsentCer]
  /\ pending = [r \in Request |-> NoTx]
  /\ shortlist = [s \in Session |-> {}]
  /\ minted = {}
  /\ disclosed = {}
  /\ granted = {}

-----------------------------------------------------------------------------

Hold(r, cers, e) ==
  /\ pending[r] = NoTx
  /\ pending' = [pending EXCEPT ![r] = [cers |-> cers, event |-> e]]

(* acceptProposal, shortlistAddHandler: a Move is minted into the session, *)
(* synchronously; it reaches the profile's log when the session attaches.  *)
ShortlistAdd(s, c) ==
  /\ c \notin minted
  /\ minted' = minted \cup {c}
  /\ shortlist' = [shortlist EXCEPT ![s] = @ \cup {c}]
  /\ UNCHANGED <<cer, pending, disclosed, granted>>

(* cerCreateHandler *)
BeginCreate(r, c) ==
  /\ c \notin minted
  /\ minted' = minted \cup {c}
  /\ Hold(r, {c}, CerCreated)
  /\ UNCHANGED <<cer, shortlist, disclosed, granted>>

(* sessionAttachHandler: the whole buffer is appended, on every attach of  *)
(* a session this profile already owns as much as on the first one. An     *)
(* empty buffer appends no CER record.                                     *)
BeginAttach(r, s) ==
  /\ shortlist[s] # {}
  /\ Hold(r, shortlist[s], CerCreated)
  /\ UNCHANGED <<cer, shortlist, minted, disclosed, granted>>

(* cerConsentWithdrawHandler: the CER must exist, nothing else. *)
BeginConsentWithdraw(r, c) ==
  /\ cer[c].exists
  /\ Hold(r, {c}, ConsentWithdrawn)
  /\ UNCHANGED <<cer, shortlist, minted, disclosed, granted>>

(* cerStatusHandler *)
BeginStatus(r, c, to) ==
  /\ CanSetStatus(cer[c], to)
  /\ Hold(r, {c}, StatusUpdated(to))
  /\ UNCHANGED <<cer, shortlist, minted, disclosed, granted>>

(* cerIntroductionHandler *)
BeginFounderIntroduction(r, c) ==
  /\ \E type \in FounderIntroductionEvents :
       FounderMayAppend(cer[c], type) /\ Hold(r, {c}, FounderIntroduction(type))
  /\ UNCHANGED <<cer, shortlist, minted, disclosed, granted>>

(* partnerIntroductionHandler *)
BeginPartnerIntroduction(r, p, c) ==
  /\ \E type \in PartnerIntroductionEvents :
       /\ PartnerMayAppend(cer[c], c, p, type)
       /\ Hold(r, {c}, PartnerIntroduction(type, p))
  /\ UNCHANGED <<cer, shortlist, minted, disclosed, granted>>

(* The founder's own grant, met by a standing ask. *)
GrantTakesEffect(v, e) ==
  /\ e.type = "introduction-granted"
  /\ e.actor = "founder"
  /\ v.introduction.state = "asked"

(* appendTransaction commits: each record extends its CER's fold. *)
AppendTransaction(r) ==
  /\ pending[r] # NoTx
  /\ LET tx == pending[r] IN
       /\ cer' = [c \in Cer |->
                   IF c \in tx.cers THEN ApplyEvent(cer[c], tx.event)
                                    ELSE cer[c]]
       /\ granted' = granted \cup
            {<<cer[c].introduction.partner, c>> :
               c \in {d \in tx.cers : GrantTakesEffect(cer[d], tx.event)}}
  /\ pending' = [pending EXCEPT ![r] = NoTx]
  /\ UNCHANGED <<shortlist, minted, disclosed>>

(* The append does not happen: memory_lock_timeout, a failed write, or the *)
(* process is replaced while the request waits.                            *)
Abort(r) ==
  /\ pending[r] # NoTx
  /\ pending' = [pending EXCEPT ![r] = NoTx]
  /\ UNCHANGED <<cer, shortlist, minted, disclosed, granted>>

(* partnerCersListHandler, partnerCerDetailHandler and the reply of        *)
(* partnerIntroductionHandler: p is sent its visible CERs, each with the   *)
(* founder's contact if the projection just read shows it.                 *)
PartnerView(p) ==
  /\ disclosed' = disclosed \cup
       {<<p, c>> : c \in {d \in Cer : ContactShown(cer[d], d, p)}}
  /\ UNCHANGED <<cer, pending, shortlist, minted, granted>>

-----------------------------------------------------------------------------

Handle(r) ==
  \/ \E c \in Cer : BeginCreate(r, c)
  \/ \E s \in Session : BeginAttach(r, s)
  \/ \E c \in Cer : BeginConsentWithdraw(r, c)
  \/ \E c \in Cer, to \in CerStatus : BeginStatus(r, c, to)
  \/ \E c \in Cer : BeginFounderIntroduction(r, c)
  \/ \E p \in Partner, c \in Cer : BeginPartnerIntroduction(r, p, c)
  \/ AppendTransaction(r)
  \/ Abort(r)

Next ==
  \/ \E r \in Request : Handle(r)
  \/ \E s \in Session, c \in Cer : ShortlistAdd(s, c)
  \/ \E p \in Partner : PartnerView(p)

Spec == Init /\ [][Next]_vars

-----------------------------------------------------------------------------
(* Properties.                                                             *)

(* CONSENT-BOTH-ENDS-001: a partner has only ever been sent the founder's  *)
(* contact for a CER routed to it whose ask the founder granted, whatever  *)
(* requests of the two ends overlapped ("nothing is revealed by a          *)
(* partner-side click, ever").                                             *)
ContactNeedsBothEnds ==
  \A p \in Partner, c \in Cer :
    <<p, c>> \in disclosed => p = RoutePartner[c] /\ <<p, c>> \in granted

(* A live ask or grant always belongs to the partner the CER is routed to. *)
EdgeBelongsToRoute ==
  \A c \in Cer :
    cer[c].introduction.state \in {"asked", "granted"} =>
      cer[c].introduction.partner = RoutePartner[c]

(* One step of DirectConsentFinal. *)
DirectConsentKept ==
  \A c \in Cer :
    cer[c].consent = "withdrawn" /\ c \notin Shortlisted =>
      cer'[c].consent = "withdrawn"

(* The consent of a CER that never sat in a session's shortlist is final:  *)
(* no order of overlapping requests gives it back once withdrawn. (A       *)
(* shortlisted CER's consent is given back by re-attaching its session.)   *)
DirectConsentFinal == [][DirectConsentKept]_vars

(* One step of ClosedEdgeOnlyReopenedByAsk. *)
ClosedEdgeKept ==
  \A c \in Cer :
    cer[c].introduction.state \notin {"asked", "granted"} =>
      cer'[c].introduction \in
        {cer[c].introduction,
         [state |-> "asked", partner |-> RoutePartner[c]]}

(* An answer that lost a race revives nothing: an edge that is not live    *)
(* changes only by the routed partner asking (foldIntroduction's guards).  *)
ClosedEdgeOnlyReopenedByAsk == [][ClosedEdgeKept]_vars

(* The promise of CerPromise, read off the projections.                    *)
PromisedConsent ==
  [c \in Cer |-> IF cer[c].exists THEN cer[c].consent ELSE "absent"]

PromisedStatus == [c \in Cer |-> cer[c].admin_status]

PromisedEdge == [c \in Cer |-> cer[c].introduction.state]

Promise == INSTANCE CerPromise WITH
  consent <- PromisedConsent, status <- PromisedStatus, edge <- PromisedEdge

(* What overtook a request: its handler read v before somebody else's      *)
(* append, and this record would not have passed the gate on the v it now  *)
(* meets. A late withdrawal and a late answer to an edge already closed    *)
(* are not here: StepIntroduction drops the one and the other.             *)
Overtaken(v, e) ==
  \/ e.type = "created" /\ v.exists /\ v.consent = "withdrawn"
  \/ e.type = "status-updated" /\ ~CanSetStatus(v, e.to)
  \/ /\ e.type = "introduction-requested"
     /\ (v.consent = "withdrawn" \/ v.introduction.state = "granted")
  \/ /\ e.type \in {"introduction-granted", "introduction-declined"}
     /\ v.consent = "withdrawn"

(* The step commits a record whose gate was overtaken. *)
CommitsOvertaken ==
  \E r \in Request :
    /\ AppendTransaction(r)
    /\ \E c \in pending[r].cers : Overtaken(cer[c], pending[r].event)

(* One step of PromiseUnlessOvertaken. *)
PromiseKept == CommitsOvertaken \/ [Promise!Next]_(Promise!vars)

(* However requests overlap and sessions re-attach, every step is a step   *)
(* of the promise, or invisible to it, but for four: an admin status, an   *)
(* ask or an answer committed after the consent it was gated on was        *)
(* withdrawn (or the status moved, or the ask it repeats was granted), and *)
(* a re-attach of a withdrawn CER. Those four the code does let through,   *)
(* the first against cerStatusHandler's own "terminal for admin            *)
(* transitions"; no other order of appends is worse than the promise.      *)
PromiseUnlessOvertaken == [][PromiseKept]_vars

(* The strengthening the proofs need: who minted what, what a slot may     *)
(* hold, and where a standing grant came from.                             *)
MintedInv ==
  /\ \A c \in Cer : cer[c].exists \/ c \in Shortlisted => c \in minted
  /\ \A c \in Cer : ~cer[c].exists => cer[c] = AbsentCer

PendingInv ==
  \A r \in Request : pending[r] # NoTx =>
    LET tx == pending[r] IN
      /\ tx.event.type # "created" => \A c \in tx.cers : cer[c].exists
      /\ tx.event.type = "created" =>
           /\ tx.cers \subseteq minted
           /\ \A c \in tx.cers : c \notin Shortlisted =>
                /\ ~cer[c].exists
                /\ \A q \in Request \ {r} :
                     pending[q] # NoTx => c \notin pending[q].cers
      /\ tx.event.type = "introduction-requested" =>
           \A c \in tx.cers : tx.event.partner = RoutePartner[c]
      /\ tx.event.type = "introduction-granted" =>
           tx.event.actor = "founder"

GrantInv ==
  \A c \in Cer :
    cer[c].introduction.state = "granted" =>
      <<cer[c].introduction.partner, c>> \in granted

(* The inductive invariant: every conjunct above, together. *)
IInv ==
  /\ TypeOK
  /\ MintedInv
  /\ PendingInv
  /\ EdgeBelongsToRoute
  /\ GrantInv
  /\ ContactNeedsBothEnds
=============================================================================
