----------------------------- MODULE CerProofs -----------------------------
(***************************************************************************)
(* Theorems about Cer, for every set of CERs, partners, request slots and  *)
(* sessions. One inductive invariant, IInv, carries all of them. That the  *)
(* stored log implements Cer is proved in MemoryStoreProofs.               *)
(***************************************************************************)
EXTENDS Cer, TLAPS

(* The constants' assumptions, under one name. *)
LEMMA Constants ==
  /\ NoPartner \notin Partner
  /\ RoutePartner \in [Cer -> Partner]
  /\ NoTx \notin Tx
BY NoPartnerAssumption, RoutePartnerAssumption, NoTxAssumption

-----------------------------------------------------------------------------
(* Lemmas about the operators.                                             *)

(* Folding one introduction record yields an introduction. *)
LEMMA StepIntroductionType ==
  ASSUME NEW i \in Introduction, NEW e \in Event
  PROVE  StepIntroduction(i, e) \in Introduction
BY DEF StepIntroduction, Introduction, IntroductionState, Event

(* Folding one record into a projection yields a projection. *)
LEMMA ApplyEventType ==
  ASSUME NEW v \in CerView, NEW e \in Event
  PROVE  ApplyEvent(v, e) \in CerView
<1>1. StepIntroduction(v.introduction, e) \in Introduction
  BY StepIntroductionType DEF CerView
<1>2. e.to \in CerStatus
  BY DEF Event
<1> QED
  BY <1>1, <1>2 DEF ApplyEvent, CerView

(* A CER exists from its decision on; no record takes that back. *)
LEMMA ApplyEventExists ==
  ASSUME NEW v \in CerView, NEW e \in Event
  PROVE  ApplyEvent(v, e).exists <=> v.exists \/ e.type = "created"
BY DEF ApplyEvent

(* The other fields, one fact each: no record but a creation gives consent *)
(* back, and the introduction folds on its own.                            *)
LEMMA ApplyEventConsent ==
  ASSUME NEW v, NEW e, e.type # "created", v.consent = "withdrawn"
  PROVE  ApplyEvent(v, e).consent = "withdrawn"
BY DEF ApplyEvent

(* What a record does to the introduction does not depend on the rest.     *)
LEMMA ApplyEventIntroduction ==
  ASSUME NEW v, NEW e
  PROVE  ApplyEvent(v, e).introduction = StepIntroduction(v.introduction, e)
BY DEF ApplyEvent

(* The records the handlers build are events. *)
LEMMA RecordsAreEvents ==
  /\ CerCreated \in Event
  /\ ConsentWithdrawn \in Event
  /\ \A to \in CerStatus : StatusUpdated(to) \in Event
  /\ \A t \in FounderIntroductionEvents : FounderIntroduction(t) \in Event
  /\ \A p \in Partner, t \in PartnerIntroductionEvents :
       PartnerIntroduction(t, p) \in Event
BY DEF CerCreated, ConsentWithdrawn, StatusUpdated, FounderIntroduction,
       PartnerIntroduction, FounderIntroductionEvents,
       PartnerIntroductionEvents, Event, EventType, CerStatus

(* An introduction becomes granted only by a grant met in "asked".         *)
LEMMA GrantOnlyFromAsked ==
  ASSUME NEW i \in Introduction, NEW e \in Event,
         StepIntroduction(i, e).state = "granted", i.state # "granted"
  PROVE  /\ e.type = "introduction-granted"
         /\ i.state = "asked"
         /\ StepIntroduction(i, e).partner = i.partner
BY DEF StepIntroduction, Introduction, Event, EventType, IntroductionState

(* A live edge keeps its partner, or takes the one that just asked.        *)
LEMMA LiveEdgePartner ==
  ASSUME NEW i \in Introduction, NEW e \in Event,
         StepIntroduction(i, e).state \in {"asked", "granted"}
  PROVE  \/ /\ e.type = "introduction-requested"
            /\ StepIntroduction(i, e) = [state |-> "asked",
                                         partner |-> e.partner]
         \/ /\ i.state \in {"asked", "granted"}
            /\ StepIntroduction(i, e).partner = i.partner
BY DEF StepIntroduction, Introduction, Event, EventType, IntroductionState

-----------------------------------------------------------------------------
(* The invariant.                                                          *)

(* The invariant holds of an empty profile.                                *)
LEMMA InitIInv == Init => IInv
<1> SUFFICES ASSUME Init PROVE IInv
  OBVIOUS
<1>1. AbsentCer \in CerView
  BY DEF AbsentCer, CerView, CerStatus, Introduction, IntroductionState,
         EmptyIntroduction
<1>2. TypeOK
  BY <1>1 DEF Init, TypeOK
<1>3. MintedInv
  BY DEF Init, MintedInv, Shortlisted, AbsentCer
<1>4. PendingInv
  BY DEF Init, PendingInv
<1>5. EdgeBelongsToRoute /\ GrantInv /\ ContactNeedsBothEnds
  BY DEF Init, EdgeBelongsToRoute, GrantInv, ContactNeedsBothEnds, AbsentCer,
         EmptyIntroduction
<1> QED
  BY <1>2, <1>3, <1>4, <1>5 DEF IInv

(* Type correctness, one step per action. *)
LEMMA StepTypeOK ==
  ASSUME IInv, [Next]_vars
  PROVE  TypeOK'
<1> USE DEF TypeOK
<1>a. TypeOK
  BY DEF IInv
<1>1. ASSUME NEW s \in Session, NEW c \in Cer, ShortlistAdd(s, c)
      PROVE  TypeOK'
  BY <1>1, <1>a DEF ShortlistAdd
<1>2. ASSUME NEW r \in Request, NEW cers \in SUBSET Cer, NEW e \in Event,
             Hold(r, cers, e)
      PROVE  pending' \in [Request -> Tx \cup {NoTx}]
  BY <1>2, <1>a DEF Hold, Tx
<1>3. ASSUME NEW r \in Request, NEW c \in Cer, BeginCreate(r, c)
      PROVE  TypeOK'
  BY <1>3, <1>2, <1>a, RecordsAreEvents DEF BeginCreate
<1>4. ASSUME NEW r \in Request, NEW s \in Session, BeginAttach(r, s)
      PROVE  TypeOK'
  BY <1>4, <1>2, <1>a, RecordsAreEvents DEF BeginAttach
<1>5. ASSUME NEW r \in Request, NEW c \in Cer, BeginConsentWithdraw(r, c)
      PROVE  TypeOK'
  BY <1>5, <1>2, <1>a, RecordsAreEvents DEF BeginConsentWithdraw
<1>6. ASSUME NEW r \in Request, NEW c \in Cer, NEW to \in CerStatus,
             BeginStatus(r, c, to)
      PROVE  TypeOK'
  BY <1>6, <1>2, <1>a, RecordsAreEvents DEF BeginStatus
<1>7. ASSUME NEW r \in Request, NEW c \in Cer, BeginFounderIntroduction(r, c)
      PROVE  TypeOK'
  BY <1>7, <1>2, <1>a, RecordsAreEvents DEF BeginFounderIntroduction
<1>8. ASSUME NEW r \in Request, NEW p \in Partner, NEW c \in Cer,
             BeginPartnerIntroduction(r, p, c)
      PROVE  TypeOK'
  BY <1>8, <1>2, <1>a, RecordsAreEvents DEF BeginPartnerIntroduction
<1>9. ASSUME NEW r \in Request, AppendTransaction(r)
      PROVE  TypeOK'
  <2> DEFINE tx == pending[r]
  <2>1. tx \in Tx
    BY <1>9, <1>a DEF AppendTransaction
  <2>2. tx.event \in Event /\ tx.cers \in SUBSET Cer
    BY <2>1 DEF Tx
  <2>3. cer' \in [Cer -> CerView]
    <3>1. \A c \in Cer : ApplyEvent(cer[c], tx.event) \in CerView
      BY <2>2, <1>a, ApplyEventType
    <3> QED
      BY <3>1, <1>9, <1>a DEF AppendTransaction
  <2>4. granted' \in SUBSET (Partner \X Cer)
    <3>1. \A c \in tx.cers : GrantTakesEffect(cer[c], tx.event) =>
            cer[c].introduction.partner \in Partner
      BY <2>2, RoutePartnerAssumption
         DEF IInv, EdgeBelongsToRoute, GrantTakesEffect
    <3> QED
      BY <3>1, <2>2, <1>9, <1>a DEF AppendTransaction
  <2>5. pending' \in [Request -> Tx \cup {NoTx}]
    BY <1>9, <1>a DEF AppendTransaction
  <2> QED
    BY <2>3, <2>4, <2>5, <1>9, <1>a DEF AppendTransaction
<1>10. ASSUME NEW r \in Request, Abort(r)
       PROVE  TypeOK'
  BY <1>10, <1>a DEF Abort
<1>11. ASSUME NEW p \in Partner, PartnerView(p)
       PROVE  TypeOK'
  BY <1>11, <1>a DEF PartnerView
<1>12. CASE UNCHANGED vars
  BY <1>12, <1>a DEF vars
<1> QED
  BY <1>1, <1>3, <1>4, <1>5, <1>6, <1>7, <1>8, <1>9, <1>10, <1>11, <1>12
     DEF Next, Handle

(* What a request may do to the parts of the state an invariant reads:     *)
(* only AppendTransaction changes a projection or the grant history, and   *)
(* it does so by folding the record its slot held.                         *)
LEMMA AppendEffect ==
  ASSUME IInv, NEW r \in Request, AppendTransaction(r)
  PROVE  /\ pending[r] \in Tx
         /\ pending[r].event \in Event
         /\ pending[r].cers \subseteq Cer
         /\ \A c \in Cer : cer'[c] = IF c \in pending[r].cers
                                     THEN ApplyEvent(cer[c], pending[r].event)
                                     ELSE cer[c]
         /\ \A q \in Request : pending'[q] = IF q = r THEN NoTx ELSE pending[q]
         /\ granted \subseteq granted'
BY DEF AppendTransaction, IInv, TypeOK, Tx

(* A slot that is filled holds exactly the records its handler built.      *)
LEMMA HoldEffect ==
  ASSUME IInv, NEW r \in Request, NEW cers \in SUBSET Cer, NEW e \in Event,
         Hold(r, cers, e)
  PROVE  /\ pending[r] = NoTx
         /\ pending'[r] = [cers |-> cers, event |-> e]
         /\ \A q \in Request \ {r} : pending'[q] = pending[q]
         /\ pending'[r].event = e /\ pending'[r].cers = cers
BY DEF Hold, IInv, TypeOK, Tx

(* A step keeps what exists or is held among the minted.                   *)
LEMMA StepMintedInv ==
  ASSUME IInv, [Next]_vars
  PROVE  MintedInv'
<1> USE DEF MintedInv
<1>a. MintedInv /\ TypeOK /\ PendingInv
  BY DEF IInv
<1>1. ASSUME NEW s \in Session, NEW c \in Cer, ShortlistAdd(s, c)
      PROVE  MintedInv'
  <2>1. \A d \in Cer : d \in Shortlisted' => d \in Shortlisted \/ d = c
    BY <1>1, <1>a DEF ShortlistAdd, Shortlisted, TypeOK
  <2> QED
    BY <2>1, <1>1, <1>a DEF ShortlistAdd
<1>2. ASSUME UNCHANGED <<cer, shortlist>>, minted \subseteq minted'
      PROVE  MintedInv'
  BY <1>2, <1>a DEF Shortlisted
<1>3. ASSUME NEW r \in Request, AppendTransaction(r)
      PROVE  MintedInv'
  <2>1. UNCHANGED <<shortlist, minted>>
    BY <1>3 DEF AppendTransaction
  <2>2. \A c \in Cer : cer'[c].exists \/ c \in Shortlisted => c \in minted
    <3> TAKE c \in Cer
    <3>1. CASE c \in pending[r].cers /\ pending[r].event.type = "created"
      BY <3>1, <1>a, <1>3 DEF PendingInv, AppendTransaction
    <3>2. CASE c \in pending[r].cers /\ pending[r].event.type # "created"
      BY <3>2, <1>a, <1>3 DEF PendingInv, AppendTransaction
    <3>3. CASE c \notin pending[r].cers
      BY <3>3, <1>a, <1>3, AppendEffect
    <3> QED
      BY <3>1, <3>2, <3>3
  <2>3. \A c \in Cer : ~cer'[c].exists => cer'[c] = AbsentCer
    <3> TAKE c \in Cer
    <3>1. CASE c \in pending[r].cers /\ pending[r].event.type = "created"
      BY <3>1, <1>a, <1>3, AppendEffect, ApplyEventExists DEF TypeOK
    <3>2. CASE c \in pending[r].cers /\ pending[r].event.type # "created"
      <4>1. cer[c].exists
        BY <3>2, <1>a, <1>3 DEF PendingInv, AppendTransaction
      <4> QED
        BY <4>1, <3>2, <1>a, <1>3, AppendEffect, ApplyEventExists DEF TypeOK
    <3>3. CASE c \notin pending[r].cers
      BY <3>3, <1>a, <1>3, AppendEffect
    <3> QED
      BY <3>1, <3>2, <3>3
  <2> QED
    BY <2>1, <2>2, <2>3 DEF Shortlisted
<1>4. ASSUME NEW r \in Request, Handle(r), ~AppendTransaction(r)
      PROVE  UNCHANGED <<cer, shortlist>> /\ minted \subseteq minted'
  BY <1>4 DEF Handle, BeginCreate, BeginAttach, BeginConsentWithdraw,
     BeginStatus, BeginFounderIntroduction, BeginPartnerIntroduction, Abort
<1>5. ASSUME NEW p \in Partner, PartnerView(p)
      PROVE  MintedInv'
  BY <1>5, <1>2 DEF PartnerView
<1>6. CASE UNCHANGED vars
  BY <1>6, <1>2 DEF vars
<1> QED
  BY <1>1, <1>2, <1>3, <1>4, <1>5, <1>6 DEF Next

(* What PendingInv asks of one slot, so that a step need only look at the  *)
(* slots it touches.                                                       *)
SlotOK(r) ==
  LET tx == pending[r] IN
    /\ tx.event.type # "created" => \A c \in tx.cers : cer[c].exists
    /\ tx.event.type = "created" =>
         /\ tx.cers \subseteq minted
         /\ \A c \in tx.cers : c \notin Shortlisted =>
              /\ ~cer[c].exists
              /\ \A q \in Request \ {r} :
                   pending[q] # NoTx => c \notin pending[q].cers
    /\ tx.event.type = "introduction-requested" =>
         \A c \in tx.cers : tx.event.partner = RoutePartner[c]
    /\ tx.event.type = "introduction-granted" => tx.event.actor = "founder"

(* PendingInv, one request's slot at a time.                               *)
LEMMA PendingInvBySlot ==
  PendingInv <=> \A r \in Request : pending[r] # NoTx => SlotOK(r)
BY DEF PendingInv, SlotOK

(* Filling slot r with records for CERs that exist: no other slot holds a  *)
(* direct creation of one of them.                                         *)
LEMMA HoldOnExisting ==
  ASSUME IInv, NEW r \in Request, NEW c \in Cer, NEW e \in Event,
         Hold(r, {c}, e), e.type # "created", cer[c].exists,
         e.type = "introduction-requested" => e.partner = RoutePartner[c],
         e.type = "introduction-granted" => e.actor = "founder",
         UNCHANGED <<cer, shortlist, minted>>
  PROVE  PendingInv'
<1>1. Shortlisted' = Shortlisted
  BY DEF Shortlisted
<1>2. /\ pending'[r].event = e /\ pending'[r].cers = {c}
      /\ \A q \in Request \ {r} : pending'[q] = pending[q]
  BY DEF Hold, IInv, TypeOK
<1>3. SlotOK(r)'
  BY <1>2 DEF SlotOK
<1>4. ASSUME NEW q \in Request \ {r}, pending'[q] # NoTx
      PROVE  SlotOK(q)'
  <2>1. pending'[q] = pending[q] /\ SlotOK(q)
    BY <1>2, <1>4, PendingInvBySlot DEF IInv
  <2> QED
    BY <2>1, <1>1, <1>2 DEF SlotOK
<1> QED
  BY <1>3, <1>4, PendingInvBySlot DEF PendingInv, SlotOK

(* A step keeps every held transaction about CERs of its own.              *)
LEMMA StepPendingInv ==
  ASSUME IInv, [Next]_vars
  PROVE  PendingInv'
<1>a. TypeOK /\ MintedInv /\ PendingInv
  BY DEF IInv
<1>b. \A r \in Request : pending[r] # NoTx => SlotOK(r)
  BY <1>a, PendingInvBySlot
<1>1. ASSUME NEW s \in Session, NEW c \in Cer, ShortlistAdd(s, c)
      PROVE  PendingInv'
  <2>1. Shortlisted \subseteq Shortlisted'
    BY <1>1, <1>a DEF ShortlistAdd, Shortlisted, TypeOK
  <2> QED
    BY <2>1, <1>1, <1>a DEF ShortlistAdd, PendingInv
<1>2. ASSUME NEW r \in Request, NEW c \in Cer, BeginCreate(r, c)
      PROVE  PendingInv'
  <2>1. Shortlisted' = Shortlisted /\ minted' = minted \cup {c} /\ cer' = cer
    BY <1>2 DEF BeginCreate, Shortlisted
  <2>2. c \notin minted /\ ~cer[c].exists /\ c \notin Shortlisted
    BY <1>2, <1>a DEF BeginCreate, MintedInv
  <2>3. /\ pending[r] = NoTx
        /\ pending'[r].cers = {c} /\ pending'[r].event = CerCreated
        /\ \A q \in Request \ {r} : pending'[q] = pending[q]
    <3> DEFINE one == {c}
               e == CerCreated
    <3>1. one \in SUBSET Cer /\ e \in Event /\ Hold(r, one, e)
      BY <1>2, RecordsAreEvents DEF BeginCreate
    <3> HIDE DEF one, e
    <3>2. pending'[r] = [cers |-> one, event |-> e]
      BY <3>1, HoldEffect
    <3>3. pending[r] = NoTx
      BY <3>1 DEF Hold
    <3>4. \A q \in Request \ {r} : pending'[q] = pending[q]
      BY <3>1, <1>a DEF Hold, TypeOK
    <3> QED
      BY <3>2, <3>3, <3>4 DEF one, e
  <2>4. \A q \in Request : pending[q] # NoTx => c \notin pending[q].cers
    BY <2>2, <1>a, <1>b DEF SlotOK, MintedInv
  <2>5. ASSUME NEW q \in Request \ {r}, pending'[q] # NoTx
        PROVE  SlotOK(q)'
    BY <2>5, <2>1, <2>2, <2>3, <2>4, <1>b DEF SlotOK
  <2>6. SlotOK(r)'
    BY <2>1, <2>2, <2>3, <2>4 DEF SlotOK, CerCreated
  <2> QED
    BY <2>5, <2>6, PendingInvBySlot DEF PendingInv, SlotOK
<1>3. ASSUME NEW r \in Request, NEW s \in Session, BeginAttach(r, s)
      PROVE  PendingInv'
  <2>1. Shortlisted' = Shortlisted /\ minted' = minted /\ cer' = cer
    BY <1>3 DEF BeginAttach, Shortlisted
  <2>2. shortlist[s] \subseteq Shortlisted /\ shortlist[s] \in SUBSET Cer
    BY <1>a DEF Shortlisted, TypeOK
  <2>3. /\ pending[r] = NoTx
        /\ pending'[r].cers = shortlist[s] /\ pending'[r].event = CerCreated
        /\ \A q \in Request \ {r} : pending'[q] = pending[q]
    BY <1>3, <2>2, HoldEffect, RecordsAreEvents DEF BeginAttach
  <2>4. ASSUME NEW q \in Request \ {r}, pending'[q] # NoTx
        PROVE  SlotOK(q)'
    BY <2>4, <2>1, <2>2, <2>3, <1>b DEF SlotOK
  <2>5. SlotOK(r)'
    BY <2>1, <2>2, <2>3, <1>a DEF SlotOK, CerCreated, MintedInv
  <2> QED
    BY <2>4, <2>5, PendingInvBySlot DEF PendingInv, SlotOK
<1>4. ASSUME NEW r \in Request, NEW c \in Cer, BeginConsentWithdraw(r, c)
      PROVE  PendingInv'
  BY <1>4, HoldOnExisting, RecordsAreEvents
     DEF BeginConsentWithdraw, ConsentWithdrawn
<1>5. ASSUME NEW r \in Request, NEW c \in Cer, NEW to \in CerStatus,
             BeginStatus(r, c, to)
      PROVE  PendingInv'
  <2>1. StatusUpdated(to) \in Event /\ StatusUpdated(to).type = "status-updated"
    BY RecordsAreEvents DEF StatusUpdated
  <2> QED
    BY <2>1, <1>5, HoldOnExisting DEF BeginStatus, CanSetStatus
<1>6. ASSUME NEW r \in Request, NEW c \in Cer, BeginFounderIntroduction(r, c)
      PROVE  PendingInv'
  <2>1. PICK type \in FounderIntroductionEvents :
          /\ FounderMayAppend(cer[c], type)
          /\ Hold(r, {c}, FounderIntroduction(type))
    BY <1>6 DEF BeginFounderIntroduction
  <2>2. /\ FounderIntroduction(type) \in Event
        /\ FounderIntroduction(type).type = type
        /\ FounderIntroduction(type).actor = "founder"
        /\ type \notin {"created", "introduction-requested"}
    BY RecordsAreEvents DEF FounderIntroduction, FounderIntroductionEvents
  <2>3. cer[c].exists
    BY <2>1 DEF FounderMayAppend, CanDecideIntroduction,
       CanFounderWithdrawIntroduction
  <2> QED
    BY <2>1, <2>2, <2>3, <1>6, HoldOnExisting DEF BeginFounderIntroduction
<1>7. ASSUME NEW r \in Request, NEW p \in Partner, NEW c \in Cer,
             BeginPartnerIntroduction(r, p, c)
      PROVE  PendingInv'
  <2>1. PICK type \in PartnerIntroductionEvents :
          /\ PartnerMayAppend(cer[c], c, p, type)
          /\ Hold(r, {c}, PartnerIntroduction(type, p))
    BY <1>7 DEF BeginPartnerIntroduction
  <2>2. /\ PartnerIntroduction(type, p) \in Event
        /\ PartnerIntroduction(type, p).type = type
        /\ PartnerIntroduction(type, p).partner = p
        /\ type \notin {"created", "introduction-granted"}
    BY RecordsAreEvents DEF PartnerIntroduction, PartnerIntroductionEvents
  <2>3. cer[c].exists /\ RoutePartner[c] = p
    BY <2>1 DEF PartnerMayAppend, CanRequestIntroduction,
       CanPartnerWithdrawIntroduction, VisibleToPartner
  <2> QED
    BY <2>1, <2>2, <2>3, <1>7, HoldOnExisting DEF BeginPartnerIntroduction
<1>8. ASSUME NEW r \in Request, AppendTransaction(r)
      PROVE  PendingInv'
  <2>1. Shortlisted' = Shortlisted /\ minted' = minted
    BY <1>8 DEF AppendTransaction, Shortlisted
  <2>2. pending[r] # NoTx /\ SlotOK(r)
    BY <1>8, <1>b DEF AppendTransaction
  <2>3. \A c \in Cer : cer[c].exists => cer'[c].exists
    BY <1>a, <1>8, AppendEffect, ApplyEventExists DEF TypeOK
  <2>4. ASSUME NEW q \in Request, pending'[q] # NoTx
        PROVE  SlotOK(q)'
    <3>1. q # r /\ pending'[q] = pending[q] /\ SlotOK(q)
      BY <2>4, <1>8, <1>b, AppendEffect
    <3>2. pending[q] \in Tx /\ pending[q].cers \subseteq Cer
      BY <2>4, <3>1, <1>a DEF TypeOK, Tx
    <3>3. ASSUME NEW c \in pending[q].cers, c \notin Shortlisted,
                 pending[q].event.type = "created"
          PROVE  /\ ~cer'[c].exists
                 /\ \A t \in Request \ {q} :
                      pending'[t] # NoTx => c \notin pending'[t].cers
      <4>1. ~cer[c].exists /\ c \notin pending[r].cers
        BY <3>1, <3>3, <2>2 DEF SlotOK
      <4>2. cer'[c] = cer[c]
        BY <4>1, <3>2, <3>3, <1>8, AppendEffect
      <4> QED
        BY <4>1, <4>2, <3>1, <3>3, <1>8, AppendEffect DEF SlotOK
    <3> QED
      BY <3>1, <3>2, <3>3, <2>1, <2>3 DEF SlotOK
  <2> QED
    BY <2>4, PendingInvBySlot DEF PendingInv, SlotOK
<1>9. ASSUME NEW r \in Request, Abort(r)
      PROVE  PendingInv'
  <2>1. /\ Shortlisted' = Shortlisted /\ minted' = minted /\ cer' = cer
        /\ \A q \in Request : pending'[q] = IF q = r THEN NoTx ELSE pending[q]
    BY <1>9, <1>a DEF Abort, Shortlisted, TypeOK
  <2> QED
    BY <2>1, <1>a DEF PendingInv
<1>10. ASSUME NEW p \in Partner, PartnerView(p)
       PROVE  PendingInv'
  BY <1>10, <1>a DEF PartnerView, PendingInv, Shortlisted
<1>11. CASE UNCHANGED vars
  BY <1>11, <1>a DEF vars, PendingInv, Shortlisted
<1> QED
  BY <1>1, <1>2, <1>3, <1>4, <1>5, <1>6, <1>7, <1>8, <1>9, <1>10, <1>11
     DEF Next, Handle

(* Every action but AppendTransaction leaves the projections and the       *)
(* history alone.                                                          *)
LEMMA OnlyAppendFolds ==
  ASSUME [Next]_vars
  PROVE  \/ \E r \in Request : AppendTransaction(r)
         \/ UNCHANGED <<cer, granted>>
BY DEF Next, Handle, vars, ShortlistAdd, BeginCreate, BeginAttach,
   BeginConsentWithdraw, BeginStatus, BeginFounderIntroduction,
   BeginPartnerIntroduction, Abort, PartnerView

(* The introduction part of what AppendTransaction does to one CER.        *)
LEMMA AppendIntroduction ==
  ASSUME IInv, NEW r \in Request, AppendTransaction(r), NEW c \in Cer
  PROVE  /\ cer[c].introduction \in Introduction
         /\ \/ c \notin pending[r].cers /\ cer'[c] = cer[c]
            \/ /\ c \in pending[r].cers
               /\ cer'[c].introduction =
                    StepIntroduction(cer[c].introduction, pending[r].event)
BY AppendEffect, ApplyEventIntroduction DEF IInv, TypeOK, CerView

(* A step leaves a live edge with the partner its CER is routed to.        *)
LEMMA StepEdgeBelongsToRoute ==
  ASSUME IInv, [Next]_vars
  PROVE  EdgeBelongsToRoute'
<1> USE DEF EdgeBelongsToRoute
<1>1. ASSUME NEW r \in Request, AppendTransaction(r), NEW c \in Cer,
             cer'[c].introduction.state \in {"asked", "granted"}
      PROVE  cer'[c].introduction.partner = RoutePartner[c]
  <2>1. CASE c \notin pending[r].cers
    BY <2>1, <1>1, AppendIntroduction DEF IInv
  <2>2. CASE c \in pending[r].cers
    <3>1. /\ pending[r] # NoTx
          /\ pending[r].event \in Event
          /\ cer[c].introduction \in Introduction
          /\ cer'[c].introduction =
               StepIntroduction(cer[c].introduction, pending[r].event)
      BY <2>2, <1>1, AppendIntroduction, AppendEffect DEF AppendTransaction
    <3>2. pending[r].event.type = "introduction-requested" =>
            pending[r].event.partner = RoutePartner[c]
      BY <3>1, <2>2 DEF IInv, PendingInv
    <3> QED
      BY <3>1, <3>2, <1>1, LiveEdgePartner DEF IInv
  <2> QED
    BY <2>1, <2>2
<1>2. CASE UNCHANGED cer
  BY <1>2 DEF IInv
<1> QED
  BY <1>1, <1>2, OnlyAppendFolds

(* A step grants only an ask, and the history keeps it.                    *)
LEMMA StepGrantInv ==
  ASSUME IInv, [Next]_vars
  PROVE  GrantInv'
<1> USE DEF GrantInv
<1>1. ASSUME NEW r \in Request, AppendTransaction(r), NEW c \in Cer,
             cer'[c].introduction.state = "granted"
      PROVE  <<cer'[c].introduction.partner, c>> \in granted'
  <2>0. granted \subseteq granted'
    BY <1>1, AppendEffect
  <2>1. CASE c \notin pending[r].cers
    BY <2>0, <2>1, <1>1, AppendIntroduction DEF IInv
  <2>2. CASE c \in pending[r].cers
    <3>1. /\ pending[r] # NoTx
          /\ pending[r].event \in Event
          /\ cer[c].introduction \in Introduction
          /\ cer'[c].introduction =
               StepIntroduction(cer[c].introduction, pending[r].event)
      BY <2>2, <1>1, AppendIntroduction, AppendEffect DEF AppendTransaction
    <3>2. CASE cer[c].introduction.state = "granted"
      <4>1. cer'[c].introduction.partner = cer[c].introduction.partner
        BY <3>1, <3>2, <1>1, LiveEdgePartner
      <4> QED
        BY <4>1, <3>2, <2>0 DEF IInv
    <3>3. CASE cer[c].introduction.state # "granted"
      <4>1. /\ pending[r].event.type = "introduction-granted"
            /\ cer[c].introduction.state = "asked"
            /\ cer'[c].introduction.partner = cer[c].introduction.partner
        BY <3>1, <3>3, <1>1, GrantOnlyFromAsked
      <4>2. GrantTakesEffect(cer[c], pending[r].event)
        BY <4>1, <3>1 DEF GrantTakesEffect, IInv, PendingInv
      <4> QED
        BY <4>1, <4>2, <2>2, <1>1 DEF AppendTransaction
    <3> QED
      BY <3>2, <3>3
  <2> QED
    BY <2>1, <2>2
<1>2. CASE UNCHANGED <<cer, granted>>
  BY <1>2 DEF IInv
<1> QED
  BY <1>1, <1>2, OnlyAppendFolds

(* A step sends no contact that was not granted.                           *)
LEMMA StepContactNeedsBothEnds ==
  ASSUME IInv, [Next]_vars
  PROVE  ContactNeedsBothEnds'
<1> USE DEF ContactNeedsBothEnds
<1>1. granted \subseteq granted'
  BY OnlyAppendFolds, AppendEffect
<1>2. ASSUME NEW p \in Partner, PartnerView(p),
             NEW q \in Partner, NEW c \in Cer, <<q, c>> \in disclosed'
      PROVE  q = RoutePartner[c] /\ <<q, c>> \in granted
  <2>1. CASE <<q, c>> \in disclosed
    BY <2>1 DEF IInv
  <2>2. CASE <<q, c>> \notin disclosed
    <3>1. q = p /\ ContactShown(cer[c], c, p)
      BY <2>2, <1>2 DEF PartnerView
    <3>2. RoutePartner[c] = q /\ cer[c].introduction.state = "granted"
      BY <3>1 DEF ContactShown, VisibleToPartner
    <3> QED
      BY <3>2 DEF IInv, GrantInv, EdgeBelongsToRoute
  <2> QED
    BY <2>1, <2>2
<1>3. ASSUME ~\E p \in Partner : PartnerView(p)
      PROVE  disclosed' = disclosed
  BY <1>3 DEF Next, Handle, vars, ShortlistAdd, BeginCreate, BeginAttach,
     BeginConsentWithdraw, BeginStatus, BeginFounderIntroduction,
     BeginPartnerIntroduction, AppendTransaction, Abort
<1> QED
  BY <1>1, <1>2, <1>3 DEF IInv

(* The inductive invariant holds of every behaviour.                       *)
LEMMA Invariance == Spec => []IInv
<1>1. IInv /\ [Next]_vars => IInv'
  BY StepTypeOK, StepMintedInv, StepPendingInv, StepEdgeBelongsToRoute,
     StepGrantInv, StepContactNeedsBothEnds DEF IInv
<1> QED
  BY InitIInv, <1>1, PTL DEF Spec

-----------------------------------------------------------------------------
(* The results.                                                            *)

(* Every reachable state is well typed: slots hold transactions, projected *)
(* CERs stay in the status and introduction vocabulary of the source.      *)
THEOREM TypeCorrect == Spec => []TypeOK
BY Invariance, PTL DEF IInv

(* However many requests overlap, the founder's contact reaches only the   *)
(* partner a CER is routed to, and only after the founder granted that     *)
(* partner's ask (introductionForPartner, CONSENT-BOTH-ENDS-001).          *)
THEOREM BothEndsConsent == Spec => []ContactNeedsBothEnds
BY Invariance, PTL DEF IInv

(* A live introduction always names the partner its CER is routed to.      *)
THEOREM RouteOwnsEdge == Spec => []EdgeBelongsToRoute
BY Invariance, PTL DEF IInv

(* Withdrawing the consent of a CER created from the profile page is final *)
(* under every interleaving: no request already past its gate restores it. *)
THEOREM DirectWithdrawalIsFinal == Spec => DirectConsentFinal
<1>1. ASSUME IInv, [Next]_vars, NEW c \in Cer,
             cer[c].consent = "withdrawn", c \notin Shortlisted
      PROVE  cer'[c].consent = "withdrawn"
  <2>1. ASSUME NEW r \in Request, AppendTransaction(r)
        PROVE  cer'[c].consent = "withdrawn"
    <3>1. CASE c \notin pending[r].cers
      BY <3>1, <2>1, <1>1, AppendEffect
    <3>2. CASE c \in pending[r].cers
      <4>1. cer[c].exists
        BY <1>1 DEF IInv, MintedInv, AbsentCer
      <4>2. pending[r].event.type # "created"
        BY <4>1, <3>2, <2>1, <1>1 DEF IInv, PendingInv, AppendTransaction
      <4> QED
        BY <4>2, <3>2, <2>1, <1>1, AppendEffect, ApplyEventConsent
    <3> QED
      BY <3>1, <3>2
  <2> QED
    BY <2>1, <1>1, OnlyAppendFolds
<1>2. IInv /\ [Next]_vars => DirectConsentKept
  BY <1>1 DEF DirectConsentKept
<1> QED
  BY <1>2, Invariance, PTL DEF Spec, DirectConsentFinal

(* A founder's answer, or a withdrawal, that arrives after the edge closed *)
(* changes nothing: only a fresh ask of the routed partner reopens it.     *)
THEOREM LateAnswersReviveNothing == Spec => ClosedEdgeOnlyReopenedByAsk
<1>1. ASSUME IInv, [Next]_vars, NEW c \in Cer,
             cer[c].introduction.state \notin {"asked", "granted"}
      PROVE  cer'[c].introduction \in
               {cer[c].introduction,
                [state |-> "asked", partner |-> RoutePartner[c]]}
  <2>1. ASSUME NEW r \in Request, AppendTransaction(r)
        PROVE  cer'[c].introduction \in
                 {cer[c].introduction,
                  [state |-> "asked", partner |-> RoutePartner[c]]}
    <3>1. CASE c \notin pending[r].cers
      BY <3>1, <2>1, <1>1, AppendIntroduction
    <3>2. CASE c \in pending[r].cers
      <4>1. /\ pending[r] # NoTx
            /\ cer'[c].introduction =
                 StepIntroduction(cer[c].introduction, pending[r].event)
        BY <3>2, <2>1, <1>1, AppendIntroduction DEF AppendTransaction
      <4>2. pending[r].event.type = "introduction-requested" =>
              pending[r].event.partner = RoutePartner[c]
        BY <4>1, <3>2, <1>1 DEF IInv, PendingInv
      <4> QED
        BY <4>1, <4>2, <1>1 DEF StepIntroduction
    <3> QED
      BY <3>1, <3>2
  <2> QED
    BY <2>1, <1>1, OnlyAppendFolds
<1>2. IInv /\ [Next]_vars => ClosedEdgeKept
  BY <1>1 DEF ClosedEdgeKept
<1> QED
  BY <1>2, Invariance, PTL DEF Spec, ClosedEdgeOnlyReopenedByAsk

-----------------------------------------------------------------------------
(* The promise of CerPromise, and which appends keep it.                   *)

(* Every record but a creation is of one CER. *)
SoleInv ==
  \A r \in Request : pending[r] # NoTx /\ pending[r].event.type # "created" =>
    \E c \in Cer : pending[r].cers = {c}

(* A handler other than create and attach holds a record of one CER. *)
LEMMA StepSoleInv ==
  ASSUME IInv, SoleInv, [Next]_vars
  PROVE  SoleInv'
<1>1. ASSUME NEW r \in Request, NEW cers \in SUBSET Cer, NEW e \in Event,
             Hold(r, cers, e),
             e.type # "created" => \E c \in Cer : cers = {c}
      PROVE  SoleInv'
  <2>1. /\ pending'[r] = [cers |-> cers, event |-> e]
        /\ \A q \in Request \ {r} : pending'[q] = pending[q]
    BY <1>1, HoldEffect
  <2> QED
    BY <1>1, <2>1 DEF SoleInv
<1>2. ASSUME NEW r \in Request, AppendTransaction(r) \/ Abort(r)
      PROVE  SoleInv'
  <2>1. /\ pending'[r] = NoTx
        /\ \A q \in Request \ {r} : pending'[q] = pending[q]
    BY <1>2 DEF AppendTransaction, Abort, IInv, TypeOK
  <2> QED
    BY <2>1 DEF SoleInv
<1>3. ASSUME UNCHANGED pending PROVE SoleInv'
  BY <1>3 DEF SoleInv
<1>4. ASSUME NEW r \in Request, NEW c \in Cer, NEW e \in Event, Hold(r, {c}, e)
      PROVE  SoleInv'
  <2> DEFINE one == {c}
  <2>1. one \in SUBSET Cer /\ Hold(r, one, e) /\ (\E d \in Cer : one = {d})
    BY <1>4
  <2> HIDE DEF one
  <2> QED
    BY <1>1, <2>1
<1>5. ASSUME NEW r \in Request, NEW c \in Cer, BeginCreate(r, c)
      PROVE  SoleInv'
  BY <1>4, <1>5, RecordsAreEvents DEF BeginCreate
<1>6. ASSUME NEW r \in Request, NEW s \in Session, BeginAttach(r, s)
      PROVE  SoleInv'
  <2>1. /\ shortlist[s] \in SUBSET Cer
        /\ CerCreated \in Event /\ CerCreated.type = "created"
    BY RecordsAreEvents DEF CerCreated, IInv, TypeOK
  <2> QED
    BY <1>1, <1>6, <2>1 DEF BeginAttach
<1>7. ASSUME NEW r \in Request, NEW c \in Cer, BeginConsentWithdraw(r, c)
      PROVE  SoleInv'
  BY <1>4, <1>7, RecordsAreEvents DEF BeginConsentWithdraw
<1>8. ASSUME NEW r \in Request, NEW c \in Cer, NEW to \in CerStatus,
             BeginStatus(r, c, to)
      PROVE  SoleInv'
  BY <1>4, <1>8, RecordsAreEvents DEF BeginStatus
<1>9. ASSUME NEW r \in Request, NEW c \in Cer, BeginFounderIntroduction(r, c)
      PROVE  SoleInv'
  BY <1>4, <1>9, RecordsAreEvents DEF BeginFounderIntroduction
<1>10. ASSUME NEW r \in Request, NEW p \in Partner, NEW c \in Cer,
              BeginPartnerIntroduction(r, p, c)
       PROVE  SoleInv'
  BY <1>4, <1>10, RecordsAreEvents DEF BeginPartnerIntroduction
<1>11. ASSUME NEW s \in Session, NEW c \in Cer, ShortlistAdd(s, c)
       PROVE  SoleInv'
  BY <1>3, <1>11 DEF ShortlistAdd
<1>12. ASSUME NEW p \in Partner, PartnerView(p) PROVE SoleInv'
  BY <1>3, <1>12 DEF PartnerView
<1> QED
  BY <1>2, <1>3, <1>5, <1>6, <1>7, <1>8, <1>9, <1>10, <1>11, <1>12
     DEF Next, Handle, vars

(* A record that was not overtaken moves one of consent, status and edge   *)
(* as the promise allows, or none: w is what it makes of v.                *)
Moves(v, w) ==
  \/ /\ w.consent = "withdrawn"
     /\ w.admin_status = v.admin_status
     /\ w.introduction.state = v.introduction.state
  \/ /\ v.consent = "granted" /\ w.consent = "granted"
     /\ CanTransition(v.admin_status, w.admin_status)
     /\ w.introduction.state = v.introduction.state
  \/ /\ v.consent = "granted" /\ w.consent = "granted"
     /\ w.admin_status = v.admin_status
     /\ \/ /\ v.introduction.state \notin {"asked", "granted"}
           /\ w.introduction.state = "asked"
        \/ /\ v.introduction.state = "asked"
           /\ w.introduction.state \in {"granted", "declined"}
  \/ /\ w.consent = v.consent /\ w.admin_status = v.admin_status
     /\ v.introduction.state \in {"asked", "granted"}
     /\ w.introduction.state = "withdrawn"
  \/ /\ w.consent = v.consent /\ w.admin_status = v.admin_status
     /\ w.introduction.state = v.introduction.state

(* The record of one CER that still passes its gate, or that the fold      *)
(* drops, moves it as the promise allows.                                  *)
LEMMA RecordMoves ==
  ASSUME NEW v \in CerView, NEW e \in Event, e.type # "created",
         ~Overtaken(v, e)
  PROVE  Moves(v, ApplyEvent(v, e))
<1> DEFINE w == ApplyEvent(v, e)
<1>1. /\ v.consent \in {"granted", "withdrawn"} /\ v.introduction \in Introduction
      /\ e.type \in EventType
      /\ w.introduction = StepIntroduction(v.introduction, e)
      /\ w.admin_status = IF e.type = "status-updated" THEN e.to ELSE v.admin_status
      /\ w.consent = IF e.type = "consent-withdrawn" THEN "withdrawn" ELSE v.consent
  BY DEF CerView, ApplyEvent, Event
<1> SUFFICES Moves(v, w)
  OBVIOUS
<1> HIDE DEF w
<1>2. CASE e.type = "consent-withdrawn"
  BY <1>1, <1>2 DEF StepIntroduction, Moves
<1>3. CASE e.type = "status-updated"
  BY <1>1, <1>3 DEF StepIntroduction, Overtaken, CanSetStatus, Moves
<1>4. CASE e.type = "introduction-requested"
  <2>1. w.introduction = [state |-> "asked", partner |-> e.partner]
    BY <1>1, <1>4 DEF StepIntroduction
  <2>2. w.introduction.state = "asked"
    BY <2>1
  <2> QED
    BY <1>1, <1>4, <2>2 DEF Overtaken, Moves
<1>5. CASE e.type \in {"introduction-granted", "introduction-declined"}
  <2>1. v.consent = "granted"
    BY <1>1, <1>5 DEF Overtaken
  <2>2. \/ /\ v.introduction.state = "asked"
           /\ w.introduction.state \in {"granted", "declined"}
        \/ w.introduction = v.introduction
    BY <1>1, <1>5 DEF StepIntroduction, Introduction
  <2> QED
    BY <1>1, <1>5, <2>1, <2>2 DEF Moves
<1>6. CASE e.type = "introduction-withdrawn"
  <2>1. \/ /\ v.introduction.state \in {"asked", "granted"}
           /\ w.introduction.state = "withdrawn"
        \/ w.introduction = v.introduction
    BY <1>1, <1>6 DEF StepIntroduction, Introduction
  <2> QED
    BY <1>1, <1>6, <2>1 DEF Moves
<1> QED
  BY <1>1, <1>2, <1>3, <1>4, <1>5, <1>6 DEF EventType

(* What a move of one CER is to the promise. *)
LEMMA MovePromised ==
  ASSUME NEW c \in Cer, NEW w \in CerView,
         cer[c] \in CerView, cer[c].exists, w.exists, Moves(cer[c], w),
         cer'[c] = w, \A d \in Cer \ {c} : cer'[d] = cer[d]
  PROVE  [Promise!Next]_(Promise!vars)
<1> DEFINE v == cer[c]
<1>1. /\ PromisedConsent' = [PromisedConsent EXCEPT ![c] = w.consent]
      /\ PromisedStatus' = [PromisedStatus EXCEPT ![c] = w.admin_status]
      /\ PromisedEdge' = [PromisedEdge EXCEPT ![c] = w.introduction.state]
  BY DEF PromisedConsent, PromisedStatus, PromisedEdge
<1>2. /\ PromisedConsent[c] = v.consent /\ PromisedStatus[c] = v.admin_status
      /\ PromisedEdge[c] = v.introduction.state
      /\ PromisedConsent = [PromisedConsent EXCEPT ![c] = @]
      /\ PromisedStatus = [PromisedStatus EXCEPT ![c] = @]
      /\ PromisedEdge = [PromisedEdge EXCEPT ![c] = @]
  BY DEF PromisedConsent, PromisedStatus, PromisedEdge
<1>3. /\ v.introduction.state \in IntroductionState
      /\ v.admin_status \in CerStatus /\ w.admin_status \in CerStatus
      /\ v.consent \in {"granted", "withdrawn"}
  BY DEF CerView, Introduction
<1>4. Moves(v, w)
  OBVIOUS
<1> HIDE DEF v
<1>5. CASE /\ w.consent = "withdrawn"
           /\ w.admin_status = v.admin_status
           /\ w.introduction.state = v.introduction.state
  <2>1. Promise!WithdrawConsent(c) \/ UNCHANGED Promise!vars
    BY <1>1, <1>2, <1>3, <1>5 DEF Promise!WithdrawConsent, Promise!vars
  <2> QED
    BY <2>1 DEF Promise!Next
<1>6. CASE /\ v.consent = "granted" /\ w.consent = "granted"
           /\ CanTransition(v.admin_status, w.admin_status)
           /\ w.introduction.state = v.introduction.state
  <2>1. /\ w.admin_status \in {"Under review", "Needs info", "Booked", "Closed"}
        /\ v.admin_status \notin {"Closed", w.admin_status}
        /\ w.admin_status \in {"Booked", "Needs info"} => v.admin_status = "Under review"
    BY <1>3, <1>6 DEF CanTransition, Transitions, CerStatus
  <2>2. Promise!SetStatus(c, w.admin_status)
    BY <1>1, <1>2, <1>6, <2>1 DEF Promise!SetStatus
  <2> QED
    BY <2>1, <2>2 DEF Promise!Next
<1>7. CASE /\ v.consent = "granted" /\ w.consent = "granted"
           /\ w.admin_status = v.admin_status
           /\ \/ /\ v.introduction.state \notin {"asked", "granted"}
                 /\ w.introduction.state = "asked"
              \/ /\ v.introduction.state = "asked"
                 /\ w.introduction.state \in {"granted", "declined"}
  <2>1. \/ Promise!Ask(c)
        \/ /\ w.introduction.state \in {"granted", "declined"}
           /\ Promise!Answer(c, w.introduction.state)
    BY <1>1, <1>2, <1>3, <1>7 DEF Promise!Ask, Promise!Answer, IntroductionState
  <2> QED
    BY <2>1 DEF Promise!Next
<1>8. CASE /\ w.consent = v.consent /\ w.admin_status = v.admin_status
           /\ v.introduction.state \in {"asked", "granted"}
           /\ w.introduction.state = "withdrawn"
  <2>1. Promise!WithdrawEdge(c)
    BY <1>1, <1>2, <1>3, <1>8 DEF Promise!WithdrawEdge
  <2> QED
    BY <2>1 DEF Promise!Next
<1>9. CASE /\ w.consent = v.consent /\ w.admin_status = v.admin_status
           /\ w.introduction.state = v.introduction.state
  <2>1. UNCHANGED Promise!vars
    BY <1>1, <1>2, <1>9 DEF Promise!vars
  <2> QED
    BY <2>1
<1> QED
  BY <1>4, <1>5, <1>6, <1>7, <1>8, <1>9 DEF Moves

(* A creation none of whose CERs was withdrawn gives consent to the absent *)
(* ones and changes nothing else.                                          *)
LEMMA CreationPromised ==
  ASSUME IInv, NEW r \in Request, AppendTransaction(r),
         pending[r].event.type = "created",
         \A c \in pending[r].cers : ~Overtaken(cer[c], pending[r].event)
  PROVE  [Promise!Next]_(Promise!vars)
<1> DEFINE absent == {c \in pending[r].cers : ~cer[c].exists}
<1>1. /\ pending[r].event \in Event /\ pending[r].cers \in SUBSET Cer
      /\ \A c \in pending[r].cers : cer'[c] = ApplyEvent(cer[c], pending[r].event)
      /\ \A c \in Cer \ pending[r].cers : cer'[c] = cer[c]
  BY AppendEffect DEF AppendTransaction, IInv, TypeOK, Tx
<1>2. \A c \in Cer : cer[c] \in CerView
  BY DEF IInv, TypeOK
<1>3. ASSUME NEW c \in Cer
      PROVE  /\ PromisedConsent'[c] = IF c \in absent THEN "granted" ELSE PromisedConsent[c]
             /\ PromisedStatus'[c] = PromisedStatus[c]
             /\ PromisedEdge'[c] = PromisedEdge[c]
  <2>1. CASE c \in pending[r].cers
    <3>1. /\ cer'[c].exists /\ cer'[c].consent = "granted"
          /\ cer'[c].admin_status = cer[c].admin_status
          /\ cer'[c].introduction = cer[c].introduction
      <4> DEFINE e == pending[r].event  v == cer[c]
      <4>1. StepIntroduction(v.introduction, e) = v.introduction
        BY DEF StepIntroduction
      <4>2. /\ ApplyEvent(v, e).exists /\ ApplyEvent(v, e).consent = "granted"
            /\ ApplyEvent(v, e).admin_status = v.admin_status
            /\ ApplyEvent(v, e).introduction = StepIntroduction(v.introduction, e)
        BY DEF ApplyEvent
      <4> QED
        BY <1>1, <2>1, <4>1, <4>2
    <3>2. cer[c].exists => cer[c].consent = "granted"
      BY <1>2, <2>1 DEF Overtaken, CerView
    <3> QED
      BY <2>1, <3>1, <3>2 DEF PromisedConsent, PromisedStatus, PromisedEdge
  <2>2. CASE c \notin pending[r].cers
    BY <1>1, <2>2 DEF PromisedConsent, PromisedStatus, PromisedEdge
  <2> QED
    BY <2>1, <2>2
<1>4. \A c \in absent : PromisedConsent[c] = "absent"
  BY <1>1 DEF PromisedConsent
<1>5. absent \in SUBSET Cer
  BY <1>1
<1> HIDE DEF absent
<1>6. PromisedConsent' = [c \in Cer |-> IF c \in absent THEN "granted" ELSE PromisedConsent[c]]
  BY <1>3 DEF PromisedConsent
<1>7. PromisedStatus' = PromisedStatus /\ PromisedEdge' = PromisedEdge
  BY <1>3 DEF PromisedStatus, PromisedEdge
<1>8. Promise!Create(absent)
  BY <1>4, <1>5, <1>6, <1>7 DEF Promise!Create
<1> QED
  BY <1>5, <1>8 DEF Promise!Next

(* Every step keeps the promise, or commits an overtaken record. *)
LEMMA PromiseStep ==
  ASSUME IInv, SoleInv, [Next]_vars, ~CommitsOvertaken
  PROVE  [Promise!Next]_(Promise!vars)
<1>1. ASSUME UNCHANGED cer PROVE UNCHANGED Promise!vars
  BY <1>1 DEF Promise!vars, PromisedConsent, PromisedStatus, PromisedEdge
<1>2. ASSUME NEW r \in Request, AppendTransaction(r)
      PROVE  [Promise!Next]_(Promise!vars)
  <2>1. \A c \in pending[r].cers : ~Overtaken(cer[c], pending[r].event)
    BY <1>2 DEF CommitsOvertaken
  <2>2. CASE pending[r].event.type = "created"
    BY <1>2, <2>1, <2>2, CreationPromised
  <2>3. CASE pending[r].event.type # "created"
    <3>1. PICK c \in Cer : pending[r].cers = {c}
      BY <1>2, <2>3 DEF AppendTransaction, SoleInv
    <3> DEFINE w == ApplyEvent(cer[c], pending[r].event)
    <3>2. /\ pending[r].event \in Event /\ cer'[c] = w
          /\ \A d \in Cer \ {c} : cer'[d] = cer[d]
      BY <1>2, <3>1, AppendEffect
    <3>3. cer[c] \in CerView /\ cer[c].exists
      BY <1>2, <2>3, <3>1 DEF AppendTransaction, IInv, TypeOK, PendingInv
    <3>4. w \in CerView /\ w.exists
      BY <3>2, <3>3, ApplyEventType, ApplyEventExists
    <3>5. Moves(cer[c], w)
      BY <2>1, <2>3, <3>1, <3>2, <3>3, RecordMoves
    <3> HIDE DEF w
    <3> QED
      BY <3>2, <3>3, <3>4, <3>5, MovePromised
  <2> QED
    BY <2>2, <2>3
<1> QED
  BY <1>1, <1>2, OnlyAppendFolds

(* What the invariant of the promise's own theorems is about: both hold of *)
(* every reachable state.                                                  *)
LEMMA SoleInvariance == Spec => [](IInv /\ SoleInv)
<1>1. Init => SoleInv
  BY DEF Init, SoleInv
<1>2. IInv /\ SoleInv /\ [Next]_vars => SoleInv'
  BY StepSoleInv
<1> QED
  BY <1>1, <1>2, Invariance, PTL DEF Spec

(* However many requests overlap and sessions re-attach, the handlers step *)
(* outside the promise of CerPromise only by committing a record whose     *)
(* gate was overtaken: an admin status, an ask or an answer after the      *)
(* consent it was gated on is gone, a status after the status moved, a     *)
(* repeated ask after the grant, a re-attach of a withdrawn CER. Every     *)
(* other order of appends (late withdrawals, late answers) is harmless.    *)
THEOREM OnlyOvertakenRecordsBreakThePromise == Spec => PromiseUnlessOvertaken
<1>1. IInv /\ SoleInv /\ [Next]_vars => PromiseKept
  BY PromiseStep DEF PromiseKept
<1> QED
  BY <1>1, SoleInvariance, PTL DEF Spec, PromiseUnlessOvertaken

(* One step of the promise gives back no consent, moves no status behind a *)
(* withdrawal and leaves no closed engagement.                             *)
LEMMA PromiseStepIsTerminal ==
  ASSUME IInv, [Promise!Next]_(Promise!vars)
  PROVE  Promise!TerminalKept
<1>1. /\ PromisedConsent \in [Cer -> {"absent", "granted", "withdrawn"}]
      /\ PromisedStatus \in [Cer -> CerStatus]
      /\ DOMAIN PromisedEdge = Cer
  BY DEF PromisedConsent, PromisedStatus, PromisedEdge, IInv, TypeOK, CerView
<1> QED
  BY <1>1 DEF Promise!Next, Promise!vars, Promise!Create, Promise!WithdrawConsent,
     Promise!SetStatus, Promise!Ask, Promise!Answer, Promise!WithdrawEdge,
     Promise!TerminalKept

(* cerStatusHandler's "terminal for admin transitions", as far as the code *)
(* keeps it: of any CER, shortlisted or not, withdrawn consent is given    *)
(* back and the status behind it or a Closed status moved by nothing but a *)
(* record whose gate was overtaken between its read and its append.        *)
THEOREM TerminalUnlessOvertaken ==
  Spec => [][CommitsOvertaken \/ Promise!TerminalKept]_vars
<1>1. IInv /\ SoleInv /\ [Next]_vars => CommitsOvertaken \/ Promise!TerminalKept
  BY PromiseStep, PromiseStepIsTerminal
<1> QED
  BY <1>1, SoleInvariance, PTL DEF Spec
=============================================================================
