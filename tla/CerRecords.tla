----------------------------- MODULE CerRecords -----------------------------
(***************************************************************************)
(* The vocabulary of a Customer Engagement Record (CER): the records the   *)
(* CER handlers append to the founder-memory log, the gates they evaluate  *)
(* on a projected CER, and the effect of one record on that projection.    *)
(* No variables: Cer, CerLog and CerPromise all build on this module.      *)
(*                                                                         *)
(* Source: api/src/services/cer-projection.js and config/cer-routes.js.    *)
(* A timestamp, note, reason, item or evidence reference is payload no     *)
(* gate or projection branches on, and is left out.                        *)
(***************************************************************************)
EXTENDS Naturals

CONSTANTS
  Cer,            \* the ids a CER may be given (randomUUID)
  Partner,        \* the partners that may open a partner window
  NoPartner,      \* introduction.partner before anybody asked
  RoutePartner    \* RoutePartner[c]: CER_ROUTES[route of c].partner

ASSUME NoPartnerAssumption == NoPartner \notin Partner
ASSUME RoutePartnerAssumption == RoutePartner \in [Cer -> Partner]

-----------------------------------------------------------------------------
(* The five statuses and the pairs TRANSITIONS lists.                      *)

CerStatus == {"Submitted", "Under review", "Needs info", "Booked", "Closed"}

Transitions ==
  {<<"Submitted", "Under review">>, <<"Submitted", "Closed">>,
   <<"Under review", "Needs info">>, <<"Under review", "Booked">>,
   <<"Under review", "Closed">>,
   <<"Needs info", "Under review">>, <<"Needs info", "Closed">>,
   <<"Booked", "Under review">>, <<"Booked", "Closed">>}

CanTransition(from, to) == <<from, to>> \in Transitions

-----------------------------------------------------------------------------
(* Records. "created" stands for the pair buildCerRecords always appends   *)
(* together: the decision and its consent-granted event.                   *)

IntroductionState == {"none", "asked", "granted", "declined", "withdrawn"}

EventType == {"created", "consent-withdrawn", "status-updated",
              "introduction-requested", "introduction-granted",
              "introduction-declined", "introduction-withdrawn"}

Event == [type : EventType,
          actor : {"founder", "partner", "ethiks360_admin"},
          partner : Partner \cup {NoPartner},
          to : CerStatus]

CerCreated ==
  [type |-> "created", actor |-> "founder", partner |-> NoPartner,
   to |-> "Submitted"]

ConsentWithdrawn ==
  [type |-> "consent-withdrawn", actor |-> "founder", partner |-> NoPartner,
   to |-> "Closed"]

StatusUpdated(to) ==
  [type |-> "status-updated", actor |-> "ethiks360_admin",
   partner |-> NoPartner, to |-> to]

FounderIntroduction(type) ==
  [type |-> type, actor |-> "founder", partner |-> NoPartner,
   to |-> "Submitted"]

PartnerIntroduction(type, p) ==
  [type |-> type, actor |-> "partner", partner |-> p, to |-> "Submitted"]

-----------------------------------------------------------------------------
(* The projected CER. admin_status is what the admin set (the founder is   *)
(* shown Closed instead once consent is withdrawn; no gate reads that).    *)

Introduction == [state : IntroductionState, partner : Partner \cup {NoPartner}]

CerView == [exists : BOOLEAN,
            consent : {"granted", "withdrawn"},
            admin_status : CerStatus,
            introduction : Introduction]

EmptyIntroduction == [state |-> "none", partner |-> NoPartner]

AbsentCer == [exists |-> FALSE, consent |-> "granted",
              admin_status |-> "Submitted",
              introduction |-> EmptyIntroduction]

(* Mutant: an answer counts whatever the state it meets. *)
StepIntroductionUnguarded(intro, e) ==
  CASE e.type = "introduction-requested" ->
         [state |-> "asked", partner |-> e.partner]
    [] e.type = "introduction-granted" -> [intro EXCEPT !.state = "granted"]
    [] e.type = "introduction-declined" -> [intro EXCEPT !.state = "declined"]
    [] e.type = "introduction-withdrawn" -> [intro EXCEPT !.state = "withdrawn"]
    [] OTHER -> intro

(* One step of foldIntroduction: an ask always opens, an answer or a       *)
(* withdrawal only counts in the state it answers.                         *)
StepIntroduction(intro, e) ==
  CASE e.type = "introduction-requested" ->
         [state |-> "asked", partner |-> e.partner]
    [] e.type = "introduction-granted" /\ intro.state = "asked" ->
         [intro EXCEPT !.state = "granted"]
    [] e.type = "introduction-declined" /\ intro.state = "asked" ->
         [intro EXCEPT !.state = "declined"]
    [] e.type = "introduction-withdrawn"
         /\ intro.state \in {"asked", "granted"} ->
         [intro EXCEPT !.state = "withdrawn"]
    [] OTHER -> intro

(* Mutant: the founder's grant of an introduction restates consent. *)
ApplyEventRegranting(v, e) ==
  [exists |-> v.exists \/ e.type = "created",
   consent |-> CASE e.type \in {"created", "introduction-granted"} -> "granted"
                 [] e.type = "consent-withdrawn" -> "withdrawn"
                 [] OTHER -> v.consent,
   admin_status |-> IF e.type = "status-updated" THEN e.to ELSE v.admin_status,
   introduction |-> StepIntroduction(v.introduction, e)]

(* The effect of one record on the projection: the last consent event and  *)
(* the last status-updated win, introductions fold step by step.           *)
ApplyEvent(v, e) ==
  [exists |-> v.exists \/ e.type = "created",
   consent |-> CASE e.type = "created" -> "granted"
                 [] e.type = "consent-withdrawn" -> "withdrawn"
                 [] OTHER -> v.consent,
   admin_status |-> IF e.type = "status-updated" THEN e.to ELSE v.admin_status,
   introduction |-> StepIntroduction(v.introduction, e)]

-----------------------------------------------------------------------------
(* Gates: positive conditions on a projected CER; absent fails closed.     *)

CanSetStatusWithoutConsent(v, to) ==      \* mutant
  v.exists /\ CanTransition(v.admin_status, to)

CanSetStatus(v, to) ==
  v.exists /\ v.consent = "granted" /\ CanTransition(v.admin_status, to)

CanDecideIntroduction(v) ==
  v.exists /\ v.consent = "granted" /\ v.introduction.state = "asked"

CanFounderWithdrawIntroduction(v) ==
  v.exists /\ v.introduction.state \in {"asked", "granted"}

(* projectForViewer for a partner: its own routes, while consent stands.   *)
VisibleToPartner(v, c, p) ==
  v.exists /\ RoutePartner[c] = p /\ v.consent = "granted"

CanRequestIntroduction(v, c, p) ==
  /\ VisibleToPartner(v, c, p)
  /\ v.introduction.state \notin {"asked", "granted"}

CanPartnerWithdrawIntroduction(v, c, p) ==
  /\ VisibleToPartner(v, c, p)
  /\ v.introduction.state \in {"asked", "granted"}
  /\ v.introduction.partner = p

(* Mutant: the partner's ask already reveals the contact. *)
ContactShownOnAsk(v, c, p) ==
  VisibleToPartner(v, c, p) /\ v.introduction.state \in {"asked", "granted"}

(* introductionForPartner: the founder's contact, only while granted.      *)
ContactShown(v, c, p) ==
  VisibleToPartner(v, c, p) /\ v.introduction.state = "granted"

(* The introduction events each side's endpoint appends (its action table) *)
(* and the gate each one passes first.                                     *)
FounderIntroductionEvents ==
  {"introduction-granted", "introduction-declined", "introduction-withdrawn"}

PartnerIntroductionEvents ==
  {"introduction-requested", "introduction-withdrawn"}

FounderMayAppend(v, type) ==
  \/ CanDecideIntroduction(v)
     /\ type \in {"introduction-granted", "introduction-declined"}
  \/ CanFounderWithdrawIntroduction(v) /\ type = "introduction-withdrawn"

PartnerMayAppend(v, c, p, type) ==
  \/ CanRequestIntroduction(v, c, p) /\ type = "introduction-requested"
  \/ CanPartnerWithdrawIntroduction(v, c, p) /\ type = "introduction-withdrawn"
=============================================================================
