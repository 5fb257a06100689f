------------------------------- MODULE CerLog -------------------------------
(***************************************************************************)
(* The CERs of one profile as they are stored: an append-only log of       *)
(* records that only cerProjection() reads. Nothing below keeps a status,  *)
(* a consent or an introduction; each is recomputed from the log whenever  *)
(* a handler replays it, as the code does.                                 *)
(*                                                                         *)
(* The handlers' gates are those of Cer evaluated on the projection; what  *)
(* is new here is the log, the fold and the commit. ImplementsCer says     *)
(* that committing to the log is exactly the incremental step of Cer.      *)
(***************************************************************************)
EXTENDS CerRecords, Sequences, SequencesExt

CONSTANTS Request, Session, NoTx,
  MaxLog          \* bound: records the log may hold

ASSUME MaxLogAssumption == MaxLog \in Nat

VARIABLES
  log,            \* records of the profile's transactions, in replay order
  pending, shortlist, minted, disclosed, granted

(* A stored record: the CER it is about, and an event; "decision" is the   *)
(* base record, the others are cer_events.                                 *)
Record(c, type, e) == [cer |-> c, type |-> type, partner |-> e.partner,
                       to |-> e.to]

(* normalizeRecord carries records over verbatim; a creation is two.       *)
RecordsOf(c, e) ==
  IF e.type = "created"
    THEN <<Record(c, "decision", e), Record(c, "consent-granted", e)>>
    ELSE <<Record(c, e.type, e)>>

Concat(s, t) == s \o t

TxRecords(tx) ==
  LET cers == SetToSeq(tx.cers) IN
    FoldLeft(Concat, <<>>,
             [i \in DOMAIN cers |-> RecordsOf(cers[i], tx.event)])

-----------------------------------------------------------------------------
(* cerProjection: one CER from the records, their order deciding.          *)

(* Where the last record of c of one of these types is; 0 when none is.    *)
LatestOf(records, c, types) ==
  SelectLastInSeq(records, LAMBDA x : x.cer = c /\ x.type \in types)

ConsentTypes == {"consent-granted", "consent-withdrawn"}

FirstConsentState(records, c) ==   \* mutant: the oldest consent event decides
  LET first == SelectInSeq(records,
                           LAMBDA x : x.cer = c /\ x.type \in ConsentTypes)
  IN  IF first # 0 /\ records[first].type = "consent-withdrawn"
        THEN "withdrawn" ELSE "granted"

ConsentState(records, c) ==
  LET last == LatestOf(records, c, ConsentTypes) IN
    IF last # 0 /\ records[last].type = "consent-withdrawn"
      THEN "withdrawn" ELSE "granted"

AdminStatus(records, c) ==
  LET last == LatestOf(records, c, {"status-updated"}) IN
    IF last # 0 THEN records[last].to ELSE "Submitted"

(* Every CER's introduction in one walk: a record is of one CER, and only  *)
(* an introduction event moves its introduction.                           *)
NoIntroductions == [c \in Cer |-> EmptyIntroduction]

StepIntroductions(intros, x) ==
  [intros EXCEPT ![x.cer] = StepIntroduction(@, x)]

FoldNewestFirst(records) ==        \* mutant: the newest event folds first
  FoldLeft(StepIntroductions, NoIntroductions, Reverse(records))

FoldIntroduction(records) ==
  FoldLeft(StepIntroductions, NoIntroductions, records)

ProjectOne(records, c) ==
  [exists |-> \E i \in DOMAIN records :
                records[i].cer = c /\ records[i].type = "decision",
   consent |-> ConsentState(records, c),
   admin_status |-> AdminStatus(records, c),
   introduction |-> FoldIntroduction(records)[c]]

Projection == [c \in Cer |-> ProjectOne(log, c)]

C == INSTANCE Cer WITH cer <- Projection

logVars == <<log, pending, shortlist, minted, disclosed, granted>>

-----------------------------------------------------------------------------

LogInit == log = <<>> /\ C!Init

(* Steps that only read the log: gates, minting, refusals, partner views.  *)
Read(r) ==
  /\ UNCHANGED log
  /\ \/ \E c \in Cer : C!BeginCreate(r, c)
     \/ \E s \in Session : C!BeginAttach(r, s)
     \/ \E c \in Cer : C!BeginConsentWithdraw(r, c)
     \/ \E c \in Cer, to \in CerStatus : C!BeginStatus(r, c, to)
     \/ \E c \in Cer : C!BeginFounderIntroduction(r, c)
     \/ \E p \in Partner, c \in Cer : C!BeginPartnerIntroduction(r, p, c)
     \/ C!Abort(r)

(* appendTransaction: the slot's records go to the end of the log.         *)
AppendTransaction(r) ==
  /\ pending[r] # NoTx
  /\ Len(log) + Len(TxRecords(pending[r])) <= MaxLog
  /\ log' = log \o TxRecords(pending[r])
  /\ granted' = granted \cup
       {<<Projection[c].introduction.partner, c>> :
          c \in {d \in pending[r].cers :
                   C!GrantTakesEffect(Projection[d], pending[r].event)}}
  /\ pending' = [pending EXCEPT ![r] = NoTx]
  /\ UNCHANGED <<shortlist, minted, disclosed>>

LogNext ==
  \/ \E r \in Request : Read(r)
  \/ \E r \in Request : AppendTransaction(r)
  \/ \E s \in Session, c \in Cer : UNCHANGED log /\ C!ShortlistAdd(s, c)
  \/ \E p \in Partner : UNCHANGED log /\ C!PartnerView(p)

LogSpec == LogInit /\ [][LogNext]_logVars

-----------------------------------------------------------------------------
(* Properties.                                                             *)

(* Folding the log at read time is the same machine as carrying each CER's *)
(* state forward one record at a time, and a commit to the log is never    *)
(* mistaken for an append that did not happen.                             *)
ImplementsCer ==
  /\ C!Spec
  /\ [][\A r \in Request : AppendTransaction(r) => C!AppendTransaction(r)]_logVars

(* Some grant in the log answers an ask that nothing closed before it, and *)
(* nothing withdrew or asked again since.                                  *)
GrantStands(c) ==
  LET Is(i, types) == log[i].cer = c /\ log[i].type \in types IN
  \E i, j \in DOMAIN log :
    /\ i < j /\ Is(i, {"introduction-requested"})
    /\ Is(j, {"introduction-granted"})
    /\ \A k \in DOMAIN log : k \in (i + 1)..(j - 1) =>
         ~Is(k, {"introduction-requested", "introduction-declined",
                 "introduction-withdrawn"})
    /\ \A k \in DOMAIN log : k > j =>
         ~Is(k, {"introduction-requested", "introduction-withdrawn"})

(* An introduction is projected as granted exactly when the log holds a    *)
(* standing grant: what foldIntroduction computes, said without folding.   *)
(* (The contact is shown while it is granted and consent stands as well.)  *)
GrantIsStandingAnswer ==
  \A c \in Cer :
    Projection[c].introduction.state = "granted" <=> GrantStands(c)
=============================================================================
