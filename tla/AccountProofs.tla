--------------------------- MODULE AccountProofs ----------------------------
(***************************************************************************)
(* What a founder's account, a Passport, the admin's batches, the mailbox  *)
(* door and the register advisory promise, for any founders, pages,        *)
(* sessions, statements, facts, caps, mails and registers.                 *)
(*                                                                         *)
(* An account is a fold of its log, and so is a Passport, and the page of  *)
(* mails a poll takes is one of the inbox: FoldTheorems is instantiated    *)
(* once for each fold.                                                     *)
(***************************************************************************)
EXTENDS Account, Passport, Preread, Inbound, Advisory, SequenceTheorems, FiniteSetTheorems, TLAPS

FactFold == INSTANCE FoldTheorems WITH Op <- KeepFact
ClaimFold == INSTANCE FoldTheorems WITH Op <- ApplyClaim
KeyFold == INSTANCE FoldTheorems WITH Op <- FoldFact
PageFold == INSTANCE FoldTheorems WITH Op <- TakeUnread

(* The library's fold and each instance's are the same expression.         *)
LEMMA SameFold ==
  /\ \A of : FoldLeft(KeepFact, << >>, of) = FactFold!Fold(<< >>, of)
  /\ \A records : FoldLeft(ApplyClaim, NoClaims, records) = ClaimFold!Fold(NoClaims, records)
  /\ \A record : FoldLeft(FoldFact, << >>, record) = KeyFold!Fold(<< >>, record)
<1>1. \A of : FoldLeft(KeepFact, << >>, of) = FactFold!Fold(<< >>, of)
  BY Zenon DEF FactFold!Fold, FoldLeft, FactFold!FoldLeft, MapThenFoldSet,
               FactFold!MapThenFoldSet, Max, FactFold!Max
<1>2. \A records : FoldLeft(ApplyClaim, NoClaims, records) = ClaimFold!Fold(NoClaims, records)
  BY Zenon DEF ClaimFold!Fold, FoldLeft, ClaimFold!FoldLeft, MapThenFoldSet,
               ClaimFold!MapThenFoldSet, Max, ClaimFold!Max
<1>3. \A record : FoldLeft(FoldFact, << >>, record) = KeyFold!Fold(<< >>, record)
  BY Zenon DEF KeyFold!Fold, FoldLeft, KeyFold!FoldLeft, MapThenFoldSet,
               KeyFold!MapThenFoldSet, Max, KeyFold!Max
<1> QED
  BY <1>1, <1>2, <1>3

-----------------------------------------------------------------------------
(* The records appended to an account.                                     *)

(* Whatever is said, what is recorded of it is claims of one origin.       *)
LEMMA FactsAreClaims ==
  ASSUME NEW told \in Seq(Said), NEW from \in Origin
  PROVE  /\ FactRecords(told, from) \in Seq(StoredClaim)
         /\ \A i \in DOMAIN FactRecords(told, from) : FactRecords(told, from)[i].from = from
<1> DEFINE T == {fact \in Said : fact.field \in ExplicitFactFields}
           kept == FactFold!Fold(<< >>, told)
<1>1. kept \in Seq(T)
  <2>1. Len(told) \in Nat /\ DOMAIN told = 1..Len(told) /\ << >> \in Seq(T)
    OBVIOUS
  <2>2. ASSUME NEW a \in Seq(T), NEW i \in 1..Len(told)
        PROVE  KeepFact(a, told[i]) \in Seq(T)
    <3>1. told[i] \in Said
      OBVIOUS
    <3>2. CASE told[i].field \in ExplicitFactFields
      <4>1. told[i] \in T
        BY <3>1, <3>2
      <4> HIDE DEF T
      <4> QED
        BY <4>1 DEF KeepFact
    <3>3. CASE told[i].field \notin ExplicitFactFields
      BY <3>3 DEF KeepFact
    <3> QED
      BY <3>2, <3>3
  <2> HIDE DEF T
  <2> QED
    BY <2>1, <2>2, FactFold!FoldStays
<1>2. FactRecords(told, from) = [i \in DOMAIN kept |-> NormalizeFact(kept[i], from)]
  BY SameFold DEF FactRecords
<1> HIDE DEF kept
<1>3. ASSUME NEW i \in DOMAIN kept
      PROVE  NormalizeFact(kept[i], from) \in StoredClaim /\ NormalizeFact(kept[i], from).from = from
  <2>1. kept[i] \in T
    <3> HIDE DEF T
    <3> QED
      BY <1>1
  <2>2. kept[i].field \in ExplicitFactFields /\ kept[i].value \in Value
    BY <2>1 DEF Said
  <2> QED
    BY <2>2 DEF NormalizeFact, StoredClaim
<1>4. DOMAIN kept = 1..Len(kept) /\ Len(kept) \in Nat
  <2> HIDE DEF T
  <2> QED
    BY <1>1
<1> QED
  BY <1>2, <1>3, <1>4

(* A session's records are claims made of that session.                    *)
LEMMA ReadIsClaims ==
  ASSUME NEW s \in Session
  PROVE  /\ SessionAttachRecords(SessionOf[s], s) \in Seq(StoredClaim)
         /\ \A i \in DOMAIN SessionAttachRecords(SessionOf[s], s) :
              SessionAttachRecords(SessionOf[s], s)[i].from = s
<1> DEFINE of == SessionOf[s]
           System(field, value) == [field |-> field, value |-> value, actor |-> "system"]
           Source(signal) == IF signal.actor = "founder" THEN "founder" ELSE "system"
           Signal(signal) == [field |-> signal.field, value |-> signal.value,
                              actor |-> Source(signal)]
           head == <<System("company_name", of.company), System("website", of.website)>>
           rest == [i \in DOMAIN of.signals |-> Signal(of.signals[i])]
<1>1. of.company \in Value /\ of.website \in Value /\ of.signals \in Seq(Said)
  BY AccountAssumption
<1>2. head \in Seq(Said)
  <2>1. {"company_name", "website", "system"} \subseteq Name
    BY AccountAssumption DEF ExplicitFactFields
  <2>2. System("company_name", of.company) \in Said /\ System("website", of.website) \in Said
    BY <1>1, <2>1 DEF Said
  <2> QED
    BY <2>2
<1>3. rest \in Seq(Said)
  <2>1. ASSUME NEW i \in DOMAIN of.signals PROVE Signal(of.signals[i]) \in Said
    <3>1. of.signals[i] \in Said
      BY <1>1
    <3>2. {"founder", "system"} \subseteq Name
      BY AccountAssumption
    <3> QED
      BY <3>1, <3>2 DEF Said
  <2>2. DOMAIN of.signals = 1..Len(of.signals) /\ Len(of.signals) \in Nat
    BY <1>1
  <2> QED
    BY <2>1, <2>2
<1>4. head \o rest \in Seq(Said)
  BY <1>2, <1>3
<1>5. SessionAttachRecords(of, s) = FactRecords(head \o rest, s)
  BY DEF SessionAttachRecords
<1> DEFINE all == head \o rest
<1>6. s \in Origin /\ all \in Seq(Said)
  BY <1>4 DEF Origin
<1>7. SessionAttachRecords(of, s) = FactRecords(all, s)
  BY <1>5
<1> HIDE DEF of, all
<1>8. /\ FactRecords(all, s) \in Seq(StoredClaim)
      /\ \A i \in DOMAIN FactRecords(all, s) : FactRecords(all, s)[i].from = s
  BY ONLY <1>6, FactsAreClaims
<1> QED
  BY <1>7, <1>8 DEF of

-----------------------------------------------------------------------------
(* Whose a session is.                                                     *)

CallTypes ==
  /\ call \in [Page -> [at : {"none", "sent", "claimed", "answered", "cut"},
                        session : Session \cup {Null}]]
  /\ \A p \in Page : call[p].at \in {"sent", "claimed", "answered"} => call[p].session \in Session

(* Past the lock, the session is bound to who waits for the attach.        *)
ClaimedIsBound ==
  \A p \in Page : call[p].at \in {"claimed", "answered"} =>
    Who[p] \in Founder /\ bound[call[p].session] = Who[p]

(* Only the founder a session is bound to has its records.                 *)
HeldByItsFounder ==
  \A f \in Founder : \A i \in DOMAIN log[f] :
    log[f][i].from # "statement" => log[f][i].from \in Session /\ bound[log[f][i].from] = f

AInv ==
  /\ log \in [Founder -> Seq(StoredClaim)]
  /\ bound \in [Session -> Founder \cup {Null}]
  /\ CallTypes
  /\ ClaimedIsBound
  /\ HeldByItsFounder

(* Whoever is signed in is a founder.                                      *)
LEMMA SignedInIsFounder ==
  ASSUME NEW p \in SignedIn
  PROVE  p \in Page /\ Who[p] \in Founder
<1>1. p \in Page /\ Who[p] = AuthUser(Request[p]) /\ AuthUser(Request[p]) # Null
  BY DEF SignedIn, Who
<1>2. Request[p].bearer \in Founder \cup {Null} /\ Request[p].access \in Founder \cup {Null}
  BY <1>1, AccountAssumption
<1> QED
  BY <1>1, <1>2 DEF AuthUser

(* Records of one's own, or of a session bound to oneself, may be added.   *)
LEMMA AddingKeepsOwner ==
  ASSUME log \in [Founder -> Seq(StoredClaim)], HeldByItsFounder,
         NEW f \in Founder, NEW from \in Origin, from # "statement" => bound[from] = f,
         NEW records \in Seq(StoredClaim), \A i \in DOMAIN records : records[i].from = from,
         log' = [log EXCEPT ![f] = @ \o records], bound' = bound
  PROVE  log' \in [Founder -> Seq(StoredClaim)] /\ HeldByItsFounder'
<1>1. log[f] \in Seq(StoredClaim) /\ log'[f] = log[f] \o records
  OBVIOUS
<1>2. log' \in [Founder -> Seq(StoredClaim)]
  <2>1. log[f] \o records \in Seq(StoredClaim)
    BY <1>1
  <2> QED
    BY <2>1
<1>3. ASSUME NEW g \in Founder, NEW i \in DOMAIN log'[g], log'[g][i].from # "statement"
      PROVE  log'[g][i].from \in Session /\ bound'[log'[g][i].from] = g
  <2>1. CASE g # f
    BY <1>3, <2>1 DEF HeldByItsFounder
  <2>2. CASE g = f
    <3>1. CASE i \in DOMAIN log[f]
      <4>1. log'[f][i] = log[f][i]
        BY <1>1, <3>1
      <4> QED
        BY <1>3, <2>2, <3>1, <4>1 DEF HeldByItsFounder
    <3>2. CASE i \notin DOMAIN log[f]
      <4>1. i \in 1..(Len(log[f]) + Len(records)) /\ i \notin 1..Len(log[f])
        BY <1>1, <2>2, <3>2
      <4>2. i - Len(log[f]) \in DOMAIN records /\ log'[f][i] = records[i - Len(log[f])]
        BY <1>1, <4>1
      <4>3. log'[g][i].from = from
        BY <2>2, <4>2
      <4> QED
        BY <1>3, <2>2, <4>3 DEF Origin
    <3> QED
      BY <3>1, <3>2
  <2> QED
    BY <2>1, <2>2
<1> QED
  BY <1>2, <1>3 DEF HeldByItsFounder

(* At the start nothing is bound and nothing recorded.                     *)
LEMMA AccountStart == AccountInit => AInv
<1> SUFFICES ASSUME AccountInit PROVE AInv
  OBVIOUS
<1>1. log = [f \in Founder |-> << >>] /\ bound = [s \in Session |-> Null]
      /\ call = [p \in Page |-> NoCall]
  BY DEF AccountInit
<1>2. \A p \in Page : call[p].at = "none" /\ call[p].session = Null
  BY <1>1 DEF NoCall
<1>3. log \in [Founder -> Seq(StoredClaim)] /\ HeldByItsFounder
  BY <1>1 DEF HeldByItsFounder
<1>4. CallTypes
  <2>1. NoCall \in [at : {"none", "sent", "claimed", "answered", "cut"},
                    session : Session \cup {Null}]
    BY DEF NoCall
  <2> QED
    BY <1>1, <1>2, <2>1 DEF CallTypes
<1> QED
  BY <1>1, <1>2, <1>3, <1>4 DEF AInv, ClaimedIsBound

(* Every action of pages, handlers and the process keeps it.               *)
LEMMA AccountStep == AInv /\ [AccountNext]_accountVars => AInv'
<1> SUFFICES ASSUME AInv, [AccountNext]_accountVars PROVE AInv'
  OBVIOUS
<1> USE DEF AInv
<1>1. ASSUME NEW p \in SignedIn, NEW told \in Statement[p], Say(p, told) PROVE AInv'
  <2>1. p \in Page /\ Who[p] \in Founder
    BY SignedInIsFounder
  <2>2. told \in Seq(Said)
    BY <2>1, AccountAssumption
  <2>3. "statement" \in Origin
    BY DEF Origin
  <2>4. /\ log' = [log EXCEPT ![Who[p]] = @ \o FactRecords(told, "statement")]
        /\ bound' = bound /\ call' = call
    BY <1>1 DEF Say
  <2>5. /\ FactRecords(told, "statement") \in Seq(StoredClaim)
        /\ \A i \in DOMAIN FactRecords(told, "statement") :
             FactRecords(told, "statement")[i].from = "statement"
    BY <2>2, <2>3, FactsAreClaims
  <2> DEFINE records == FactRecords(told, "statement")
  <2> HIDE DEF records
  <2>6. log' \in [Founder -> Seq(StoredClaim)] /\ HeldByItsFounder'
    <3>1. records \in Seq(StoredClaim) /\ (\A i \in DOMAIN records : records[i].from = "statement")
          /\ log' = [log EXCEPT ![Who[p]] = @ \o records]
      BY <2>4, <2>5 DEF records
    <3> QED
      BY <2>1, <2>3, <2>4, <3>1, AddingKeepsOwner
  <2> QED
    BY <2>4, <2>6 DEF CallTypes, ClaimedIsBound
<1>2. ASSUME NEW p \in SignedIn, NEW s \in Session, Attach(p, s) PROVE AInv'
  <2>1. call' = [call EXCEPT ![p] = [at |-> "sent", session |-> s]]
        /\ log' = log /\ bound' = bound /\ p \in Page
    BY <1>2, SignedInIsFounder DEF Attach
  <2>2. CallTypes'
    BY <2>1 DEF CallTypes
  <2>3. ClaimedIsBound'
    BY <2>1 DEF ClaimedIsBound, CallTypes
  <2> QED
    BY <2>1, <2>2, <2>3 DEF HeldByItsFounder
<1>3. ASSUME NEW p \in SignedIn, Claim(p) PROVE AInv'
  <2> DEFINE s == call[p].session
  <2>1. /\ p \in Page /\ Who[p] \in Founder /\ s \in Session
        /\ bound[s] \in {Null, Who[p]} /\ bound' = [bound EXCEPT ![s] = Who[p]]
        /\ call' = [call EXCEPT ![p].at = "claimed"] /\ log' = log
    BY <1>3, SignedInIsFounder DEF Claim, CallTypes
  <2>2. \A t \in Session : bound[t] \in Founder => bound'[t] = bound[t]
    BY <2>1, AccountAssumption
  <2>3. \A q \in Page : call'[q].session = call[q].session
    BY <2>1 DEF CallTypes
  <2>4. CallTypes'
    BY <2>1 DEF CallTypes
  <2>5. ClaimedIsBound'
    <3> SUFFICES ASSUME NEW q \in Page, call'[q].at \in {"claimed", "answered"}
                 PROVE  Who[q] \in Founder /\ bound'[call'[q].session] = Who[q]
      BY DEF ClaimedIsBound
    <3>1. CASE q = p
      BY <2>1, <2>3, <3>1
    <3>2. CASE q # p
      <4>1. call'[q] = call[q]
        BY <2>1, <3>2
      <4> QED
        BY <2>2, <4>1 DEF ClaimedIsBound, CallTypes
    <3> QED
      BY <3>1, <3>2
  <2>6. HeldByItsFounder'
    BY <2>1, <2>2 DEF HeldByItsFounder
  <2> QED
    BY <2>1, <2>4, <2>5, <2>6
<1>4. ASSUME NEW p \in SignedIn, AppendRead(p) PROVE AInv'
  <2> DEFINE s == call[p].session
             records == SessionAttachRecords(SessionOf[s], s)
  <2>1. /\ p \in Page /\ Who[p] \in Founder /\ s \in Session /\ bound[s] = Who[p]
        /\ bound' = bound /\ call' = [call EXCEPT ![p].at = "answered"]
        /\ log' = [log EXCEPT ![Who[p]] = @ \o records] /\ call[p].at = "claimed"
    BY <1>4, SignedInIsFounder DEF AppendRead, CallTypes, ClaimedIsBound
  <2>2. records \in Seq(StoredClaim) /\ \A i \in DOMAIN records : records[i].from = s
    BY <2>1, ReadIsClaims
  <2> HIDE DEF records, s
  <2>3. s \in Origin
    BY <2>1 DEF Origin
  <2>4. log' \in [Founder -> Seq(StoredClaim)] /\ HeldByItsFounder'
    BY <2>1, <2>2, <2>3, AddingKeepsOwner
  <2>5. CallTypes'
    BY <2>1 DEF CallTypes
  <2>6. ClaimedIsBound'
    BY <2>1 DEF ClaimedIsBound, CallTypes
  <2> QED
    BY <2>1, <2>4, <2>5, <2>6
<1>5. ASSUME NEW p \in SignedIn, Attached(p) \/ AttachFailed(p) PROVE AInv'
  <2>1. call' = [call EXCEPT ![p] = NoCall] /\ log' = log /\ bound' = bound
    BY <1>5 DEF Attached, AttachFailed
  <2>2. CallTypes' /\ ClaimedIsBound'
    BY <2>1 DEF CallTypes, ClaimedIsBound, NoCall
  <2> QED
    BY <2>1, <2>2 DEF HeldByItsFounder
<1>6. ASSUME Crash PROVE AInv'
  <2>1. /\ log' = log /\ bound' = bound
        /\ call' = [p \in Page |-> IF call[p] = NoCall THEN NoCall
                                   ELSE [call[p] EXCEPT !.at = "cut"]]
    BY <1>6 DEF Crash
  <2>2. \A p \in Page : call'[p] = NoCall \/ call'[p] = [call[p] EXCEPT !.at = "cut"]
    BY <2>1
  <2>3. \A p \in Page : /\ call'[p].at \in {"none", "cut"}
                        /\ call'[p] \in [at : {"none", "sent", "claimed", "answered", "cut"},
                                         session : Session \cup {Null}]
    <3> TAKE p \in Page
    <3>1. CASE call'[p] = NoCall
      BY <3>1 DEF NoCall
    <3>2. CASE call'[p] = [call[p] EXCEPT !.at = "cut"]
      <4>1. call[p] \in [at : {"none", "sent", "claimed", "answered", "cut"},
                         session : Session \cup {Null}]
        BY DEF CallTypes
      <4> QED
        BY <3>2, <4>1
    <3> QED
      BY <2>2, <3>1, <3>2
  <2>4. CallTypes' /\ ClaimedIsBound'
    BY <2>1, <2>3 DEF CallTypes, ClaimedIsBound
  <2> QED
    BY <2>1, <2>4 DEF HeldByItsFounder
<1>7. ASSUME UNCHANGED accountVars PROVE AInv'
  BY <1>7 DEF accountVars, CallTypes, ClaimedIsBound, HeldByItsFounder
<1> QED
  BY <1>1, <1>2, <1>3, <1>4, <1>5, <1>6, <1>7 DEF AccountNext

(* The invariant of the accounts.                                          *)
LEMMA AccountInvariant == AccountSpec => []AInv
  BY AccountStart, AccountStep, PTL DEF AccountSpec

(* What a cold read found is in one founder's account and no other's: the  *)
(* lock binds the session before anything of it is appended, and a binding *)
(* is never replaced (handlers/session-attach.js).                         *)
THEOREM ReadsHaveOneOwner == AccountSpec => []OneOwner
<1>1. AInv => OneOwner
  <2> SUFFICES ASSUME AInv, NEW f \in Founder, NEW g \in Founder, NEW i \in DOMAIN log[f],
                      NEW j \in DOMAIN log[g], log[f][i].from = log[g][j].from,
                      log[f][i].from # "statement"
               PROVE  f = g
    BY DEF OneOwner
  <2> QED
    BY DEF AInv, HeldByItsFounder
<1> QED
  BY <1>1, AccountInvariant, PTL

-----------------------------------------------------------------------------
(* What stands in an account.                                              *)

(* After the first k records, what stands on x is nothing, where nothing   *)
(* was said of x; else the founder's last word, or the last read's where   *)
(* the founder said nothing.                                               *)
Stands(current, records, k, x) ==
  \/ current[x] = Null /\ \A i \in 1..k : records[i].field # x
  \/ \E i \in 1..k :
       /\ records[i].field = x /\ current[x] = records[i]
       /\ \A j \in 1..k : records[j].field = x =>
            \/ j <= i
            \/ records[i].actor = "founder" /\ records[j].actor # "founder"
       /\ records[i].actor # "founder" =>
            \A j \in 1..k : records[j].field = x => records[j].actor # "founder"

Currents == [ExplicitFactFields -> StoredClaim \cup {Null}]

(* One claim more, applied.                                                *)
LEMMA ApplyStands ==
  ASSUME NEW records, NEW k \in Nat, NEW a \in Currents,
         records[k + 1] \in StoredClaim, \A i \in 1..k : records[i] \in StoredClaim,
         \A x \in ExplicitFactFields : Stands(a, records, k, x)
  PROVE  /\ ApplyClaim(a, records[k + 1]) \in Currents
         /\ \A x \in ExplicitFactFields :
              Stands(ApplyClaim(a, records[k + 1]), records, k + 1, x)
<1> DEFINE claim == records[k + 1]
           b == ApplyClaim(a, claim)
           y == claim.field
<1>1. claim \in StoredClaim /\ y \in ExplicitFactFields
  BY DEF StoredClaim
<1>2. b \in Currents
  BY <1>1 DEF ApplyClaim, Currents
<1>3. 1..(k + 1) = (1..k) \cup {k + 1}
  OBVIOUS
<1>4. ASSUME NEW x \in ExplicitFactFields, x # y PROVE Stands(b, records, k + 1, x)
  <2>1. b[x] = a[x]
    BY <1>1, <1>4 DEF ApplyClaim, Currents
  <2>2. Stands(a, records, k, x)
    OBVIOUS
  <2> QED
    BY <1>3, <1>4, <2>1, <2>2 DEF Stands
<1>5. Stands(b, records, k + 1, y)
  <2>1. Stands(a, records, k, y)
    BY <1>1
  <2>2. Null \notin StoredClaim
    BY AccountAssumption
  <2>3. CASE a[y] # Null /\ claim.actor # "founder" /\ a[y].actor = "founder"
    <3>1. b = a
      BY <2>3 DEF ApplyClaim
    <3>2. PICK i \in 1..k :
            /\ records[i].field = y /\ a[y] = records[i]
            /\ \A j \in 1..k : records[j].field = y =>
                 j <= i \/ (records[i].actor = "founder" /\ records[j].actor # "founder")
      <4> HIDE DEF y, b, claim
      <4>1. a[y] # Null
        BY <2>3
      <4> QED
        BY <2>1, <4>1 DEF Stands
    <3>3. records[i].actor = "founder"
      BY <2>3, <3>2
    <3>4. i \in 1..(k + 1) /\ b[y] = records[i]
      BY <1>3, <3>1, <3>2
    <3>5. \A j \in 1..(k + 1) : records[j].field = y =>
            j <= i \/ (records[i].actor = "founder" /\ records[j].actor # "founder")
      BY <1>3, <2>3, <3>2, <3>3
    <3> QED
      BY <3>2, <3>3, <3>4, <3>5 DEF Stands
  <2>4. CASE ~(a[y] # Null /\ claim.actor # "founder" /\ a[y].actor = "founder")
    <3>1. b[y] = claim
      BY <1>1, <2>4 DEF ApplyClaim, Currents
    <3>2. k + 1 \in 1..(k + 1) /\ \A j \in 1..(k + 1) : j <= k + 1
      OBVIOUS
    <3>3. ASSUME claim.actor # "founder", NEW j \in 1..(k + 1), records[j].field = y
          PROVE  records[j].actor # "founder"
      <4>1. CASE j = k + 1
        BY <3>3, <4>1
      <4>2. CASE j \in 1..k
        <5>1. PICK i \in 1..k :
                /\ records[i].field = y /\ a[y] = records[i]
                /\ records[i].actor # "founder" =>
                     \A m \in 1..k : records[m].field = y => records[m].actor # "founder"
          BY <2>1, <3>3, <4>2 DEF Stands
        <5>2. records[i] # Null
          BY <2>2
        <5>3. records[i].actor # "founder"
          BY <2>4, <3>3, <5>1, <5>2
        <5> QED
          BY <3>3, <4>2, <5>1, <5>3
      <4> QED
        BY <1>3, <4>1, <4>2
    <3>4. \A j \in 1..(k + 1) : records[j].field = y => j <= k + 1
      BY <3>2
    <3>5. records[k + 1].field = y /\ b[y] = records[k + 1]
      BY <3>1
    <3> HIDE DEF b, y, claim
    <3> QED
      BY <3>2, <3>3, <3>4, <3>5 DEF Stands, claim
  <2> QED
    BY <2>3, <2>4
<1> QED
  BY <1>2, <1>4, <1>5

(* So it stands of a whole log.                                            *)
LEMMA ReconstructStands ==
  ASSUME NEW records \in Seq(StoredClaim)
  PROVE  /\ Reconstruct(records) \in Currents
         /\ \A x \in ExplicitFactFields :
              Stands(Reconstruct(records), records, Len(records), x)
<1> DEFINE n == Len(records)
           Good(k, a) == \A x \in ExplicitFactFields : Stands(a, records, k, x)
           G == {p \in (0..n) \X Currents : Good(p[1], p[2])}
<1>1. n \in Nat /\ DOMAIN records = 1..n /\ \A i \in 1..n : records[i] \in StoredClaim
  OBVIOUS
<1> HIDE DEF n
<1>2. <<0, NoClaims>> \in G
  <2>1. NoClaims \in Currents
    BY DEF NoClaims, Currents
  <2>2. Good(0, NoClaims)
    BY DEF Stands, NoClaims
  <2> QED
    BY <1>1, <2>1, <2>2
<1>3. ASSUME NEW k \in 0..(n - 1), NEW a, <<k, a>> \in G
      PROVE  <<k + 1, ApplyClaim(a, records[k + 1])>> \in G
  <2>1. k \in Nat /\ k + 1 \in 1..n /\ k + 1 \in 0..n /\ 1..k \subseteq 1..n
    BY <1>1
  <2>2. a \in Currents /\ Good(k, a)
    BY <1>3
  <2>3. /\ ApplyClaim(a, records[k + 1]) \in Currents
        /\ Good(k + 1, ApplyClaim(a, records[k + 1]))
    BY <1>1, <2>1, <2>2, ApplyStands
  <2> QED
    BY <2>1, <2>3
<1>4. <<n, ClaimFold!Fold(NoClaims, records)>> \in G
  <2> HIDE DEF G
  <2> QED
    BY <1>1, <1>2, <1>3, ClaimFold!FoldInduction
<1>5. Reconstruct(records) = ClaimFold!Fold(NoClaims, records)
  BY SameFold DEF Reconstruct
<1> QED
  BY <1>4, <1>5 DEF n

(* The greatest of a set of numbers is the one no other exceeds.           *)
LEMMA MaxIs ==
  ASSUME NEW S \in SUBSET Nat, NEW i \in S, \A j \in S : j <= i
  PROVE  Max(S) = i
<1>1. \A x \in S : (\A y \in S : x >= y) => x = i
  OBVIOUS
<1>2. \A y \in S : i >= y
  OBVIOUS
<1> QED
  BY <1>1, <1>2 DEF Max

(* Whatever an account learnt, in whatever order: of what it holds on a    *)
(* field the founder's last word stands, and the last cold read's only     *)
(* where the founder said nothing (applyClaim, memory-store-file.js).      *)
THEOREM TheFoundersWordStands == AccountSpec => []FounderWordStands
<1>1. AInv => FounderWordStands
  <2> SUFFICES ASSUME AInv, NEW f \in Founder, NEW x \in ExplicitFactFields
               PROVE  LET On_ == {i \in DOMAIN log[f] : log[f][i].field = x}
                          His == {i \in On_ : log[f][i].actor = "founder"}
                      IN  Current(f)[x] = IF On_ = {} THEN Null
                                          ELSE log[f][Max(IF His # {} THEN His ELSE On_)]
    BY DEF FounderWordStands
  <2> DEFINE records == log[f]
             n == Len(records)
             OnX == {i \in DOMAIN records : records[i].field = x}
             His == {i \in OnX : records[i].actor = "founder"}
             current == Current(f)
  <2>1. records \in Seq(StoredClaim) /\ DOMAIN records = 1..n /\ n \in Nat
    BY DEF AInv
  <2>2. Stands(current, records, n, x)
    BY <2>1, ReconstructStands DEF Current
  <2>3. OnX \in SUBSET Nat /\ His \in SUBSET Nat /\ OnX \subseteq 1..n
    BY <2>1
  <2> HIDE DEF n, records, current
  <2>4. current[x] = IF OnX = {} THEN Null ELSE records[Max(IF His # {} THEN His ELSE OnX)]
    <3>1. CASE OnX = {}
      <4>1. \A i \in 1..n : records[i].field # x
        BY <2>1, <3>1
      <4> QED
        BY <2>2, <3>1, <4>1 DEF Stands
    <3>2. CASE OnX # {}
      <4>1. PICK i \in 1..n :
              /\ records[i].field = x /\ current[x] = records[i]
              /\ \A j \in 1..n : records[j].field = x =>
                   \/ j <= i
                   \/ records[i].actor = "founder" /\ records[j].actor # "founder"
              /\ records[i].actor # "founder" =>
                   \A j \in 1..n : records[j].field = x => records[j].actor # "founder"
        BY <2>1, <2>2, <3>2 DEF Stands
      <4>2. i \in OnX
        BY <2>1, <4>1
      <4>3. CASE records[i].actor = "founder"
        <5>1. i \in His /\ \A j \in His : j <= i
          BY <2>1, <4>1, <4>2, <4>3
        <5>2. Max(His) = i
          <6> HIDE DEF His
          <6> QED
            BY <2>3, <5>1, MaxIs
        <5> QED
          BY <3>2, <4>1, <5>1, <5>2
      <4>4. CASE records[i].actor # "founder"
        <5>1. His = {} /\ \A j \in OnX : j <= i
          BY <2>1, <4>1, <4>4
        <5>2. Max(OnX) = i
          <6> HIDE DEF OnX
          <6> QED
            BY <2>3, <4>2, <5>1, MaxIs
        <5> QED
          BY <3>2, <4>1, <5>1, <5>2
      <4> QED
        BY <4>3, <4>4
    <3> QED
      BY <3>1, <3>2
  <2> QED
    BY <2>4 DEF records, current
<1> QED
  BY <1>1, AccountInvariant, PTL

-----------------------------------------------------------------------------
(* What a founder is shown of an account.                                  *)

(* Six fields or fewer are finitely many.                                  *)
LEMMA SixAreFinite ==
  ASSUME NEW a, NEW b, NEW c, NEW d, NEW e, NEW f
  PROVE  IsFiniteSet({a, b, c, d, e, f})
<1>1. IsFiniteSet({a})
  BY FS_Singleton
<1>2. IsFiniteSet({a} \cup {b})
  BY <1>1, FS_AddElement
<1>3. IsFiniteSet(({a} \cup {b}) \cup {c})
  BY <1>2, FS_AddElement
<1>4. IsFiniteSet((({a} \cup {b}) \cup {c}) \cup {d})
  BY <1>3, FS_AddElement
<1>5. IsFiniteSet(((({a} \cup {b}) \cup {c}) \cup {d}) \cup {e})
  BY <1>4, FS_AddElement
<1>6. IsFiniteSet((((({a} \cup {b}) \cup {c}) \cup {d}) \cup {e}) \cup {f})
  BY <1>5, FS_AddElement
<1>7. {a, b, c, d, e, f} = (((({a} \cup {b}) \cup {c}) \cup {d}) \cup {e}) \cup {f}
  OBVIOUS
<1> QED
  BY <1>6, <1>7

(* The tiles are about fields the founder may state.                       *)
LEMMA TileFieldsFinite ==
  ASSUME NEW t \in Tile
  PROVE  TileFields[t] \subseteq ExplicitFactFields /\ IsFiniteSet(TileFields[t])
<1>1. TileFields[t] \subseteq ExplicitFactFields
  BY DEF Tile, TileFields, ExplicitFactFields
<1>2. \E a, b, c, d, e, f : TileFields[t] = {a, b, c, d, e, f}
  <2>1. CASE t = "investor"
    BY <2>1 DEF TileFields
  <2>2. CASE t = "spv"
    BY <2>2 DEF TileFields
  <2>3. CASE t = "vendors"
    <3>1. TileFields[t] = {"sector", "product_type", "customer_type", "data_sensitivity",
                           "handles_personal_data", "handles_personal_data"}
      BY <2>3 DEF TileFields
    <3> QED
      BY <3>1
  <2>4. CASE t = "aws"
    <3>1. TileFields[t] = {"website", "cloud_provider", "stage", "uses_ai", "has_backup",
                           "has_backup"}
      BY <2>4 DEF TileFields
    <3> QED
      BY <3>1
  <2>5. CASE t = "microsoft"
    <3>1. TileFields[t] = {"cloud_provider", "stage", "uses_ai", "customer_type",
                           "customer_type", "customer_type"}
      BY <2>5 DEF TileFields
    <3> QED
      BY <3>1
  <2>6. CASE t = "posture"
    <3>1. TileFields[t] = {"handles_personal_data", "data_sensitivity", "has_backup",
                           "pen_test_completed", "pen_test_completed", "pen_test_completed"}
      BY <2>6 DEF TileFields
    <3> QED
      BY <3>1
  <2> QED
    BY <2>1, <2>2, <2>3, <2>4, <2>5, <2>6 DEF Tile
<1>3. PICK a, b, c, d, e, f : TileFields[t] = {a, b, c, d, e, f}
  BY <1>2
<1>4. IsFiniteSet({a, b, c, d, e, f})
  BY SixAreFinite
<1> QED
  BY <1>1, <1>3, <1>4

(* Enough claims stand for one of the tile's rungs.                        *)
Climbs(current, t) ==
  \E i \in DOMAIN Ladder[t] : Cardinality(Contributing(current, t)) >= Ladder[t][i][1]

(* A tile is lit by its signal, or by enough claims for one of its rungs.  *)
LEMMA LitIsSignalOrRung ==
  ASSUME NEW t \in Tile, NEW current
  PROVE  ProjectionState(current, t) # "unknown" <=> HasSignal(current, t) \/ Climbs(current, t)
<1> DEFINE held == Cardinality(Contributing(current, t))
           I == {i \in 1..Len(Ladder[t]) : held >= Ladder[t][i][1]}
           rung == SelectInSeq(Ladder[t], LAMBDA step : held >= step[1])
<1>1. rung = IF I # {} THEN Min(I) ELSE 0
  BY DEF SelectInSeq
<1>2. /\ Len(Ladder[t]) \in {1, 2} /\ DOMAIN Ladder[t] = 1..Len(Ladder[t])
      /\ \A i \in DOMAIN Ladder[t] : Ladder[t][i][2] # "unknown"
  <2>1. CASE t = "investor"
    BY <2>1 DEF Ladder
  <2>2. CASE t = "spv"
    BY <2>2 DEF Ladder
  <2>3. CASE t = "vendors"
    BY <2>3 DEF Ladder
  <2>4. CASE t = "aws"
    BY <2>4 DEF Ladder
  <2>5. CASE t = "microsoft"
    BY <2>5 DEF Ladder
  <2>6. CASE t = "posture"
    BY <2>6 DEF Ladder
  <2> QED
    BY <2>1, <2>2, <2>3, <2>4, <2>5, <2>6 DEF Tile
<1>3. ProjectionState(current, t) =
        IF HasSignal(current, t) THEN "likely"
        ELSE IF rung = 0 THEN "unknown" ELSE Ladder[t][rung][2]
  BY DEF ProjectionState
<1> HIDE DEF rung, held
<1>4. Climbs(current, t) <=> I # {}
  BY <1>2 DEF Climbs, held
<1>5. I # {} => Min(I) \in I
  <2>1. I \subseteq {1, 2}
    BY <1>2
  <2>2. I # {} => \E x \in I : \A y \in I : x =< y
    BY <2>1
  <2> QED
    BY <2>2 DEF Min
<1>6. I # {} => rung \in DOMAIN Ladder[t] /\ rung # 0
  BY <1>1, <1>2, <1>5
<1> QED
  BY <1>1, <1>2, <1>3, <1>4, <1>6

(* Nothing told is forgotten, though another word may replace it; the      *)
(* cloud provider's value is the one that counts.                          *)
Learns(was, is) ==
  /\ was \in Currents /\ is \in Currents
  /\ \A x \in ExplicitFactFields : was[x] # Null => is[x] # Null
  /\ was["cloud_provider"] # Null =>
       was["cloud_provider"].value = is["cloud_provider"].value

(* What contributes to a tile, and how much of it.                         *)
LEMMA ContributesMore ==
  ASSUME NEW was, NEW is, Learns(was, is), NEW t \in Tile
  PROVE  /\ Contributing(was, t) \subseteq Contributing(is, t)
         /\ Cardinality(Contributing(was, t)) \in Nat
         /\ Cardinality(Contributing(is, t)) \in Nat
         /\ Cardinality(Contributing(was, t)) <= Cardinality(Contributing(is, t))
<1>1. TileFields[t] \subseteq ExplicitFactFields /\ IsFiniteSet(TileFields[t])
  BY TileFieldsFinite
<1>2. Contributing(was, t) \subseteq Contributing(is, t)
  BY <1>1 DEF Contributing, Learns
<1>3. Contributing(is, t) \subseteq TileFields[t]
  BY DEF Contributing
<1>4. IsFiniteSet(Contributing(is, t)) /\ IsFiniteSet(Contributing(was, t))
  BY <1>1, <1>2, <1>3, FS_Subset
<1> QED
  BY <1>2, <1>4, FS_Subset, FS_CardinalityType

(* The signal of a cloud program stays.                                    *)
LEMMA SignalStays ==
  ASSUME NEW was, NEW is, Learns(was, is), NEW t \in Tile, HasSignal(was, t)
  PROVE  HasSignal(is, t)
<1>1. t \in DOMAIN Enrolled
  BY DEF HasSignal
<1>2. Enrolled[t] \in ExplicitFactFields /\ "cloud_provider" \in ExplicitFactFields
  BY <1>1 DEF Enrolled, ExplicitFactFields
<1>3. CASE was[Enrolled[t]] # Null
  BY <1>1, <1>2, <1>3 DEF HasSignal, Learns
<1>4. CASE was[Enrolled[t]] = Null
  <2>1. was["cloud_provider"] # Null /\ was["cloud_provider"].value \in CloudNames[t]
    BY <1>4 DEF HasSignal
  <2> QED
    BY <1>1, <1>2, <2>1 DEF HasSignal, Learns
<1> QED
  BY <1>3, <1>4

(* So every lit tile stays lit, and confidence does not fall.              *)
LEMMA LitGrows ==
  ASSUME NEW was, NEW is, Learns(was, is)
  PROVE  /\ LitTiles(was) \subseteq LitTiles(is)
         /\ \A t \in Tile : Confidence(was, t) = "medium" => Confidence(is, t) = "medium"
<1>1. ASSUME NEW t \in LitTiles(was) PROVE t \in LitTiles(is)
  <2>1. t \in Tile /\ (HasSignal(was, t) \/ Climbs(was, t))
    BY LitIsSignalOrRung DEF LitTiles
  <2>2. CASE HasSignal(was, t)
    BY <2>1, <2>2, SignalStays, LitIsSignalOrRung DEF LitTiles
  <2>3. CASE Climbs(was, t)
    <3>1. Climbs(is, t)
      <4>1. PICK i \in DOMAIN Ladder[t] :
              Cardinality(Contributing(was, t)) >= Ladder[t][i][1]
        BY <2>3 DEF Climbs
      <4>2. Ladder[t][i][1] \in Nat
        <5>1. CASE t = "investor"
          BY <5>1 DEF Ladder
        <5>2. CASE t = "spv"
          BY <5>2 DEF Ladder
        <5>3. CASE t = "vendors"
          BY <5>3 DEF Ladder
        <5>4. CASE t = "aws"
          BY <5>4 DEF Ladder
        <5>5. CASE t = "microsoft"
          BY <5>5 DEF Ladder
        <5>6. CASE t = "posture"
          BY <5>6 DEF Ladder
        <5> QED
          BY <2>1, <5>1, <5>2, <5>3, <5>4, <5>5, <5>6 DEF Tile
      <4>3. /\ Cardinality(Contributing(was, t)) \in Nat
            /\ Cardinality(Contributing(is, t)) \in Nat
            /\ Cardinality(Contributing(was, t)) <= Cardinality(Contributing(is, t))
        BY <2>1, ContributesMore
      <4>4. Cardinality(Contributing(is, t)) >= Ladder[t][i][1]
        BY <4>1, <4>2, <4>3
      <4> QED
        BY <4>4 DEF Climbs
    <3> QED
      BY <2>1, <3>1, LitIsSignalOrRung DEF LitTiles
  <2> QED
    BY <2>1, <2>2, <2>3
<1>2. ASSUME NEW t \in Tile, Confidence(was, t) = "medium" PROVE Confidence(is, t) = "medium"
  <2>1. /\ Contributing(was, t) \subseteq Contributing(is, t)
        /\ Cardinality(Contributing(was, t)) \in Nat
        /\ Cardinality(Contributing(is, t)) \in Nat
        /\ Cardinality(Contributing(was, t)) <= Cardinality(Contributing(is, t))
    BY ContributesMore
  <2>2. HasSignal(was, t) => HasSignal(is, t)
    BY SignalStays
  <2>3. CASE t \in {"aws", "microsoft"}
    <3>1. t \in DOMAIN Enrolled
      BY <2>3 DEF Enrolled
    <3>2. \A c : Confidence(c, t) = IF HasSignal(c, t) THEN "medium" ELSE "low"
      BY <2>3, <3>1 DEF Confidence
    <3> QED
      BY <1>2, <2>2, <3>2
  <2>4. CASE t \notin {"aws", "microsoft"}
    <3>1. t \notin DOMAIN Enrolled
      BY <2>4 DEF Enrolled
    <3>2. CASE t \in {"investor", "spv"}
      BY <1>2, <2>1, <3>1, <3>2 DEF Confidence
    <3>3. CASE t = "vendors"
      <4>1. \A c : Confidence(c, t) =
              IF Cardinality(Contributing(c, t)) >= 4 THEN "medium" ELSE "low"
        BY <3>1, <3>3 DEF Confidence
      <4>2. Cardinality(Contributing(was, t)) >= 4
        BY <1>2, <4>1
      <4>3. Cardinality(Contributing(is, t)) >= 4
        BY <2>1, <4>2
      <4> QED
        BY <4>1, <4>3
    <3>4. CASE t = "posture"
      <4> DEFINE risk == {"handles_personal_data", "data_sensitivity"}
      <4>1. \A c : Confidence(c, t) =
              IF Contributing(c, t) \cap risk # {} /\ Contributing(c, t) \ risk # {}
              THEN "medium" ELSE "low"
        BY <3>1, <3>4 DEF Confidence
      <4>2. Contributing(was, t) \cap risk # {} /\ Contributing(was, t) \ risk # {}
        BY <1>2, <4>1
      <4>3. Contributing(is, t) \cap risk # {} /\ Contributing(is, t) \ risk # {}
        BY <2>1, <4>2
      <4> QED
        BY <4>1, <4>3
    <3> QED
      BY <2>4, <3>2, <3>3, <3>4 DEF Tile
  <2> QED
    BY <2>3, <2>4
<1> QED
  BY <1>1, <1>2

(* Records are added at the end, of one founder's log at a time.           *)
LEMMA LogsGrow ==
  ASSUME AInv, [AccountNext]_accountVars, NEW f \in Founder
  PROVE  \E records \in Seq(StoredClaim) : log'[f] = log[f] \o records
<1>1. log \in [Founder -> Seq(StoredClaim)] /\ log[f] \in Seq(StoredClaim)
  BY DEF AInv
<1>2. CASE log' = log
  <2>1. << >> \in Seq(StoredClaim) /\ log'[f] = log[f] \o << >>
    BY <1>1, <1>2
  <2> QED
    BY <2>1
<1>3. ASSUME NEW g \in Founder, NEW records \in Seq(StoredClaim),
             log' = [log EXCEPT ![g] = @ \o records]
      PROVE  \E rs \in Seq(StoredClaim) : log'[f] = log[f] \o rs
  <2>1. CASE f = g
    BY <1>1, <1>3, <2>1
  <2>2. CASE f # g
    <3>1. << >> \in Seq(StoredClaim) /\ log'[f] = log[f] \o << >>
      BY <1>1, <1>3, <2>2
    <3> QED
      BY <3>1
  <2> QED
    BY <2>1, <2>2
<1>4. ASSUME NEW p \in SignedIn, NEW told \in Statement[p], Say(p, told)
      PROVE  \E records \in Seq(StoredClaim) : log'[f] = log[f] \o records
  <2>1. p \in Page /\ Who[p] \in Founder /\ told \in Seq(Said)
    BY SignedInIsFounder, AccountAssumption
  <2>2. FactRecords(told, "statement") \in Seq(StoredClaim)
    BY <2>1, FactsAreClaims DEF Origin
  <2>3. log' = [log EXCEPT ![Who[p]] = @ \o FactRecords(told, "statement")]
    BY <1>4 DEF Say
  <2> QED
    BY <1>3, <2>1, <2>2, <2>3
<1>5. ASSUME NEW p \in SignedIn, AppendRead(p)
      PROVE  \E records \in Seq(StoredClaim) : log'[f] = log[f] \o records
  <2> DEFINE s == call[p].session
  <2>1. p \in Page /\ Who[p] \in Founder /\ s \in Session
    BY <1>5, SignedInIsFounder DEF AppendRead, AInv, CallTypes
  <2>2. SessionAttachRecords(SessionOf[s], s) \in Seq(StoredClaim)
    BY <2>1, ReadIsClaims
  <2>3. log' = [log EXCEPT ![Who[p]] = @ \o SessionAttachRecords(SessionOf[s], s)]
    BY <1>5 DEF AppendRead
  <2> HIDE DEF s
  <2> QED
    BY <1>3, <2>1, <2>2, <2>3
<1> QED
  BY <1>2, <1>4, <1>5
  DEF AccountNext, accountVars, Attach, Claim, Attached, AttachFailed, Crash

(* What a founder was shown stays, unless the cloud provider is another:   *)
(* a statement or a cold read adds to what the projections count           *)
(* (profile-projections.js).                                               *)
THEOREM LitTilesStayLit == AccountSpec => LitStaysLit
<1> DEFINE Stays(f) ==
      LET was == Current(f)
          is == Reconstruct(log'[f])
          moved == /\ was["cloud_provider"] # Null
                   /\ was["cloud_provider"].value # is["cloud_provider"].value
      IN  moved \/ /\ LitTiles(was) \subseteq LitTiles(is)
                   /\ \A t \in Tile : Confidence(was, t) = "medium" => Confidence(is, t) = "medium"
<1>1. ASSUME AInv, [AccountNext]_accountVars, NEW f \in Founder PROVE Stays(f)
  <2> DEFINE was == Current(f)
             is == Reconstruct(log'[f])
  <2>1. log[f] \in Seq(StoredClaim)
    BY <1>1 DEF AInv
  <2>2. PICK records \in Seq(StoredClaim) : log'[f] = log[f] \o records
    BY <1>1, LogsGrow
  <2>3. /\ log'[f] \in Seq(StoredClaim) /\ Len(log[f]) <= Len(log'[f])
        /\ Len(log[f]) \in Nat /\ Len(log'[f]) \in Nat
        /\ \A i \in 1..Len(log[f]) : log'[f][i] = log[f][i]
    BY <2>1, <2>2
  <2>4. /\ was \in Currents /\ is \in Currents
        /\ \A x \in ExplicitFactFields : Stands(was, log[f], Len(log[f]), x)
        /\ \A x \in ExplicitFactFields : Stands(is, log'[f], Len(log'[f]), x)
    BY <2>1, <2>3, ReconstructStands DEF Current
  <2>5. ASSUME NEW x \in ExplicitFactFields, was[x] # Null PROVE is[x] # Null
    <3>1. PICK i \in 1..Len(log[f]) : log[f][i].field = x
      BY <2>4, <2>5 DEF Stands
    <3>2. i \in 1..Len(log'[f]) /\ log'[f][i].field = x
      BY <2>3, <3>1
    <3>3. PICK j \in 1..Len(log'[f]) : is[x] = log'[f][j]
      BY <2>4, <3>2 DEF Stands
    <3>4. log'[f][j] \in StoredClaim
      BY <2>3, <3>3
    <3> QED
      BY <3>3, <3>4, AccountAssumption
  <2> HIDE DEF was, is
  <2>6. CASE /\ was["cloud_provider"] # Null
             /\ was["cloud_provider"].value # is["cloud_provider"].value
    BY <2>6 DEF was, is
  <2>7. CASE ~(/\ was["cloud_provider"] # Null
               /\ was["cloud_provider"].value # is["cloud_provider"].value)
    <3>1. Learns(was, is)
      BY <2>4, <2>5, <2>7 DEF Learns
    <3>2. /\ LitTiles(was) \subseteq LitTiles(is)
          /\ \A t \in Tile : Confidence(was, t) = "medium" => Confidence(is, t) = "medium"
      BY <3>1, LitGrows
    <3> QED
      BY <3>2 DEF was, is
  <2> QED
    BY <2>6, <2>7
<1>2. AInv /\ [AccountNext]_accountVars
      => [\A f \in {g \in Founder : log'[g] # log[g]} : Stays(f)]_accountVars
  BY <1>1
<1> QED
  BY <1>2, AccountInvariant, PTL DEF AccountSpec, LitStaysLit

-----------------------------------------------------------------------------
(* What stands in a Passport.                                              *)

Layers == {"inferred", "declared", "corrected", "attested"}

(* The lattice ranks its four layers.                                      *)
LEMMA Ranks == \A layer \in Layers : LayerRank(layer) \in 1..4
<1> SUFFICES ASSUME NEW layer \in Layers PROVE LayerRank(layer) \in 1..4
  OBVIOUS
<1>1. DOMAIN FactLayers = 1..4
  BY DEF FactLayers
<1>2. \E i \in DOMAIN FactLayers : FactLayers[i] = layer
  <2>1. FactLayers[1] = "inferred" /\ FactLayers[2] = "declared"
        /\ FactLayers[3] = "corrected" /\ FactLayers[4] = "attested"
    BY DEF FactLayers
  <2> QED
    BY <1>1, <2>1 DEF Layers
<1> QED
  BY <1>1, <1>2 DEF LayerRank

(* A fact of the record stands on each key of it, and outranks, or is of   *)
(* the rank of, whatever else was said of the key.                         *)
Foremost(folded, record, k) ==
  /\ DOMAIN folded = {record[i].key : i \in 1..k}
  /\ \A x \in DOMAIN folded : folded[x] \in Fact
  /\ \A i \in 1..k :
       LayerRank(record[i].layer) <= LayerRank(folded[record[i].key].layer)

(* The better of two facts is one of them, and ranks as high as either.    *)
LEMMA BetterRanks ==
  ASSUME NEW best \in Fact \cup {NoFact}, NEW fact \in Fact
  PROVE  /\ Better(best, fact) \in Fact
         /\ LayerRank(fact.layer) <= LayerRank(Better(best, fact).layer)
         /\ best \in Fact => LayerRank(best.layer) <= LayerRank(Better(best, fact).layer)
<1>1. fact.layer \in Layers /\ LayerRank(fact.layer) \in 1..4
  BY PassportAssumption, Ranks DEF Layers
<1>2. CASE best = NoFact
  BY <1>1, <1>2, PassportAssumption DEF Better
<1>3. CASE best \in Fact
  <2>1. best.layer \in Layers /\ LayerRank(best.layer) \in 1..4 /\ best # NoFact
    BY <1>3, PassportAssumption, Ranks DEF Layers
  <2>2. CASE Beats(fact, best)
    <3>1. LayerRank(best.layer) <= LayerRank(fact.layer)
      BY <1>1, <2>1, <2>2 DEF Beats
    <3> QED
      BY <1>1, <2>2, <3>1 DEF Better
  <2>3. CASE ~Beats(fact, best)
    <3>1. LayerRank(fact.layer) <= LayerRank(best.layer)
      BY <1>1, <2>1, <2>3 DEF Beats
    <3> QED
      BY <1>3, <2>1, <2>3, <3>1 DEF Better
  <2> QED
    BY <2>2, <2>3
<1> QED
  BY <1>2, <1>3

(* One fact more, folded.                                                  *)
LEMMA FoldForemost ==
  ASSUME NEW record, NEW k \in Nat, NEW a, record[k + 1] \in Fact,
         \A i \in 1..k : record[i] \in Fact, Foremost(a, record, k)
  PROVE  Foremost(FoldFact(a, record[k + 1]), record, k + 1)
<1> DEFINE fact == record[k + 1]
           b == FoldFact(a, fact)
           y == fact.key
           best == IF y \in DOMAIN a THEN a[y] ELSE NoFact
<1>1. 1..(k + 1) = (1..k) \cup {k + 1}
  OBVIOUS
<1>2. DOMAIN b = DOMAIN a \cup {y}
  BY DEF FoldFact
<1>3. b[y] = Better(best, fact)
  BY <1>2 DEF FoldFact
<1>4. \A x \in DOMAIN a : x # y => b[x] = a[x]
  BY DEF FoldFact
<1>5. best \in Fact \cup {NoFact} /\ fact \in Fact
  BY DEF Foremost
<1> HIDE DEF b, fact
<1>6. DOMAIN b = {record[i].key : i \in 1..(k + 1)}
  BY <1>1, <1>2 DEF Foremost, fact
<1>7. b[y] \in Fact /\ LayerRank(fact.layer) <= LayerRank(b[y].layer)
  BY <1>3, <1>5, BetterRanks
<1>8. \A x \in DOMAIN b : b[x] \in Fact
  BY <1>2, <1>4, <1>7 DEF Foremost
<1>9. ASSUME NEW i \in 1..(k + 1)
      PROVE  LayerRank(record[i].layer) <= LayerRank(b[record[i].key].layer)
  <2>1. CASE i = k + 1
    BY <1>7, <2>1 DEF fact
  <2>2. CASE i \in 1..k /\ record[i].key # y
    <3>1. record[i].key \in DOMAIN a
      BY <2>2 DEF Foremost
    <3> QED
      BY <1>4, <2>2, <3>1 DEF Foremost
  <2>3. CASE i \in 1..k /\ record[i].key = y
    <3>1. y \in DOMAIN a
      BY <2>3 DEF Foremost
    <3>2. a[y] \in Fact /\ LayerRank(record[i].layer) <= LayerRank(a[y].layer)
      BY <2>3, <3>1 DEF Foremost
    <3>3. LayerRank(a[y].layer) <= LayerRank(b[y].layer)
      BY <1>3, <1>5, <3>1, <3>2, BetterRanks
    <3>4. /\ LayerRank(record[i].layer) \in 1..4 /\ LayerRank(a[y].layer) \in 1..4
          /\ LayerRank(b[y].layer) \in 1..4
      <4>1. record[i] \in Fact /\ b[y] \in Fact
        BY <1>7, <2>3
      <4>2. \A f \in Fact : LayerRank(f.layer) \in 1..4
        BY PassportAssumption, Ranks DEF Layers
      <4> QED
        BY <3>2, <4>1, <4>2
    <3> QED
      BY <2>3, <3>2, <3>3, <3>4
  <2> QED
    BY <1>1, <2>1, <2>2, <2>3
<1>10. Foremost(b, record, k + 1)
  BY <1>6, <1>8, <1>9 DEF Foremost
<1> QED
  BY <1>10 DEF b, fact

(* So it is of a whole record.                                             *)
LEMMA PassportForemost ==
  ASSUME NEW record \in Seq(Fact)
  PROVE  Foremost(FoldFacts(record), record, Len(record))
<1> DEFINE n == Len(record)
           Keys_ == {fact.key : fact \in Fact}
           Folds == UNION {[K -> Fact] : K \in SUBSET Keys_}
           G == {p \in (0..n) \X Folds : Foremost(p[2], record, p[1])}
<1>1. n \in Nat /\ DOMAIN record = 1..n /\ \A i \in 1..n : record[i] \in Fact
  OBVIOUS
<1> HIDE DEF n
<1>2. <<0, << >> >> \in G
  <2>1. 1..0 = {} /\ DOMAIN << >> = {} /\ {} \in SUBSET Keys_
    OBVIOUS
  <2>2. << >> \in Folds
    <3>1. << >> \in [1..0 -> Fact]
      OBVIOUS
    <3>2. << >> \in [{} -> Fact]
      BY <2>1, <3>1
    <3> QED
      BY <2>1, <3>2
  <2>3. Foremost(<< >>, record, 0)
    <3>1. {record[i].key : i \in 1..0} = {}
      BY <2>1
    <3> QED
      BY <2>1, <3>1 DEF Foremost
  <2> HIDE DEF Folds
  <2>4. <<0, << >> >> \in (0..n) \X Folds
    BY <1>1, <2>2
  <2> QED
    BY <2>3, <2>4
<1>3. ASSUME NEW k \in 0..(n - 1), NEW a, <<k, a>> \in G
      PROVE  <<k + 1, FoldFact(a, record[k + 1])>> \in G
  <2>1. k \in Nat /\ k + 1 \in 1..n /\ k + 1 \in 0..n /\ 1..k \subseteq 1..n
    BY <1>1
  <2>2. Foremost(a, record, k)
    BY <1>3
  <2> DEFINE b == FoldFact(a, record[k + 1])
  <2>3. Foremost(b, record, k + 1)
    BY <1>1, <2>1, <2>2, FoldForemost
  <2>4. DOMAIN b \in SUBSET Keys_ /\ b = [x \in DOMAIN b |-> b[x]]
    <3>1. DOMAIN b \in SUBSET Keys_
      <4>1. 1..(k + 1) \subseteq 1..n
        BY <1>1, <2>1
      <4> HIDE DEF b
      <4> QED
        BY <1>1, <2>3, <4>1 DEF Foremost
    <3> QED
      BY <3>1 DEF FoldFact
  <2>5. b \in Folds
    <3> HIDE DEF b
    <3>1. b \in [DOMAIN b -> Fact]
      BY <2>3, <2>4 DEF Foremost
    <3> QED
      BY <2>4, <3>1
  <2> HIDE DEF b
  <2>6. <<k + 1, b>> \in G
    BY <2>1, <2>3, <2>5
  <2> QED
    BY <2>6 DEF b
<1>4. <<n, KeyFold!Fold(<< >>, record)>> \in G
  <2> HIDE DEF G
  <2> QED
    BY <1>1, <1>2, <1>3, KeyFold!FoldInduction
<1>5. FoldFacts(record) = KeyFold!Fold(<< >>, record)
  BY SameFold DEF FoldFacts
<1> QED
  BY <1>4, <1>5 DEF n

(* What a viewer is shown of a key is what stands on it, with the count of *)
(* what it superseded.                                                     *)
LEMMA ShownIsWinner ==
  ASSUME NEW audience, NEW groups, NEW others, NEW g \in groups,
         NEW e \in Entries(ProjectVehicleForViewer(facts, FactLens(audience, groups, others)), g)
  PROVE  LET folded == FoldFacts(facts)
         IN  /\ e.key \in DOMAIN folded
             /\ e = [key |-> e.key, value |-> folded[e.key].value, layer |-> folded[e.key].layer,
                     superseded |-> Len(On(facts, e.key)) - 1]
<1> DEFINE folded == FoldFacts(facts)
           lens == FactLens(audience, groups, others)
           visible == Visible(facts, audience)
           Entry(k) == [key |-> k, value |-> visible[k].value, layer |-> visible[k].layer,
                        superseded |-> Len(On(facts, k)) - 1]
<1>1. lens.groups = groups /\ lens.audience = audience
  BY DEF FactLens
<1>2. Entries(ProjectVehicleForViewer(facts, lens), g) = FactSection(facts, audience, g).entries
  BY <1>1 DEF Entries, ProjectVehicleForViewer
<1>3. FactSection(facts, audience, g).entries =
        {Entry(k) : k \in {x \in DOMAIN visible : visible[x].group = g}}
  BY DEF FactSection, Section
<1>4. PICK k \in DOMAIN visible : e = Entry(k)
  BY <1>2, <1>3
<1>5. k \in DOMAIN folded /\ visible[k] = folded[k]
  BY <1>4 DEF Visible, Restrict
<1>6. e.key = k
  BY <1>4
<1> QED
  BY <1>4, <1>5, <1>6

Collected == facts \in Seq(Fact)

(* Two people who are shown a fact are shown the same, and no fact of the  *)
(* record outranks it: a Passport is folded first and filtered after       *)
(* (projectVehicleForViewer).                                              *)
THEOREM PassportViewersNeverDisagree == PassportSpec => []ViewersNeverDisagree
<1>1. PassportInit => Collected
  BY DEF PassportInit, Collected
<1>2. Collected /\ [PassportNext]_facts => Collected'
  BY DEF PassportNext, Arrive, Collected
<1>3. Collected => ViewersNeverDisagree
  <2> SUFFICES ASSUME facts \in Seq(Fact) PROVE ViewersNeverDisagree
    BY DEF Collected
  <2> DEFINE folded == FoldFacts(facts)
             Person(a, base) == ProjectVehicleForViewer(facts, MintLens(base, a, {}))
  <2>1. Foremost(folded, facts, Len(facts)) /\ DOMAIN facts = 1..Len(facts)
    BY PassportForemost
  <2>2. \A base \in DOMAIN VehicleLenses :
          VehicleLenses[base] = FactLens(VehicleLenses[base].audience,
                                         VehicleLenses[base].groups, VehicleLenses[base].others)
    <3>1. DOMAIN VehicleLenses = {"filled", "dd", "enterprise", "ciso", "commercial"}
      BY DEF VehicleLenses
    <3>2. ASSUME NEW a, NEW gs, NEW os, NEW lens, lens = FactLens(a, gs, os)
          PROVE  lens = FactLens(lens.audience, lens.groups, lens.others)
      BY <3>2 DEF FactLens
    <3>3. ASSUME NEW base \in DOMAIN VehicleLenses
          PROVE  \E a, gs, os : VehicleLenses[base] = FactLens(a, gs, os)
      <4>1. VehicleLenses["filled"] =
              FactLens("founder", {"identity", "context"}, {"engagements"})
        BY DEF VehicleLenses
      <4>2. VehicleLenses["dd"] =
              FactLens("investor", {"raise", "financials", "traction", "cap_table", "team",
                                    "market", "legal"}, {"disagreements", "capital"})
        BY DEF VehicleLenses
      <4>3. VehicleLenses["enterprise"] =
              FactLens("enterprise_buyer", {"certifications", "privacy", "continuity",
                                            "references"}, {"engagements"})
        BY DEF VehicleLenses
      <4>4. VehicleLenses["ciso"] =
              FactLens("ciso", {"cloud_posture", "provenance"}, {"engagements"})
        BY DEF VehicleLenses
      <4>5. VehicleLenses["commercial"] = FactLens("ethiks360_admin", {}, {"engagements"})
        BY DEF VehicleLenses
      <4> QED
        BY <3>1, <4>1, <4>2, <4>3, <4>4, <4>5
    <3> QED
      BY <3>2, <3>3
  <2> SUFFICES ASSUME NEW base \in DOMAIN VehicleLenses, NEW g \in VehicleLenses[base].groups,
                      NEW e \in Entries(ProjectVehicleForViewer(facts, VehicleLenses[base]), g)
               PROVE  /\ \A b \in DOMAIN VehicleLenses :
                           \A o \in Entries(Person(VehicleLenses[b].audience, base), g) :
                             o.key = e.key => o = e
                      /\ \A i \in DOMAIN facts :
                           facts[i].key = e.key => LayerRank(facts[i].layer) <= LayerRank(e.layer)
    BY DEF ViewersNeverDisagree
  <2> DEFINE Shown_(k) == [key |-> k, value |-> folded[k].value, layer |-> folded[k].layer,
                           superseded |-> Len(On(facts, k)) - 1]
  <2>3. e.key \in DOMAIN folded /\ e = Shown_(e.key)
    BY <2>2, ShownIsWinner
  <2>4. ASSUME NEW b \in DOMAIN VehicleLenses,
               NEW o \in Entries(Person(VehicleLenses[b].audience, base), g)
        PROVE  o = Shown_(o.key)
    <3>1. MintLens(base, VehicleLenses[b].audience, {}) =
            FactLens(VehicleLenses[b].audience, VehicleLenses[base].groups,
                     VehicleLenses[base].others)
      <4>1. \A S : S \ {} = S
        OBVIOUS
      <4> QED
        BY <4>1 DEF MintLens
    <3> QED
      BY <3>1, ShownIsWinner
  <2>5. e.layer = folded[e.key].layer
    BY <2>3
  <2>6. \A i \in DOMAIN facts :
          facts[i].key = e.key => LayerRank(facts[i].layer) <= LayerRank(e.layer)
    BY <2>1, <2>5 DEF Foremost
  <2>7. ASSUME NEW b \in DOMAIN VehicleLenses,
               NEW o \in Entries(Person(VehicleLenses[b].audience, base), g), o.key = e.key
        PROVE  o = e
    <3>1. o = Shown_(o.key)
      BY <2>4
    <3> HIDE DEF Shown_
    <3>2. o = Shown_(e.key)
      BY <2>7, <3>1
    <3> QED
      BY <2>3, <3>2
  <2> HIDE DEF Person, Shown_, folded
  <2>8. \A b \in DOMAIN VehicleLenses :
          \A o \in Entries(Person(VehicleLenses[b].audience, base), g) : o.key = e.key => o = e
    BY <2>7
  <2> QED
    BY <2>6, <2>8
<1> QED
  BY <1>1, <1>2, <1>3, PTL DEF PassportSpec
-----------------------------------------------------------------------------
(* Prereads. A preread that was dropped was the oldest kept; the reads in  *)
(* flight are of prereads no restart ended, and never more than the pool   *)
(* has places.                                                             *)

(* What a preread's session can say. *)
Standing == {"processing", "complete", "failed", "gone"}

(* The prereads whose work no restart ended. *)
Live == (1..Len(session)) \ orphaned

(* A crew of tasks begun: never more than the pool has places. *)
Crew(tasks) ==
  {r \in SUBSET tasks : IsFiniteSet(r) /\ Cardinality(r) <= MaxConcurrent}

(* The first g prereads are gone, and no other. *)
GoneUpTo(of, g) ==
  /\ g \in 0..Len(of)
  /\ \A i \in 1..Len(of) : of[i] = "gone" <=> i <= g

ReadsKeepTheirOrder ==
  /\ session \in Seq(Standing)
  /\ \E g \in 0..Len(session) :
       GoneUpTo(session, g) /\ Len(session) - g <= MemoryCap - 1 + MaxUrls

FailedStayFailed ==
  \A i \in orphaned : i \in 1..Len(session) /\ session[i] \in {"failed", "gone"}

OnlyLiveWork ==
  /\ waiting \in Seq(Seq(Live))
  /\ executing \in Seq(Crew(Live))
  /\ Len(waiting) = Len(executing)

RInv == ReadsKeepTheirOrder /\ FailedStayFailed /\ OnlyLiveWork

(* The bounds a batch is held to are positive (admin-preread.js). *)
LEMMA PrereadSizes == MemoryCap \in Nat \ {0} /\ MaxUrls \in Nat \ {0} /\ MaxConcurrent \in Nat \ {0}
BY PrereadAssumption

(* When the first g are gone, those kept are an interval. *)
LEMMA KeptIsTheTail ==
  ASSUME NEW S, NEW of \in Seq(S), NEW g, GoneUpTo(of, g)
  PROVE  /\ g \in 0..Len(of) /\ Len(of) \in Nat
         /\ Kept(of) = (g + 1)..Len(of)
         /\ IsFiniteSet(Kept(of))
         /\ Cardinality(Kept(of)) = Len(of) - g
<1>1. Len(of) \in Nat /\ DOMAIN of = 1..Len(of) /\ g \in 0..Len(of)
  BY DEF GoneUpTo
<1>2. Kept(of) = (g + 1)..Len(of)
  BY <1>1 DEF Kept, GoneUpTo
<1>3. IsFiniteSet((g + 1)..Len(of)) /\ Cardinality((g + 1)..Len(of)) = Len(of) - g
  <2>1. g + 1 \in Int /\ Len(of) \in Int
    BY <1>1
  <2>2. /\ IsFiniteSet((g + 1)..Len(of))
        /\ Cardinality((g + 1)..Len(of))
             = IF g + 1 > Len(of) THEN 0 ELSE Len(of) - (g + 1) + 1
    BY ONLY <2>1, FS_Interval, Zenon
  <2> QED
    BY <1>1, <2>2
<1>4. IsFiniteSet(Kept(of)) /\ Cardinality(Kept(of)) = Len(of) - g
  BY <1>2, <1>3, Zenon
<1> QED
  BY <1>1, <1>2, <1>4

(* How many kept prereads are older than the i-th. *)
LEMMA OlderCounted ==
  ASSUME NEW n \in Nat, NEW g \in 0..n, NEW i \in 1..n
  PROVE  Cardinality({j \in (g + 1)..n : j < i}) = IF i <= g THEN 0 ELSE i - 1 - g
<1>1. {j \in (g + 1)..n : j < i} = (g + 1)..(i - 1)
  OBVIOUS
<1>2. Cardinality((g + 1)..(i - 1)) = IF g + 1 > i - 1 THEN 0 ELSE (i - 1) - (g + 1) + 1
  BY FS_Interval
<1>3. Cardinality({j \in (g + 1)..n : j < i}) = Cardinality((g + 1)..(i - 1))
  BY <1>1, Zenon
<1> QED
  BY <1>2, <1>3

(* enforcePrereadMemoryGuard drops a prefix, and leaves one place free. *)
LEMMA GuardDropsTheOldest ==
  ASSUME session \in Seq(Standing), NEW g, GoneUpTo(session, g)
  PROVE  /\ MemoryGuard \in Seq(Standing)
         /\ Len(MemoryGuard) = Len(session)
         /\ \A i \in 1..Len(session) : MemoryGuard[i] \in {session[i], "gone"}
         /\ \E h \in 0..Len(session) :
              GoneUpTo(MemoryGuard, h) /\ Len(session) - h <= MemoryCap - 1
<1> DEFINE n == Len(session)
           size == Cardinality(Kept(session))
           drop == IF size >= MemoryCap THEN size - (MemoryCap - 1) ELSE 0
           Older(i) == Cardinality({j \in Kept(session) : j < i})
           after == [i \in 1..n |-> IF Older(i) < drop THEN "gone" ELSE session[i]]
<1>1. /\ g \in 0..n /\ n \in Nat /\ Kept(session) = (g + 1)..n /\ size = n - g
  BY KeptIsTheTail
<1>2. DOMAIN session = 1..n
  OBVIOUS
<1>3. MemoryGuard = after
  BY <1>2 DEF MemoryGuard
<1>4. \A i \in 1..n : Older(i) = IF i <= g THEN 0 ELSE i - 1 - g
  BY <1>1, OlderCounted
<1>5. drop \in Nat /\ g + drop \in 0..n /\ n - (g + drop) <= MemoryCap - 1
  BY <1>1, PrereadSizes
<1> HIDE DEF size, drop, Older
<1>6. \A i \in 1..n : session[i] \in Standing
  OBVIOUS
<1>7. after \in Seq(Standing) /\ Len(after) = n /\ \A i \in 1..n : after[i] \in {session[i], "gone"}
  <2>1. after \in [1..n -> Standing]
    BY <1>6 DEF Standing
  <2>2. \A i \in 1..n : after[i] \in {session[i], "gone"}
    OBVIOUS
  <2> HIDE DEF after
  <2> QED
    BY <1>1, <2>1, <2>2
<1>8. GoneUpTo(after, g + drop)
  <2>1. ASSUME NEW i \in 1..n
        PROVE  after[i] = "gone" <=> i <= g + drop
    <3>1. session[i] = "gone" <=> i <= g
      BY DEF GoneUpTo
    <3>2. after[i] = IF Older(i) < drop THEN "gone" ELSE session[i]
      OBVIOUS
    <3> HIDE DEF after
    <3>3. CASE i <= g
      <4>1. after[i] = "gone"
        BY <3>1, <3>2, <3>3
      <4> QED
        BY <4>1, <3>3, <1>1, <1>5
    <3>4. CASE ~(i <= g)
      <4>1. Older(i) = i - 1 - g
        BY <1>4, <3>4
      <4>2. Older(i) < drop <=> i <= g + drop
        BY <4>1, <1>1, <1>5
      <4> QED
        BY <4>2, <3>1, <3>2, <3>4
    <3> QED
      BY <3>3, <3>4
  <2> HIDE DEF after
  <2> QED
    BY <2>1, <1>5, <1>7 DEF GoneUpTo
<1> HIDE DEF after
<1> QED
  BY <1>3, <1>5, <1>7, <1>8

(* A sequence has no more items than places. *)
LEMMA ItemsAreFewer ==
  ASSUME NEW S, NEW seq \in Seq(S)
  PROVE  /\ ToSet(seq) \subseteq S
         /\ IsFiniteSet(ToSet(seq))
         /\ Cardinality(ToSet(seq)) \in Nat
         /\ Cardinality(ToSet(seq)) <= Len(seq)
<1>1. Len(seq) \in Nat /\ DOMAIN seq = 1..Len(seq) /\ seq \in [1..Len(seq) -> S]
  OBVIOUS
<1>2. ToSet(seq) \subseteq S
  BY <1>1 DEF ToSet
<1>3. seq \in Surjection(1..Len(seq), ToSet(seq))
  BY <1>1 DEF ToSet, Surjection
<1>4. IsFiniteSet(1..Len(seq)) /\ Cardinality(1..Len(seq)) = Len(seq)
  BY <1>1, FS_Interval
<1>5. IsFiniteSet(ToSet(seq)) /\ Cardinality(ToSet(seq)) <= Cardinality(1..Len(seq))
  BY <1>3, <1>4, FS_Surjection
<1> QED
  BY <1>2, <1>4, <1>5, FS_CardinalityType

(* What runWithConcurrency begins never overfills the pool. *)
LEMMA PoolIsBounded ==
  ASSUME NEW tasks, NEW queue \in Seq(tasks), NEW running \in Crew(tasks)
  PROVE  /\ Begin(queue, running).queue \in Seq(tasks)
         /\ Begin(queue, running).running \in Crew(tasks)
<1> DEFINE places == MaxConcurrent - Cardinality(running)
           n == IF Len(queue) < places THEN Len(queue) ELSE places
           first == SubSeq(queue, 1, n)
           rest == SubSeq(queue, n + 1, Len(queue))
<1>1. /\ running \subseteq tasks /\ IsFiniteSet(running)
      /\ Cardinality(running) \in Nat /\ Cardinality(running) <= MaxConcurrent
  BY FS_CardinalityType DEF Crew
<1>2. /\ Len(queue) \in Nat /\ \A i \in 1..Len(queue) : queue[i] \in tasks
  OBVIOUS
<1>3. n \in 0..Len(queue) /\ n <= places /\ places \in Nat
  BY <1>1, <1>2, PrereadSizes
<1>4. Begin(queue, running) = [queue |-> rest, running |-> running \cup ToSet(first)]
  BY DEF Begin
<1> HIDE DEF n, places
<1>5. rest \in Seq(tasks)
  <2>1. \A i \in (n + 1)..Len(queue) : queue[i] \in tasks
    BY <1>2, <1>3
  <2> QED
    BY <2>1, <1>2, <1>3, SubSeqProperties
<1>6. first \in Seq(tasks) /\ Len(first) = n
  <2>1. \A i \in 1..n : queue[i] \in tasks
    BY <1>2, <1>3
  <2>2. first \in Seq(tasks) /\ Len(first) = IF 1 <= n THEN n - 1 + 1 ELSE 0
    BY <2>1, <1>3, SubSeqProperties
  <2> QED
    BY <2>2, <1>3
<1> HIDE DEF first, rest
<1>7. /\ ToSet(first) \subseteq tasks /\ IsFiniteSet(ToSet(first))
      /\ Cardinality(ToSet(first)) \in Nat /\ Cardinality(ToSet(first)) <= n
  BY <1>6, ItemsAreFewer
<1>8. /\ IsFiniteSet(running \cup ToSet(first))
      /\ Cardinality(running \cup ToSet(first)) <= MaxConcurrent
  <2>1. /\ IsFiniteSet(running \cup ToSet(first))
        /\ Cardinality(running \cup ToSet(first))
             = Cardinality(running) + Cardinality(ToSet(first))
               - Cardinality(running \cap ToSet(first))
    BY <1>1, <1>7, FS_Union
  <2>2. Cardinality(running \cap ToSet(first)) \in Nat
    BY <1>1, FS_Intersection, FS_CardinalityType
  <2>3. Cardinality(running) + Cardinality(ToSet(first)) <= MaxConcurrent
    BY <1>1, <1>3, <1>7, PrereadSizes DEF places
  <2> QED
    BY <2>1, <2>2, <2>3, <1>1, <1>7, PrereadSizes
<1>9. running \cup ToSet(first) \in Crew(tasks)
  BY <1>1, <1>7, <1>8 DEF Crew
<1> QED
  BY <1>4, <1>5, <1>9

(* A process that has seen no batch. *)
LEMMA PrereadInitial == PrereadInit => RInv
<1> SUFFICES ASSUME PrereadInit PROVE RInv
  OBVIOUS
<1>1. session = << >> /\ waiting = << >> /\ executing = << >> /\ orphaned = {}
  BY DEF PrereadInit
<1>2. Len(session) = 0 /\ Len(waiting) = 0 /\ Len(executing) = 0
  BY <1>1
<1>3. ReadsKeepTheirOrder
  <2>1. session \in Seq(Standing)
    BY <1>1
  <2>2. GoneUpTo(session, 0) /\ Len(session) - 0 <= MemoryCap - 1 + MaxUrls
    BY <1>2, PrereadSizes DEF GoneUpTo
  <2> QED
    BY <2>1, <2>2, <1>2 DEF ReadsKeepTheirOrder
<1>4. FailedStayFailed
  BY <1>1 DEF FailedStayFailed
<1>5. OnlyLiveWork
  BY <1>1, <1>2 DEF OnlyLiveWork
<1> QED
  BY <1>3, <1>4, <1>5 DEF RInv

(* A batch is admitted: the guard runs before its sessions are made. *)
LEMMA SubmitKeeps ==
  ASSUME RInv, NEW m \in 1..MaxUrls, Submit(m)
  PROVE  RInv'
<1> DEFINE n == Len(session)
           ids == [k \in 1..m |-> n + k]
           pool == Begin(ids, {})
           fresh == [k \in 1..m |-> "processing"]
<1>1. /\ session \in Seq(Standing) /\ n \in Nat /\ m \in Nat /\ m <= MaxUrls /\ m >= 1
  BY PrereadSizes DEF RInv, ReadsKeepTheirOrder
<1>2. PICK g \in 0..n : GoneUpTo(session, g)
  BY DEF RInv, ReadsKeepTheirOrder
<1>3. /\ MemoryGuard \in Seq(Standing) /\ Len(MemoryGuard) = n
      /\ \A i \in 1..n : MemoryGuard[i] \in {session[i], "gone"}
      /\ \E h \in 0..n : GoneUpTo(MemoryGuard, h) /\ n - h <= MemoryCap - 1
  BY <1>1, <1>2, GuardDropsTheOldest
<1>4. PICK h \in 0..n : GoneUpTo(MemoryGuard, h) /\ n - h <= MemoryCap - 1
  BY <1>3
<1>5. /\ session' = MemoryGuard \o fresh /\ orphaned' = orphaned
      /\ waiting' = Append(waiting, pool.queue)
      /\ executing' = Append(executing, pool.running)
  BY DEF Submit
<1>6. fresh \in Seq(Standing) /\ Len(fresh) = m
  BY <1>1 DEF Standing
<1> HIDE DEF fresh
<1>7. /\ session' \in Seq(Standing) /\ Len(session') = n + m
      /\ \A i \in 1..(n + m) :
           session'[i] = IF i <= n THEN MemoryGuard[i] ELSE fresh[i - n]
  <2>1. /\ MemoryGuard \o fresh \in Seq(Standing)
        /\ Len(MemoryGuard \o fresh) = Len(MemoryGuard) + Len(fresh)
        /\ \A i \in 1..(Len(MemoryGuard) + Len(fresh)) :
             (MemoryGuard \o fresh)[i]
               = IF i <= Len(MemoryGuard) THEN MemoryGuard[i] ELSE fresh[i - Len(MemoryGuard)]
    BY ONLY <1>3, <1>6, ConcatProperties, Zenon
  <2> QED
    BY <2>1, <1>3, <1>5, <1>6
<1>8. ReadsKeepTheirOrder'
  <2>1. ASSUME NEW i \in 1..(n + m)
        PROVE  session'[i] = "gone" <=> i <= h
    <3>1. CASE i <= n
      BY <3>1, <1>1, <1>3, <1>4, <1>7 DEF GoneUpTo
    <3>2. CASE ~(i <= n)
      <4>1. i - n \in 1..m
        BY <3>2, <1>1
      <4>2. session'[i] = "processing"
        BY <4>1, <3>2, <1>7 DEF fresh
      <4> QED
        BY <4>2, <3>2, <1>1
    <3> QED
      BY <3>1, <3>2
  <2>2. h \in 0..Len(session') /\ Len(session') - h <= MemoryCap - 1 + MaxUrls
    BY <1>1, <1>4, <1>7, PrereadSizes
  <2>3. GoneUpTo(session', h)
    BY <2>1, <2>2, <1>7 DEF GoneUpTo
  <2> QED
    BY <2>2, <2>3, <1>7 DEF ReadsKeepTheirOrder
<1>9. FailedStayFailed'
  <2> SUFFICES ASSUME NEW i \in orphaned
               PROVE  i \in 1..Len(session') /\ session'[i] \in {"failed", "gone"}
    BY <1>5 DEF FailedStayFailed
  <2>1. i \in 1..n /\ session[i] \in {"failed", "gone"}
    BY DEF RInv, FailedStayFailed
  <2>2. session'[i] = MemoryGuard[i]
    BY <2>1, <1>1, <1>7
  <2> QED
    BY <2>1, <2>2, <1>1, <1>3, <1>7
<1>10. OnlyLiveWork'
  <2>1. orphaned \subseteq 1..n
    BY DEF RInv, FailedStayFailed
  <2>2. Live \subseteq Live' /\ \A k \in 1..m : n + k \in Live'
    BY <2>1, <1>1, <1>5, <1>7 DEF Live
  <2>3. ids \in Seq(Live')
    BY <2>2, <1>1
  <2>4. {} \in Crew(Live')
    BY FS_EmptySet, PrereadSizes DEF Crew
  <2> HIDE DEF ids
  <2>5. pool.queue \in Seq(Live') /\ pool.running \in Crew(Live')
    BY <2>3, <2>4, PoolIsBounded
  <2> HIDE DEF pool
  <2>6. waiting \in Seq(Seq(Live'))
    <3>1. Seq(Live) \subseteq Seq(Live')
      BY <2>2, SeqMonotonic
    <3> QED
      BY <3>1, SeqMonotonic DEF RInv, OnlyLiveWork
  <2>7. executing \in Seq(Crew(Live'))
    <3>1. Crew(Live) \subseteq Crew(Live')
      BY <2>2 DEF Crew
    <3> QED
      BY <3>1, SeqMonotonic DEF RInv, OnlyLiveWork
  <2> QED
    BY <1>5, <2>5, <2>6, <2>7 DEF RInv, OnlyLiveWork
<1> QED
  BY <1>8, <1>9, <1>10 DEF RInv

(* A read ends: it was begun by a process that is still up. *)
LEMMA FinishKeeps ==
  ASSUME RInv, NEW b \in DOMAIN executing, NEW i \in executing[b],
         NEW o \in {"complete", "failed"}, Finish(b, i, o)
  PROVE  RInv'
<1> DEFINE pool == Begin(waiting[b], executing[b] \ {i})
<1>1. /\ session \in Seq(Standing) /\ Len(session) \in Nat /\ DOMAIN session = 1..Len(session)
  BY DEF RInv, ReadsKeepTheirOrder
<1>2. /\ waiting \in Seq(Seq(Live)) /\ executing \in Seq(Crew(Live))
      /\ Len(waiting) = Len(executing) /\ b \in 1..Len(waiting) /\ b \in 1..Len(executing)
  BY DEF RInv, OnlyLiveWork
<1>3. waiting[b] \in Seq(Live) /\ executing[b] \in Crew(Live)
  BY <1>2
<1>4. i \in 1..Len(session) /\ i \notin orphaned
  BY <1>3 DEF Crew, Live
<1>5. executing[b] \ {i} \in Crew(Live)
  <2>1. IsFiniteSet(executing[b]) /\ Cardinality(executing[b]) <= MaxConcurrent
    BY <1>3 DEF Crew
  <2>2. /\ IsFiniteSet(executing[b] \ {i})
        /\ Cardinality(executing[b] \ {i}) <= Cardinality(executing[b])
    BY <2>1, FS_Subset
  <2>3. Cardinality(executing[b]) \in Nat /\ Cardinality(executing[b] \ {i}) \in Nat
    BY <2>1, <2>2, FS_CardinalityType
  <2> QED
    BY <2>1, <2>2, <2>3, <1>3, PrereadSizes DEF Crew
<1>6. pool.queue \in Seq(Live) /\ pool.running \in Crew(Live)
  BY <1>3, <1>5, PoolIsBounded
<1>7. /\ session' = [session EXCEPT ![i] = IF @ = "gone" THEN @ ELSE o]
      /\ waiting' = [waiting EXCEPT ![b] = pool.queue]
      /\ executing' = [executing EXCEPT ![b] = pool.running]
      /\ orphaned' = orphaned
  BY DEF Finish
<1> HIDE DEF pool
<1>8. /\ session' \in Seq(Standing) /\ Len(session') = Len(session)
      /\ \A j \in 1..Len(session) :
           /\ session'[j] = "gone" <=> session[j] = "gone"
           /\ j # i => session'[j] = session[j]
  BY <1>1, <1>4, <1>7 DEF Standing
<1>9. ReadsKeepTheirOrder'
  <2>1. PICK g \in 0..Len(session) :
          GoneUpTo(session, g) /\ Len(session) - g <= MemoryCap - 1 + MaxUrls
    BY DEF RInv, ReadsKeepTheirOrder
  <2>2. GoneUpTo(session', g)
    BY <2>1, <1>8 DEF GoneUpTo
  <2> QED
    BY <2>1, <2>2, <1>8 DEF ReadsKeepTheirOrder
<1>10. FailedStayFailed'
  BY <1>4, <1>7, <1>8 DEF RInv, FailedStayFailed
<1>11. OnlyLiveWork'
  <2>1. Live' = Live
    BY <1>7, <1>8 DEF Live
  <2>2. waiting' \in Seq(Seq(Live)) /\ Len(waiting') = Len(waiting)
    BY <1>2, <1>6, <1>7, ExceptSeq
  <2>3. executing' \in Seq(Crew(Live)) /\ Len(executing') = Len(executing)
    BY <1>2, <1>6, <1>7, ExceptSeq
  <2> QED
    BY <2>1, <2>2, <2>3, <1>2 DEF OnlyLiveWork
<1> QED
  BY <1>9, <1>10, <1>11 DEF RInv

(* A restart fails what was processing and forgets the tasks. *)
LEMMA RestartKeeps ==
  ASSUME RInv, PrereadRestart
  PROVE  RInv'
<1> DEFINE n == Len(session)
<1>1. session \in Seq(Standing) /\ n \in Nat /\ DOMAIN session = 1..n
  BY DEF RInv, ReadsKeepTheirOrder
<1>2. /\ session' = [i \in 1..n |-> IF session[i] = "processing" THEN "failed" ELSE session[i]]
      /\ orphaned' = orphaned \cup {i \in 1..n : session[i] = "processing"}
      /\ waiting' = [b \in DOMAIN waiting |-> << >>]
      /\ executing' = [b \in DOMAIN executing |-> {}]
  BY <1>1 DEF PrereadRestart
<1>3. /\ session' \in Seq(Standing) /\ Len(session') = n
      /\ \A i \in 1..n : session'[i] = IF session[i] = "processing" THEN "failed" ELSE session[i]
  BY <1>1, <1>2 DEF Standing
<1>4. ReadsKeepTheirOrder'
  <2>1. PICK g \in 0..n : GoneUpTo(session, g) /\ n - g <= MemoryCap - 1 + MaxUrls
    BY DEF RInv, ReadsKeepTheirOrder
  <2>2. GoneUpTo(session', g)
    BY <2>1, <1>3 DEF GoneUpTo
  <2> QED
    BY <2>1, <2>2, <1>3 DEF ReadsKeepTheirOrder
<1>5. FailedStayFailed'
  BY <1>2, <1>3 DEF RInv, FailedStayFailed
<1>6. OnlyLiveWork'
  <2>1. /\ waiting \in Seq(Seq(Live)) /\ executing \in Seq(Crew(Live))
        /\ Len(waiting) = Len(executing)
    BY DEF RInv, OnlyLiveWork
  <2>2. Len(waiting) \in Nat /\ DOMAIN waiting = 1..Len(waiting)
        /\ DOMAIN executing = 1..Len(waiting)
    BY <2>1
  <2>3. << >> \in Seq(Live') /\ {} \in Crew(Live')
    BY FS_EmptySet, PrereadSizes DEF Crew
  <2>4. waiting' \in Seq(Seq(Live')) /\ Len(waiting') = Len(waiting)
    BY <1>2, <2>2, <2>3
  <2>5. executing' \in Seq(Crew(Live')) /\ Len(executing') = Len(waiting)
    BY <1>2, <2>2, <2>3
  <2> QED
    BY <2>4, <2>5 DEF OnlyLiveWork
<1> QED
  BY <1>4, <1>5, <1>6 DEF RInv

(* Every step of the batches. *)
LEMMA PrereadsKeep == RInv /\ [PrereadNext]_prereadVars => RInv'
<1> SUFFICES ASSUME RInv, [PrereadNext]_prereadVars PROVE RInv'
  OBVIOUS
<1>1. ASSUME UNCHANGED <<session, waiting, executing, orphaned>> PROVE RInv'
  BY <1>1 DEF RInv, ReadsKeepTheirOrder, FailedStayFailed, OnlyLiveWork, Live
<1>2. CASE RateLimited \/ BadBatch \/ Poll \/ Tick \/ UNCHANGED prereadVars
  BY <1>1, <1>2 DEF RateLimited, BadBatch, Poll, Tick, prereadVars
<1>3. CASE PrereadRestart
  BY <1>3, RestartKeeps
<1>4. CASE \E m \in 1..MaxUrls : Submit(m)
  BY <1>4, SubmitKeeps
<1>5. CASE \E b \in DOMAIN executing :
             \E i \in executing[b], o \in {"complete", "failed"} : Finish(b, i, o)
  BY <1>5, FinishKeeps
<1> QED
  BY <1>2, <1>3, <1>4, <1>5 DEF PrereadNext

(* However many batches are submitted, overlap, end or are cut short by a  *)
(* restart: no more prereads are kept than the cap less one and a batch,   *)
(* those dropped are the oldest, and a read failed at boot is never        *)
(* completed afterwards (handlers/admin-preread.js).                       *)
THEOREM TheCapDropsTheOldest == PrereadSpec => []OnlyOldPrereadsGo
<1>1. PrereadInit => RInv
  BY PrereadInitial
<1>2. RInv /\ [PrereadNext]_prereadVars => RInv'
  BY PrereadsKeep
<1>3. RInv => OnlyOldPrereadsGo
  <2> SUFFICES ASSUME RInv PROVE OnlyOldPrereadsGo
    OBVIOUS
  <2>1. session \in Seq(Standing) /\ Len(session) \in Nat /\ DOMAIN session = 1..Len(session)
    BY DEF RInv, ReadsKeepTheirOrder
  <2>2. PICK g \in 0..Len(session) :
          GoneUpTo(session, g) /\ Len(session) - g <= MemoryCap - 1 + MaxUrls
    BY DEF RInv, ReadsKeepTheirOrder
  <2>3. Cardinality(Kept(session)) <= MemoryCap - 1 + MaxUrls
    BY <2>1, <2>2, KeptIsTheTail
  <2>4. \A i, j \in DOMAIN session : i < j /\ session[j] = "gone" => session[i] = "gone"
    BY <2>1, <2>2 DEF GoneUpTo
  <2>5. \A i \in orphaned : session[i] \in {"failed", "gone"}
    BY DEF RInv, FailedStayFailed
  <2> QED
    BY <2>3, <2>4, <2>5 DEF OnlyOldPrereadsGo
<1> QED
  BY <1>1, <1>2, <1>3, PTL DEF PrereadSpec

-----------------------------------------------------------------------------
(* The mailbox door.                                                       *)

From(m) == ParseEml(Mail[m]).from
Readable == {m \in Mails : From(m) # Absent}

(* What a check of m may have come to, on the senders known by now.        *)
Checks(m) ==
  IF m \notin Readable THEN {}
  ELSE {Result(m, prior, heard) : prior \in SUBSET PriorSenders(From(m)), heard \in Answers}

InboxHasEachOnce == \A i, j \in DOMAIN inbox : inbox[i] = inbox[j] => i = j

RepliesAreChecks ==
  \A m \in Mails : mailbox[m].reply \in Checks(m) \union {Decline, NoReply}

(* What Graph and the disk hold.                                           *)
HeldInv ==
  /\ inbox \in Seq(Mails)
  /\ senders \in Seq({Row(From(m)) : m \in Readable})
  /\ DOMAIN mailbox = Mails
  /\ \A m \in Mails : /\ DOMAIN mailbox[m] = {"read", "folder", "reply"}
                      /\ mailbox[m].read \in BOOLEAN
  /\ InboxHasEachOnce
  /\ RepliesAreChecks
  /\ StrangersLeaveNoTrace

Working == {"mime", "look", "record", "reply", "mark", "file"}

IsTick(r) ==
  /\ DOMAIN r = {"pc", "queue", "prior", "result"}
  /\ r.pc \in {"idle", "list", "next"} \union Working
  /\ r.queue \in Seq(Mails)

(* What is in hand was listed unread and once, and is not marked yet.      *)
HandIsUnread(r) ==
  /\ r.pc \in {"idle", "list"} => r.queue = << >>
  /\ r.pc \in Working => r.queue # << >>
  /\ \A i, j \in DOMAIN r.queue : r.queue[i] = r.queue[j] => i = j
  /\ \A i \in DOMAIN r.queue : mailbox[r.queue[i]].read => i = 1 /\ r.pc = "file"

(* What a tick knows of the mail it is at is about that mail.              *)
KnowsItsMail(r) ==
  LET m == r.queue[1]
  IN /\ r.pc \in {"mime", "look", "record"} => Mail[m].forwarder \in registry
     /\ r.pc = "look" => m \in Readable /\ r.prior \subseteq PriorSenders(From(m))
     /\ r.pc = "record" => r.result \in Checks(m)
     /\ r.pc \in {"reply", "mark", "file"} => r.result \in Checks(m) \union {Decline}

(* One tick polls at a time, and the flag tells.                           *)
OnePoll ==
  /\ \A t \in Ticks : tick[t].pc # "idle" => busy
  /\ \A t, u \in Ticks : tick[t].pc # "idle" /\ tick[u].pc # "idle" => t = u

PollInv ==
  /\ DOMAIN tick = Ticks
  /\ \A t \in Ticks : IsTick(tick[t]) /\ HandIsUnread(tick[t]) /\ KnowsItsMail(tick[t])
  /\ OnePoll

DoorInv == HeldInv /\ PollInv

(* A mail that leaves the inbox leaves the others there once.              *)
LEMMA RemoveFirstKeeps ==
  ASSUME NEW S, NEW s \in Seq(S), NEW e, \A i, j \in DOMAIN s : s[i] = s[j] => i = j
  PROVE  /\ RemoveFirst(s, e) \in Seq(S)
         /\ \A i, j \in DOMAIN RemoveFirst(s, e) :
              RemoveFirst(s, e)[i] = RemoveFirst(s, e)[j] => i = j
<1>1. CASE ~\E i \in 1..Len(s) : s[i] = e
  BY <1>1 DEF RemoveFirst
<1>2. CASE \E i \in 1..Len(s) : s[i] = e
  <2> DEFINE k == SelectInSeq(s, LAMBDA v : v = e)
  <2>1. k \in 1..Len(s)
    BY <1>2 DEF SelectInSeq, Min
  <2>2. RemoveFirst(s, e) = RemoveAt(s, k)
    BY <1>2 DEF RemoveFirst
  <2> HIDE DEF k
  <2> DEFINE r == RemoveFirst(s, e)
             a == SubSeq(s, 1, k - 1)
             b == SubSeq(s, k + 1, Len(s))
  <2>3. /\ a \in Seq(S) /\ Len(a) = k - 1
        /\ \A i \in 1..(k - 1) : a[i] = s[i]
    BY <2>1
  <2>4. /\ b \in Seq(S) /\ Len(b) = Len(s) - k
        /\ \A i \in 1..(Len(s) - k) : b[i] = s[k + i]
    BY <2>1
  <2>5. r = a \o b
    BY <2>2 DEF RemoveAt
  <2> HIDE DEF r, a, b
  <2>6. /\ r \in Seq(S) /\ Len(r) = Len(s) - 1 /\ Len(s) \in Nat
        /\ \A i \in 1..Len(r) : r[i] = IF i <= k - 1 THEN a[i] ELSE b[i - (k - 1)]
    BY <2>1, <2>3, <2>4, <2>5
  <2>7. ASSUME NEW i \in DOMAIN r PROVE r[i] = IF i < k THEN s[i] ELSE s[i + 1]
    <3>1. i \in 1..Len(r) /\ i \in Nat /\ k \in Nat
      BY <2>1, <2>6
    <3>2. CASE i < k
      <4>1. i \in 1..(k - 1)
        BY <3>1, <3>2
      <4> QED
        BY <2>3, <2>6, <3>1, <3>2, <4>1
    <3>3. CASE ~(i < k)
      <4>1. /\ i - (k - 1) \in 1..(Len(s) - k) /\ k + (i - (k - 1)) = i + 1
            /\ ~(i <= k - 1)
        BY <2>1, <2>6, <3>1, <3>3
      <4> QED
        BY <2>4, <2>6, <3>1, <3>3, <4>1
    <3> QED
      BY <3>2, <3>3
  <2>8. ASSUME NEW i \in DOMAIN r, NEW j \in DOMAIN r, r[i] = r[j] PROVE i = j
    <3> DEFINE i1 == IF i < k THEN i ELSE i + 1
               j1 == IF j < k THEN j ELSE j + 1
    <3>1. DOMAIN r = 1..(Len(s) - 1) /\ DOMAIN s = 1..Len(s)
      BY <2>6
    <3>2. i1 \in DOMAIN s /\ j1 \in DOMAIN s
      BY <2>1, <2>6, <3>1
    <3>3. s[i1] = s[j1]
      BY <2>7, <2>8
    <3>4. i1 = j1
      BY <3>2, <3>3
    <3> QED
      BY <2>1, <2>6, <3>1, <3>4
  <2> QED
    BY <2>6, <2>8 DEF r
<1> QED
  BY <1>1, <1>2

(* What a poll lists is of the inbox, once each, and unread.               *)
LEMMA UnreadIsListed ==
  ASSUME HeldInv
  PROVE  /\ Unread \in Seq(Mails)
         /\ \A i, j \in DOMAIN Unread : Unread[i] = Unread[j] => i = j
         /\ \A i \in DOMAIN Unread : ~mailbox[Unread[i]].read
<1> DEFINE n == Len(inbox)
           Listed(k, page) ==
             /\ page \in Seq(Mails)
             /\ \A i, j \in DOMAIN page : page[i] = page[j] => i = j
             /\ \A i \in DOMAIN page : /\ ~mailbox[page[i]].read
                                       /\ \E j \in 1..k : page[i] = inbox[j]
           G == {x \in (0..n) \X Seq(Mails) : Listed(x[1], x[2])}
<1>1. n \in Nat /\ DOMAIN inbox = 1..n /\ inbox \in Seq(Mails)
  BY DEF HeldInv
<1>a. \A k \in 0..n, page \in Seq(Mails) : <<k, page>> \in G <=> Listed(k, page)
  OBVIOUS
<1>b. \A k, page : <<k, page>> \in G => k \in 0..n /\ page \in Seq(Mails)
  OBVIOUS
<1> HIDE DEF G
<1>2. <<0, << >>>> \in G
  <2>1. Listed(0, << >>) /\ << >> \in Seq(Mails) /\ 0 \in 0..n
    BY <1>1
  <2> QED
    BY <1>a, <2>1
<1>3. ASSUME NEW k \in 0..(n - 1), NEW page, <<k, page>> \in G
      PROVE  <<k + 1, TakeUnread(page, inbox[k + 1])>> \in G
  <2> DEFINE m == inbox[k + 1]
  <2>1. Listed(k, page) /\ page \in Seq(Mails) /\ k + 1 \in 1..n /\ k + 1 \in 0..n /\ m \in Mails
    BY <1>1, <1>3, <1>a, <1>b
  <2>2. CASE TakeUnread(page, m) = page
    <3>1. Listed(k + 1, page)
      BY <2>1
    <3> QED
      BY <1>a, <2>1, <2>2, <3>1
  <2>3. CASE ~mailbox[m].read /\ TakeUnread(page, m) = Append(page, m)
    <3>1. ASSUME NEW i \in DOMAIN page PROVE page[i] # m
      <4>1. PICK j \in 1..k : page[i] = inbox[j]
        BY <2>1
      <4>2. j \in DOMAIN inbox /\ k + 1 \in DOMAIN inbox /\ j # k + 1
        BY <1>1, <2>1
      <4> QED
        BY <4>1, <4>2 DEF HeldInv, InboxHasEachOnce
    <3> DEFINE p == Append(page, m)
    <3>2. /\ p \in Seq(Mails) /\ DOMAIN page = 1..Len(page)
          /\ DOMAIN p = 1..(Len(page) + 1) /\ Len(page) \in Nat
          /\ p[Len(page) + 1] = m /\ \A i \in 1..Len(page) : p[i] = page[i]
      BY <2>1
    <3> HIDE DEF p, m
    <3>3. \A i, j \in DOMAIN p : p[i] = p[j] => i = j
      BY <2>1, <3>1, <3>2
    <3>4. ASSUME NEW i \in DOMAIN p
          PROVE  ~mailbox[p[i]].read /\ \E j \in 1..(k + 1) : p[i] = inbox[j]
      <4>1. CASE i \in 1..Len(page)
        BY <2>1, <3>2, <4>1
      <4>2. CASE i = Len(page) + 1
        BY <2>1, <2>3, <3>2, <4>2 DEF m
      <4> QED
        BY <3>2, <4>1, <4>2
    <3>5. Listed(k + 1, p)
      BY <3>2, <3>3, <3>4
    <3> QED
      BY <1>a, <2>1, <2>3, <3>2, <3>5 DEF p, m
  <2> QED
    BY <2>2, <2>3 DEF TakeUnread
<1>4. <<n, PageFold!Fold(<< >>, inbox)>> \in G
  BY <1>1, <1>2, <1>3, PageFold!FoldInduction
<1>5. Unread = PageFold!Fold(<< >>, inbox)
  BY Zenon DEF Unread, PageFold!Fold, FoldLeft, PageFold!FoldLeft, MapThenFoldSet,
               PageFold!MapThenFoldSet, Max, PageFold!Max
<1> QED
  BY <1>4, <1>5, <1>a, <1>b

(* What is known of the senders only grows, and with it what a check may   *)
(* have come to.                                                           *)
LEMMA ChecksGrow ==
  ASSUME HeldInv, NEW m,
         senders' = senders \/ \E row : senders' = Append(senders, row)
  PROVE  /\ PriorSenders(From(m)) \subseteq PriorSenders(From(m))'
         /\ Checks(m) \subseteq Checks(m)'
<1>1. \A i \in DOMAIN senders : i \in DOMAIN senders' /\ senders'[i] = senders[i]
  BY DEF HeldInv
<1>2. PriorSenders(From(m)) \subseteq PriorSenders(From(m))'
  BY <1>1 DEF PriorSenders, From
<1> QED
  BY <1>2 DEF Checks, Readable, From

(* A step of one tick leaves the others idle.                              *)
LEMMA PollStep ==
  ASSUME PollInv, NEW t \in Ticks, tick[t].pc # "idle" \/ ~busy,
         DOMAIN tick' = Ticks, \A u \in Ticks \ {t} : tick'[u] = tick[u],
         IsTick(tick[t])', HandIsUnread(tick[t])', KnowsItsMail(tick[t])',
         tick'[t].pc # "idle" => busy'
  PROVE  PollInv'
<1>1. ASSUME NEW u \in Ticks \ {t} PROVE tick'[u] = tick[u] /\ tick[u].pc = "idle" /\ tick[u].queue = << >>
  <2>1. tick[u].pc = "idle"
    BY DEF PollInv, OnePoll
  <2> QED
    BY <2>1 DEF PollInv, HandIsUnread
<1>2. \A u \in Ticks \ {t} : IsTick(tick[u])'
  BY <1>1 DEF PollInv, IsTick
<1>3. \A u \in Ticks \ {t} : HandIsUnread(tick[u])'
  BY <1>1 DEF HandIsUnread, Working
<1>4. \A u \in Ticks \ {t} : KnowsItsMail(tick[u])'
  BY <1>1 DEF KnowsItsMail
<1>5. OnePoll'
  BY <1>1 DEF OnePoll
<1> QED
  BY <1>2, <1>3, <1>4, <1>5 DEF PollInv

(* What the three ways on do to a tick.                                    *)
LEMMA GotoIs ==
  ASSUME PollInv, NEW t \in Ticks, NEW pc, Goto(t, pc)
  PROVE  /\ DOMAIN tick' = Ticks /\ \A u \in Ticks \ {t} : tick'[u] = tick[u]
         /\ tick'[t].pc = pc /\ DOMAIN tick'[t] = DOMAIN tick[t]
         /\ tick'[t].queue = tick[t].queue /\ tick'[t].prior = tick[t].prior
         /\ tick'[t].result = tick[t].result
  BY DEF PollInv, IsTick, Goto

LEMMA OverIs ==
  ASSUME PollInv, NEW t \in Ticks, tick[t].queue # << >>, Over(t)
  PROVE  /\ DOMAIN tick' = Ticks /\ \A u \in Ticks \ {t} : tick'[u] = tick[u]
         /\ tick'[t].pc = "next" /\ IsTick(tick[t])'
         /\ DOMAIN tick'[t].queue = 1..(Len(tick[t].queue) - 1)
         /\ \A i \in DOMAIN tick'[t].queue :
              tick'[t].queue[i] = tick[t].queue[i + 1] /\ i + 1 \in DOMAIN tick[t].queue
<1>1. tick'[t] = [Idle EXCEPT !.pc = "next", !.queue = Tail(tick[t].queue)]
  BY DEF PollInv, Over
<1>2. tick[t].queue \in Seq(Mails) /\ tick[t].queue # << >>
  BY DEF PollInv, IsTick
<1>3. /\ tick'[t].pc = "next" /\ tick'[t].queue = Tail(tick[t].queue)
      /\ DOMAIN tick'[t] = {"pc", "queue", "prior", "result"}
  BY <1>1 DEF Idle
<1>4. IsTick(tick[t])'
  BY <1>2, <1>3 DEF IsTick
<1>5. DOMAIN tick' = Ticks /\ \A u \in Ticks \ {t} : tick'[u] = tick[u]
  BY DEF PollInv, Over
<1> QED
  BY <1>2, <1>3, <1>4, <1>5

(* The mail in hand is a mail.                                             *)
LEMMA MsgIsMail ==
  ASSUME PollInv, NEW t \in Ticks, tick[t].queue # << >>
  PROVE  Msg(t) \in Mails /\ 1 \in DOMAIN tick[t].queue
  BY DEF PollInv, IsTick, Msg

(* What stands when neither Graph nor the disk is written.                 *)
LEMMA HeldFrame ==
  ASSUME HeldInv, UNCHANGED <<inbox, mailbox, senders, registry>>
  PROVE  HeldInv'
<1>1. \A m \in Mails : Checks(m)' = Checks(m)
  BY DEF Checks, Readable, From, PriorSenders
<1> QED
  BY <1>1 DEF HeldInv, InboxHasEachOnce, RepliesAreChecks, StrangersLeaveNoTrace

(* A mail is done with, or given up: the tick goes on to those after it.   *)
LEMMA OverKeeps ==
  ASSUME PollInv, NEW t \in Ticks, tick[t].pc # "idle", tick[t].queue # << >>, Over(t),
         UNCHANGED <<registry, busy>>,
         \A m \in Mails : m # Msg(t) => mailbox'[m].read = mailbox[m].read
  PROVE  PollInv'
<1> DEFINE q == tick[t].queue
<1>1. /\ DOMAIN tick' = Ticks /\ \A u \in Ticks \ {t} : tick'[u] = tick[u]
      /\ tick'[t].pc = "next" /\ IsTick(tick[t])'
      /\ DOMAIN tick'[t].queue = 1..(Len(q) - 1)
      /\ \A i \in DOMAIN tick'[t].queue : tick'[t].queue[i] = q[i + 1] /\ i + 1 \in DOMAIN q
  BY OverIs
<1>2. /\ q \in Seq(Mails) /\ 1 \in DOMAIN q /\ q # << >>
      /\ \A i, j \in DOMAIN q : q[i] = q[j] => i = j
      /\ \A i \in DOMAIN q : mailbox[q[i]].read => i = 1 /\ tick[t].pc = "file"
  BY DEF PollInv, IsTick, HandIsUnread
<1>3. HandIsUnread(tick[t])'
  <2>1. \A i \in DOMAIN tick'[t].queue : /\ i \in Nat /\ i + 1 # 1 /\ q[i + 1] \in Mails
                                        /\ q[i + 1] # Msg(t)
    BY <1>1, <1>2 DEF Msg
  <2>2. ASSUME NEW i \in DOMAIN tick'[t].queue PROVE ~mailbox'[tick'[t].queue[i]].read
    <3>1. ~mailbox[q[i + 1]].read
      BY <1>1, <1>2, <2>1
    <3>2. mailbox'[q[i + 1]].read = mailbox[q[i + 1]].read
      BY <2>1
    <3> QED
      BY <1>1, <3>1, <3>2
  <2>3. ASSUME NEW i \in DOMAIN tick'[t].queue, NEW j \in DOMAIN tick'[t].queue,
               tick'[t].queue[i] = tick'[t].queue[j]
        PROVE  i = j
    <3>1. i + 1 = j + 1
      BY <1>1, <1>2, <2>3
    <3> QED
      BY <2>1, <3>1
  <2> QED
    BY <1>1, <2>2, <2>3 DEF HandIsUnread, Working
<1>4. KnowsItsMail(tick[t])'
  BY <1>1 DEF KnowsItsMail
<1>5. busy'
  BY DEF PollInv, OnePoll
<1> QED
  BY <1>1, <1>3, <1>4, <1>5, PollStep


(* The tick goes on with its mail.                                         *)
LEMMA GoOnKeeps ==
  ASSUME PollInv, NEW t \in Ticks, tick[t].pc \notin {"idle", "file"}, tick[t].queue # << >>,
         DOMAIN tick' = Ticks, \A u \in Ticks \ {t} : tick'[u] = tick[u],
         DOMAIN tick'[t] = DOMAIN tick[t], tick'[t].queue = tick[t].queue,
         tick'[t].pc \in Working, KnowsItsMail(tick[t])', UNCHANGED busy,
         \A m \in Mails : mailbox'[m].read =>
            mailbox[m].read \/ (m = Msg(t) /\ tick'[t].pc = "file")
  PROVE  PollInv'
<1> DEFINE q == tick[t].queue
<1>1. /\ q \in Seq(Mails) /\ 1 \in DOMAIN q
      /\ \A i, j \in DOMAIN q : q[i] = q[j] => i = j
      /\ \A i \in DOMAIN q : ~mailbox[q[i]].read
  BY DEF PollInv, IsTick, HandIsUnread
<1>2. IsTick(tick[t])'
  BY <1>1 DEF PollInv, IsTick
<1>3. ASSUME NEW i \in DOMAIN q, mailbox'[q[i]].read PROVE i = 1 /\ tick'[t].pc = "file"
  <2>1. q[i] \in Mails
    BY <1>1
  <2>2. q[i] = q[1] /\ tick'[t].pc = "file"
    BY <1>1, <1>3, <2>1 DEF Msg
  <2> QED
    BY <1>1, <2>2
<1>4. HandIsUnread(tick[t])'
  BY <1>1, <1>3 DEF HandIsUnread, Working
<1>5. busy'
  BY DEF PollInv, OnePoll
<1> QED
  BY <1>2, <1>4, <1>5, PollStep

(* The timer fires and nothing polls.                                      *)
LEMMA StartKeeps ==
  ASSUME DoorInv, NEW t \in Ticks, Start(t)
  PROVE  DoorInv'
<1>1. HeldInv'
  BY HeldFrame DEF DoorInv, Start
<1>2. PollInv'
  <2>1. PollInv /\ Goto(t, "list") /\ At(t, "idle") /\ ~busy /\ busy'
    BY DEF DoorInv, Start
  <2>2. /\ DOMAIN tick' = Ticks /\ \A u \in Ticks \ {t} : tick'[u] = tick[u]
        /\ tick'[t].pc = "list" /\ DOMAIN tick'[t] = DOMAIN tick[t]
        /\ tick'[t].queue = tick[t].queue
    BY <2>1, GotoIs
  <2>3. tick[t].queue = << >> /\ IsTick(tick[t])
    BY <2>1 DEF PollInv, HandIsUnread, At
  <2>4. IsTick(tick[t])'
    BY <2>2, <2>3 DEF IsTick
  <2>5. HandIsUnread(tick[t])'
    BY <2>2, <2>3 DEF HandIsUnread, Working
  <2>6. KnowsItsMail(tick[t])'
    BY <2>2 DEF KnowsItsMail
  <2> QED
    BY <2>1, <2>2, <2>4, <2>5, <2>6, PollStep
<1> QED
  BY <1>1, <1>2 DEF DoorInv

(* A poll lists what is unread.                                            *)
LEMMA ListKeeps ==
  ASSUME DoorInv, NEW t \in Ticks, List(t)
  PROVE  DoorInv'
<1>1. HeldInv'
  BY HeldFrame DEF DoorInv, List
<1>2. PollInv'
  <2>1. /\ PollInv /\ At(t, "list") /\ UNCHANGED <<busy, mailbox>>
        /\ tick' = [tick EXCEPT ![t] = [@ EXCEPT !.pc = "next", !.queue = Unread]]
    BY DEF DoorInv, List
  <2>2. /\ Unread \in Seq(Mails)
        /\ \A i, j \in DOMAIN Unread : Unread[i] = Unread[j] => i = j
        /\ \A i \in DOMAIN Unread : ~mailbox[Unread[i]].read
    BY UnreadIsListed DEF DoorInv
  <2>3. /\ DOMAIN tick' = Ticks /\ \A u \in Ticks \ {t} : tick'[u] = tick[u]
        /\ tick'[t].pc = "next" /\ DOMAIN tick'[t] = DOMAIN tick[t]
        /\ tick'[t].queue = Unread
    <3> HIDE DEF Unread
    <3> QED
      BY <2>1 DEF PollInv, IsTick
  <2>4. IsTick(tick[t])'
    BY <2>1, <2>2, <2>3 DEF IsTick, PollInv
  <2>5. HandIsUnread(tick[t])'
    BY <2>1, <2>2, <2>3 DEF HandIsUnread, Working
  <2>6. KnowsItsMail(tick[t])'
    BY <2>3 DEF KnowsItsMail
  <2>7. tick[t].pc # "idle" /\ busy'
    BY <2>1 DEF At, PollInv, OnePoll
  <2> QED
    BY <2>1, <2>3, <2>4, <2>5, <2>6, <2>7, PollStep
<1> QED
  BY <1>1, <1>2 DEF DoorInv

(* A tick that ends, or whose list failed, is idle and frees the flag.     *)
LEMMA IdleKeeps ==
  ASSUME PollInv, NEW t \in Ticks, tick[t].pc # "idle", tick' = [tick EXCEPT ![t] = Idle]
  PROVE  PollInv'
<1>1. /\ DOMAIN tick' = Ticks /\ \A u \in Ticks \ {t} : tick'[u] = tick[u]
      /\ tick'[t] = Idle
  BY DEF PollInv
<1>2. IsTick(tick[t])' /\ HandIsUnread(tick[t])' /\ KnowsItsMail(tick[t])' /\ tick'[t].pc = "idle"
  BY <1>1 DEF Idle, IsTick, HandIsUnread, KnowsItsMail, Working
<1> QED
  BY <1>1, <1>2, PollStep

LEMMA EndKeeps ==
  ASSUME DoorInv, NEW t \in Ticks, End(t)
  PROVE  DoorInv'
<1>1. HeldInv'
  BY HeldFrame DEF DoorInv, End
<1>2. PollInv'
  BY IdleKeeps DEF DoorInv, End, At
<1> QED
  BY <1>1, <1>2 DEF DoorInv

(* A mail not sent to the door is passed over.                             *)
LEMMA SkipKeeps ==
  ASSUME DoorInv, NEW t \in Ticks, Skip(t)
  PROVE  DoorInv'
<1>1. HeldInv'
  BY HeldFrame DEF DoorInv, Skip
<1>2. PollInv'
  BY OverKeeps DEF DoorInv, Skip, At
<1> QED
  BY <1>1, <1>2 DEF DoorInv

(* A registered forwarder's mail is read, any other's declined.            *)
LEMMA AdmitKeeps ==
  ASSUME DoorInv, NEW t \in Ticks, Admit(t)
  PROVE  DoorInv'
<1>1. HeldInv'
  BY HeldFrame DEF DoorInv, Admit
<1>2. PollInv'
  <2>1. /\ PollInv /\ tick[t].pc = "next" /\ tick[t].queue # << >>
        /\ UNCHANGED <<mailbox, registry, busy>>
    BY DEF DoorInv, Admit, At
  <2>2. CASE Mail[Msg(t)].forwarder \in registry /\ Goto(t, "mime")
    <3>1. /\ DOMAIN tick' = Ticks /\ \A u \in Ticks \ {t} : tick'[u] = tick[u]
          /\ tick'[t].pc = "mime" /\ DOMAIN tick'[t] = DOMAIN tick[t]
          /\ tick'[t].queue = tick[t].queue
      BY <2>1, <2>2, GotoIs
    <3>2. KnowsItsMail(tick[t])'
      BY <2>1, <2>2, <3>1 DEF KnowsItsMail, Msg
    <3>3. tick'[t].pc \in Working
      BY <3>1 DEF Working
    <3> QED
      BY <2>1, <3>1, <3>2, <3>3, GoOnKeeps
  <2>3. CASE Answer(t, "reply", Decline)
    <3>1. /\ DOMAIN tick' = Ticks /\ \A u \in Ticks \ {t} : tick'[u] = tick[u]
          /\ tick'[t].pc = "reply" /\ DOMAIN tick'[t] = DOMAIN tick[t]
          /\ tick'[t].queue = tick[t].queue /\ tick'[t].result = Decline
      BY <2>1, <2>3 DEF PollInv, IsTick, Answer
    <3>2. KnowsItsMail(tick[t])'
      BY <3>1 DEF KnowsItsMail
    <3>3. tick'[t].pc \in Working
      BY <3>1 DEF Working
    <3> QED
      BY <2>1, <3>1, <3>2, <3>3, GoOnKeeps
  <2> QED
    BY <2>2, <2>3 DEF Admit
<1> QED
  BY <1>1, <1>2 DEF DoorInv

(* The mail is read, and who was seen before its sender.                   *)
LEMMA ReadMimeKeeps ==
  ASSUME DoorInv, NEW t \in Ticks, ReadMime(t)
  PROVE  DoorInv'
<1>1. HeldInv'
  BY HeldFrame DEF DoorInv, ReadMime
<1>2. PollInv'
  <2>1. /\ PollInv /\ tick[t].pc = "mime" /\ tick[t].queue # << >>
        /\ UNCHANGED <<mailbox, registry, senders, busy>>
        /\ Mail[Msg(t)].forwarder \in registry
    BY DEF DoorInv, ReadMime, At, PollInv, HandIsUnread, KnowsItsMail, Msg, Working
  <2>2. CASE From(Msg(t)) = Absent
    <3>1. Over(t)
      BY <2>2 DEF ReadMime, From
    <3> QED
      BY <2>1, <3>1, OverKeeps
  <2>3. CASE From(Msg(t)) # Absent
    <3>1. tick' = [tick EXCEPT ![t] =
                     [@ EXCEPT !.pc = "look", !.prior = PriorSenders(From(Msg(t)))]]
      BY <2>3 DEF ReadMime, From
    <3>2. /\ DOMAIN tick' = Ticks /\ \A u \in Ticks \ {t} : tick'[u] = tick[u]
          /\ tick'[t].pc = "look" /\ DOMAIN tick'[t] = DOMAIN tick[t]
          /\ tick'[t].queue = tick[t].queue /\ tick'[t].prior = PriorSenders(From(Msg(t)))
      BY <2>1, <3>1 DEF PollInv, IsTick
    <3>3. PriorSenders(From(Msg(t)))' = PriorSenders(From(Msg(t)))
      BY <2>1, <3>2 DEF PriorSenders, From, Msg
    <3>4. Msg(t) \in Readable /\ Msg(t)' = Msg(t)
      BY <2>1, <2>3, <3>2, MsgIsMail DEF Readable, Msg
    <3>5. KnowsItsMail(tick[t])'
      BY <2>1, <3>2, <3>3, <3>4 DEF KnowsItsMail, Msg
    <3>6. tick'[t].pc \in Working
      BY <3>2 DEF Working
    <3> QED
      BY <2>1, <3>2, <3>5, <3>6, GoOnKeeps
  <2> QED
    BY <2>2, <2>3
<1> QED
  BY <1>1, <1>2 DEF DoorInv

(* The lookups come back, in any way.                                      *)
LEMMA LookKeeps ==
  ASSUME DoorInv, NEW t \in Ticks, Look(t)
  PROVE  DoorInv'
<1>1. HeldInv'
  BY HeldFrame DEF DoorInv, Look
<1>2. PollInv'
  <2>1. /\ PollInv /\ tick[t].pc = "look" /\ tick[t].queue # << >>
        /\ UNCHANGED <<mailbox, registry, senders, busy>>
        /\ Mail[Msg(t)].forwarder \in registry
        /\ Msg(t) \in Readable /\ tick[t].prior \subseteq PriorSenders(From(Msg(t)))
    BY DEF DoorInv, Look, At, PollInv, HandIsUnread, KnowsItsMail, Msg, Working
  <2>2. PICK heard \in Answers : Answer(t, "record", Result(Msg(t), tick[t].prior, heard))
    BY DEF Look
  <2>3. /\ DOMAIN tick' = Ticks /\ \A u \in Ticks \ {t} : tick'[u] = tick[u]
        /\ tick'[t].pc = "record" /\ DOMAIN tick'[t] = DOMAIN tick[t]
        /\ tick'[t].queue = tick[t].queue
        /\ tick'[t].result = Result(Msg(t), tick[t].prior, heard)
    BY <2>1, <2>2 DEF PollInv, IsTick, Answer
  <2>4. tick'[t].result \in Checks(Msg(t))
    BY <2>1, <2>3 DEF Checks
  <2>5. Msg(t)' = Msg(t)
    BY <2>1, <2>3 DEF Msg
  <2>6. Checks(Msg(t))' = Checks(Msg(t))
    BY <2>1, <2>5 DEF Checks, PriorSenders, From, Readable
  <2>7. KnowsItsMail(tick[t])'
    BY <2>1, <2>3, <2>4, <2>5, <2>6 DEF KnowsItsMail, Msg
  <2>8. tick'[t].pc \in Working
    BY <2>3 DEF Working
  <2> QED
    BY <2>1, <2>3, <2>7, <2>8, GoOnKeeps
<1> QED
  BY <1>1, <1>2 DEF DoorInv

(* A check is of the sender of its mail.                                   *)
LEMMA CheckIsOfItsMail ==
  ASSUME NEW m, NEW r \in Checks(m)
  PROVE  m \in Readable /\ r.from = From(m) /\ r.kind = "check"
  BY DEF Checks, Result, From

(* The sender goes on record.                                              *)
LEMMA RecordSenderKeeps ==
  ASSUME DoorInv, NEW t \in Ticks, RecordSender(t)
  PROVE  DoorInv'
<1>1. /\ HeldInv /\ PollInv /\ tick[t].pc = "record" /\ tick[t].queue # << >>
      /\ UNCHANGED <<inbox, mailbox, registry, busy>> /\ Goto(t, "reply")
      /\ Mail[Msg(t)].forwarder \in registry /\ tick[t].result \in Checks(Msg(t))
      /\ senders' = Append(senders, Row(tick[t].result.from))
  BY DEF DoorInv, RecordSender, At, PollInv, HandIsUnread, KnowsItsMail, Msg, Working
<1>2. Msg(t) \in Readable /\ Msg(t) \in Mails /\ tick[t].result.from = From(Msg(t))
  BY <1>1, CheckIsOfItsMail DEF Readable
<1>3. \A m : Checks(m) \subseteq Checks(m)'
  BY <1>1, ChecksGrow
<1>4. HeldInv'
  <2>1. senders' \in Seq({Row(From(m)) : m \in Readable})
    BY <1>1, <1>2 DEF HeldInv
  <2>2. RepliesAreChecks'
    BY <1>1, <1>3 DEF HeldInv, RepliesAreChecks
  <2>3. StrangersLeaveNoTrace'
    <3>1. /\ senders \in Seq({Row(From(m)) : m \in Readable})
          /\ \A i \in DOMAIN senders' : \/ i \in DOMAIN senders /\ senders'[i] = senders[i]
                                       \/ senders'[i] = Row(From(Msg(t)))
      BY <1>1, <1>2 DEF HeldInv
    <3> QED
      BY <1>1, <1>2, <3>1 DEF HeldInv, StrangersLeaveNoTrace, Row, From
  <2> QED
    BY <1>1, <2>1, <2>2, <2>3 DEF HeldInv, InboxHasEachOnce
<1>5. PollInv'
  <2>1. /\ DOMAIN tick' = Ticks /\ \A u \in Ticks \ {t} : tick'[u] = tick[u]
        /\ tick'[t].pc = "reply" /\ DOMAIN tick'[t] = DOMAIN tick[t]
        /\ tick'[t].queue = tick[t].queue /\ tick'[t].result = tick[t].result
    BY <1>1, GotoIs
  <2>2. KnowsItsMail(tick[t])'
    BY <1>1, <1>3, <2>1 DEF KnowsItsMail, Msg
  <2>3. tick'[t].pc \in Working
    BY <2>1 DEF Working
  <2> QED
    BY <1>1, <2>1, <2>2, <2>3, GoOnKeeps
<1> QED
  BY <1>4, <1>5 DEF DoorInv

(* The founder is answered.                                                *)
LEMMA ReplyKeeps ==
  ASSUME DoorInv, NEW t \in Ticks, Reply(t) \/ (AnswerLost(t) /\ At(t, "reply"))
  PROVE  HeldInv'
<1>1. /\ HeldInv /\ tick[t].queue # << >> /\ Msg(t) \in Mails
      /\ UNCHANGED <<inbox, registry, senders>>
      /\ tick[t].result \in Checks(Msg(t)) \union {Decline}
      /\ mailbox' = [mailbox EXCEPT ![Msg(t)].reply = tick[t].result]
  BY MsgIsMail DEF DoorInv, Reply, AnswerLost, At, PollInv, HandIsUnread, KnowsItsMail, Msg, Working
<1>2. \A m \in Mails : Checks(m)' = Checks(m)
  BY <1>1 DEF Checks, Readable, From, PriorSenders
<1>3. /\ DOMAIN mailbox' = Mails
      /\ \A m \in Mails : /\ DOMAIN mailbox'[m] = {"read", "folder", "reply"}
                          /\ mailbox'[m].read = mailbox[m].read
                          /\ mailbox'[m].reply =
                               IF m = Msg(t) THEN tick[t].result ELSE mailbox[m].reply
  BY <1>1 DEF HeldInv
<1>4. RepliesAreChecks'
  BY <1>1, <1>2, <1>3 DEF HeldInv, RepliesAreChecks
<1> QED
  BY <1>1, <1>3, <1>4 DEF HeldInv, InboxHasEachOnce, StrangersLeaveNoTrace

(* A mail that is marked or filed keeps its reply.                         *)
LEMMA MarkFileKeeps ==
  ASSUME HeldInv, NEW m \in Mails, UNCHANGED <<registry, senders>>,
         inbox' = inbox \/ inbox' = RemoveFirst(inbox, m),
         \/ mailbox' = [mailbox EXCEPT ![m].read = TRUE]
         \/ \E folder : mailbox' = [mailbox EXCEPT ![m].folder = folder]
  PROVE  HeldInv'
<1>1. \A n \in Mails : Checks(n)' = Checks(n)
  BY DEF Checks, Readable, From, PriorSenders
<1>2. /\ DOMAIN mailbox' = Mails
      /\ \A n \in Mails : /\ DOMAIN mailbox'[n] = {"read", "folder", "reply"}
                          /\ mailbox'[n].read \in BOOLEAN
                          /\ mailbox'[n].reply = mailbox[n].reply
  <2>1. CASE mailbox' = [mailbox EXCEPT ![m].read = TRUE]
    BY <2>1 DEF HeldInv
  <2>2. CASE \E folder : mailbox' = [mailbox EXCEPT ![m].folder = folder]
    BY <2>2 DEF HeldInv
  <2> QED
    BY <2>1, <2>2
<1>3. inbox' \in Seq(Mails) /\ InboxHasEachOnce'
  BY RemoveFirstKeeps DEF HeldInv, InboxHasEachOnce
<1> QED
  BY <1>1, <1>2, <1>3 DEF HeldInv, RepliesAreChecks, StrangersLeaveNoTrace

(* A tick at work holds a mail and knows what comes of it.                 *)
LEMMA AtWork ==
  ASSUME DoorInv, NEW t \in Ticks, tick[t].pc \in {"reply", "mark", "file"}
  PROVE  /\ HeldInv /\ PollInv /\ tick[t].queue # << >> /\ Msg(t) \in Mails
         /\ tick[t].pc \in Working /\ tick[t].result \in Checks(Msg(t)) \union {Decline}
  BY MsgIsMail DEF DoorInv, PollInv, HandIsUnread, KnowsItsMail, Msg, Working

(* The tick has replied, or marked: the next call.                         *)
LEMMA NextCallKeeps ==
  ASSUME DoorInv, NEW t \in Ticks, Reply(t) \/ MarkRead(t)
  PROVE  PollInv'
<1> DEFINE pc == IF At(t, "reply") THEN "mark" ELSE "file"
<1>1. /\ tick[t].pc \in {"reply", "mark"} /\ Goto(t, pc)
      /\ UNCHANGED <<registry, senders, busy>>
  BY DEF Reply, MarkRead, At
<1>2. /\ PollInv /\ HeldInv /\ tick[t].queue # << >> /\ Msg(t) \in Mails
      /\ tick[t].result \in Checks(Msg(t)) \union {Decline}
  BY <1>1, AtWork
<1>3. /\ DOMAIN tick' = Ticks /\ \A u \in Ticks \ {t} : tick'[u] = tick[u]
      /\ tick'[t].pc = pc /\ DOMAIN tick'[t] = DOMAIN tick[t]
      /\ tick'[t].queue = tick[t].queue /\ tick'[t].result = tick[t].result
  BY <1>1, <1>2, GotoIs
<1>4. Msg(t)' = Msg(t) /\ Checks(Msg(t))' = Checks(Msg(t))
  BY <1>1, <1>3 DEF Checks, PriorSenders, From, Msg, Readable
<1>5. KnowsItsMail(tick[t])'
  BY <1>2, <1>3, <1>4 DEF KnowsItsMail, Msg
<1>6. \A m \in Mails : mailbox'[m].read => mailbox[m].read \/ (m = Msg(t) /\ pc = "file")
  BY <1>2 DEF Reply, MarkRead, At, HeldInv
<1>7. tick'[t].pc \in Working /\ tick[t].pc \notin {"idle", "file"}
  BY <1>1, <1>3 DEF Working
<1> QED
  BY <1>1, <1>2, <1>3, <1>5, <1>6, <1>7, GoOnKeeps

LEMMA MarkReadKeeps ==
  ASSUME DoorInv, NEW t \in Ticks, MarkRead(t)
  PROVE  HeldInv'
<1>1. HeldInv /\ Msg(t) \in Mails
  BY AtWork DEF MarkRead, At
<1> QED
  BY <1>1, MarkFileKeeps DEF MarkRead

(* The mail is filed out of the inbox.                                     *)
LEMMA FileAsKeeps ==
  ASSUME DoorInv, NEW t \in Ticks, FileAs(t)
  PROVE  DoorInv'
<1>1. /\ HeldInv /\ PollInv /\ Msg(t) \in Mails /\ tick[t].queue # << >>
      /\ tick[t].pc # "idle"
  BY AtWork DEF FileAs, At
<1>2. HeldInv'
  BY <1>1, MarkFileKeeps DEF FileAs
<1>3. \A m \in Mails : m # Msg(t) => mailbox'[m].read = mailbox[m].read
  BY <1>1 DEF FileAs, HeldInv
<1>4. PollInv'
  BY <1>1, <1>3, OverKeeps DEF FileAs
<1> QED
  BY <1>2, <1>4 DEF DoorInv

(* A call throws.                                                          *)
LEMMA FailKeeps ==
  ASSUME DoorInv, NEW t \in Ticks, Fail(t)
  PROVE  DoorInv'
<1>1. HeldInv'
  BY HeldFrame DEF DoorInv, Fail
<1>2. PollInv /\ tick[t].pc # "idle" /\ UNCHANGED <<mailbox, registry>>
  BY DEF DoorInv, Fail
<1>3. CASE At(t, "list")
  <2>1. tick' = [tick EXCEPT ![t] = Idle]
    BY <1>3 DEF Fail
  <2> QED
    BY <1>1, <1>2, <2>1, IdleKeeps DEF DoorInv
<1>4. CASE ~At(t, "list")
  <2>1. tick[t].queue # << >> /\ Over(t) /\ UNCHANGED busy
    BY <1>2, <1>4 DEF Fail, At, PollInv, HandIsUnread, Working
  <2>2. PollInv'
    BY <1>2, <2>1, OverKeeps
  <2> QED
    BY <1>1, <2>2 DEF DoorInv
<1> QED
  BY <1>3, <1>4

(* A call took effect and its answer was lost.                             *)
LEMMA AnswerLostKeeps ==
  ASSUME DoorInv, NEW t \in Ticks, AnswerLost(t)
  PROVE  DoorInv'
<1>1. /\ HeldInv /\ PollInv /\ Msg(t) \in Mails /\ tick[t].queue # << >>
      /\ tick[t].pc \in {"reply", "mark"} /\ tick[t].pc # "idle"
      /\ UNCHANGED <<registry, senders, inbox, busy>> /\ Over(t)
  BY AtWork DEF AnswerLost
<1>2. HeldInv'
  <2>1. CASE At(t, "reply")
    BY <2>1, ReplyKeeps
  <2>2. CASE ~At(t, "reply")
    <3>1. mailbox' = [mailbox EXCEPT ![Msg(t)].read = TRUE]
      BY <2>2 DEF AnswerLost
    <3> QED
      BY <1>1, <3>1, MarkFileKeeps
  <2> QED
    BY <2>1, <2>2
<1>3. \A m \in Mails : m # Msg(t) => mailbox'[m].read = mailbox[m].read
  BY <1>1 DEF AnswerLost, HeldInv
<1>4. PollInv'
  BY <1>1, <1>3, OverKeeps
<1> QED
  BY <1>2, <1>4 DEF DoorInv

(* What stands when no tick moves.                                         *)
LEMMA PollFrame ==
  ASSUME PollInv, UNCHANGED <<tick, busy, mailbox, senders>>, registry \subseteq registry'
  PROVE  PollInv'
<1>1. ASSUME NEW t \in Ticks
      PROVE  IsTick(tick[t])' /\ HandIsUnread(tick[t])' /\ KnowsItsMail(tick[t])'
  <2>1. IsTick(tick[t]) /\ HandIsUnread(tick[t]) /\ KnowsItsMail(tick[t]) /\ tick'[t] = tick[t]
    BY DEF PollInv
  <2>2. \A m : Checks(m)' = Checks(m) /\ PriorSenders(From(m))' = PriorSenders(From(m))
    BY DEF Checks, Readable, From, PriorSenders
  <2>3. IsTick(tick[t])' /\ HandIsUnread(tick[t])'
    BY <2>1 DEF IsTick, HandIsUnread
  <2>4. KnowsItsMail(tick[t])'
    BY <2>1, <2>2 DEF KnowsItsMail
  <2> QED
    BY <2>3, <2>4
<1>2. OnePoll'
  BY DEF PollInv, OnePoll
<1> QED
  BY <1>1, <1>2 DEF PollInv

(* The process is replaced, a mail comes in, a founder registers.          *)
LEMMA RestKeeps ==
  ASSUME DoorInv,
         \/ Restart
         \/ \E m \in Mails : MailArrives(m)
         \/ \E f \in Registrant : Register(f)
  PROVE  DoorInv'
<1>1. CASE Restart
  <2>1. HeldInv'
    BY <1>1, HeldFrame DEF DoorInv, Restart
  <2>2. DOMAIN tick' = Ticks /\ \A t \in Ticks : tick'[t] = Idle
    BY <1>1 DEF Restart
  <2>3. ASSUME NEW t \in Ticks
        PROVE  /\ IsTick(tick[t])' /\ HandIsUnread(tick[t])' /\ KnowsItsMail(tick[t])'
               /\ tick'[t].pc = "idle"
    <3>1. tick'[t] = Idle
      BY <2>2
    <3> QED
      BY <3>1 DEF Idle, IsTick, HandIsUnread, KnowsItsMail, Working
  <2>4. PollInv'
    BY <2>2, <2>3 DEF PollInv, OnePoll
  <2> QED
    BY <2>1, <2>4 DEF DoorInv
<1>2. ASSUME NEW m \in Mails, MailArrives(m) PROVE DoorInv'
  <2>1. /\ inbox \in Seq(Mails) /\ m \notin Range(inbox) /\ inbox' = <<m>> \o inbox
        /\ UNCHANGED <<mailbox, registry, senders, busy, tick>>
    BY <1>2 DEF DoorInv, HeldInv, MailArrives
  <2>2. /\ inbox' \in Seq(Mails) /\ DOMAIN inbox = 1..Len(inbox) /\ Len(inbox) \in Nat
        /\ DOMAIN inbox' = 1..(Len(inbox) + 1) /\ inbox'[1] = m
        /\ \A i \in 1..Len(inbox) : inbox'[i + 1] = inbox[i]
    BY <2>1
  <2>3. \A i \in 1..Len(inbox) : inbox[i] # m
    BY <2>1, <2>2 DEF Range
  <2>4. ASSUME NEW i \in DOMAIN inbox', NEW j \in DOMAIN inbox', inbox'[i] = inbox'[j]
        PROVE  i = j
    <3>1. \A k \in DOMAIN inbox' : k # 1 => /\ k - 1 \in 1..Len(inbox) /\ (k - 1) + 1 = k
                                           /\ inbox'[k] # m
      <4> TAKE k \in DOMAIN inbox'
      <4>1. HAVE k # 1
      <4>2. k - 1 \in 1..Len(inbox) /\ (k - 1) + 1 = k
        BY <2>2, <4>1
      <4> QED
        BY <2>2, <2>3, <4>2
    <3>2. CASE i # 1 /\ j # 1
      <4>1. /\ i - 1 \in 1..Len(inbox) /\ (i - 1) + 1 = i
            /\ j - 1 \in 1..Len(inbox) /\ (j - 1) + 1 = j
        BY <3>1, <3>2
      <4>2. inbox[i - 1] = inbox[j - 1]
        BY <2>2, <2>4, <4>1
      <4>3. i - 1 = j - 1
        BY <2>2, <4>1, <4>2 DEF DoorInv, HeldInv, InboxHasEachOnce
      <4> QED
        BY <2>2, <4>3
    <3> QED
      BY <2>2, <2>4, <3>1, <3>2
  <2>5. HeldInv'
    <3>1. \A n \in Mails : Checks(n)' = Checks(n)
      BY <2>1 DEF Checks, Readable, From, PriorSenders
    <3> QED
      BY <2>1, <2>2, <2>4, <3>1
         DEF DoorInv, HeldInv, InboxHasEachOnce, RepliesAreChecks, StrangersLeaveNoTrace
  <2>6. PollInv'
    BY <2>1, PollFrame DEF DoorInv
  <2> QED
    BY <2>5, <2>6 DEF DoorInv
<1>3. ASSUME NEW f \in Registrant, Register(f) PROVE DoorInv'
  <2>1. /\ registry \subseteq registry'
        /\ UNCHANGED <<inbox, mailbox, senders, busy, tick>>
    BY <1>3 DEF Register
  <2>2. \A m : Checks(m)' = Checks(m)
    BY <2>1 DEF Checks, Readable, From, PriorSenders
  <2>3. HeldInv'
    BY <2>1, <2>2 DEF DoorInv, HeldInv, InboxHasEachOnce, RepliesAreChecks, StrangersLeaveNoTrace
  <2>4. PollInv'
    BY <2>1, PollFrame DEF DoorInv
  <2> QED
    BY <2>3, <2>4 DEF DoorInv
<1> QED
  BY <1>1, <1>2, <1>3

(* Every step keeps the invariant of the door.                             *)
LEMMA DoorStep ==
  ASSUME DoorInv, [Next]_vars
  PROVE  DoorInv'
<1>1. ASSUME NEW t \in Ticks, Step(t) \/ Fail(t) \/ AnswerLost(t) PROVE DoorInv'
  <2>1. CASE Reply(t)
    BY <2>1, ReplyKeeps, NextCallKeeps DEF DoorInv
  <2>2. CASE MarkRead(t)
    BY <2>2, MarkReadKeeps, NextCallKeeps DEF DoorInv
  <2> QED
    BY <1>1, <2>1, <2>2, StartKeeps, ListKeeps, EndKeeps, SkipKeeps, AdmitKeeps, ReadMimeKeeps,
       LookKeeps, RecordSenderKeeps, FileAsKeeps, FailKeeps, AnswerLostKeeps DEF Step
<1>2. CASE UNCHANGED vars
  <2>1. HeldInv'
    BY <1>2, HeldFrame DEF DoorInv, vars
  <2>2. PollInv'
    BY <1>2, PollFrame DEF DoorInv, vars
  <2> QED
    BY <2>1, <2>2 DEF DoorInv
<1> QED
  BY <1>1, <1>2, RestKeeps DEF Next

LEMMA DoorStart ==
  ASSUME Init
  PROVE  DoorInv
<1>1. HeldInv
  <2>1. /\ DOMAIN mailbox = Mails
        /\ \A m \in Mails : /\ DOMAIN mailbox[m] = {"read", "folder", "reply"}
                            /\ mailbox[m].read = FALSE /\ mailbox[m].reply = NoReply
    BY DEF Init
  <2>2. RepliesAreChecks
    BY <2>1 DEF RepliesAreChecks
  <2>3. /\ inbox = << >> /\ senders = << >>
        /\ inbox \in Seq(Mails) /\ senders \in Seq({Row(From(m)) : m \in Readable})
    BY DEF Init
  <2>4. InboxHasEachOnce /\ StrangersLeaveNoTrace
    BY <2>3 DEF InboxHasEachOnce, StrangersLeaveNoTrace
  <2> QED
    BY <2>1, <2>2, <2>3, <2>4 DEF HeldInv
<1>2. PollInv
  <2>1. \A t \in Ticks : tick[t] = Idle
    BY DEF Init
  <2>2. ASSUME NEW t \in Ticks
        PROVE  IsTick(tick[t]) /\ HandIsUnread(tick[t]) /\ KnowsItsMail(tick[t]) /\ tick[t].pc = "idle"
    <3>1. tick[t] = Idle
      BY <2>1
    <3> QED
      BY <3>1 DEF Idle, IsTick, HandIsUnread, KnowsItsMail, Working
  <2> QED
    BY <2>2 DEF Init, PollInv, OnePoll
<1> QED
  BY <1>1, <1>2 DEF DoorInv

(* What the poller, Graph and the disk hold is of its shape, whatever      *)
(* fails (mailbox-m365.js, pattern-memory.js).                             *)
THEOREM DoorIsSound == Spec => []DoorInv
<1>1. Init => DoorInv
  BY DoorStart
<1>2. DoorInv /\ [Next]_vars => DoorInv'
  BY DoorStep
<1> QED
  BY <1>1, <1>2, PTL DEF Spec

(* A check names as earlier senders others of its pattern who are on       *)
(* record.                                                                 *)
LEMMA PriorsOfACheck ==
  ASSUME HeldInv, NEW m, NEW r \in Checks(m), NEW a \in r.prior
  PROVE  /\ a # r.from /\ Address[a].signature = Address[r.from].signature
         /\ \E i \in DOMAIN senders : senders[i].address = a
<1>1. r.from = From(m) /\ r.prior \subseteq PriorSenders(From(m))
  BY DEF Checks, Result, From
<1>2. PICK i \in DOMAIN senders : /\ senders[i].address = a /\ a # From(m)
                                  /\ senders[i].signature = Address[From(m)].signature
  BY <1>1 DEF PriorSenders
<1>3. PICK n \in Readable : senders[i] = Row(From(n))
  BY DEF HeldInv
<1>4. senders[i].signature = Address[a].signature
  BY <1>2, <1>3 DEF Row
<1> QED
  BY <1>1, <1>2, <1>4

(* A check claims nothing its copy of the mail and its lookups did not     *)
(* show.                                                                   *)
LEMMA ClaimsOfACheck ==
  ASSUME NEW m, NEW r \in Checks(m)
  PROVE  /\ Forwarded(Mail[m]) => r.lines[1].mismatches \subseteq {"name"} /\ ~r.lines[1].agrees
         /\ \A k \in MailRecord :
              r.lines[2].mail[k] = "in place" => r.heard[k] = "present"
         /\ r.lines[2].mail = NoMailAtAll => r.heard.mx = "none"
<1>1. PICK prior, heard : r = Result(m, prior, heard)
  BY DEF Checks
<1> DEFINE p == ParseEml(Mail[m])
<1>2. r.lines[1] = SenderLine(p) /\ r.lines[2] = FootprintLine(heard) /\ r.heard = heard
  BY <1>1 DEF Result
<1>3. ASSUME Forwarded(Mail[m])
      PROVE  SenderLine(p).mismatches \subseteq {"name"} /\ ~SenderLine(p).agrees
  <2>1. ~p.headersSeen /\ p.replyTo = Absent /\ p.returnPath = Absent /\ p.dkim = {}
    BY <1>3 DEF ParseEml
  <2> HIDE DEF p
  <2>2. Mismatches(p) \subseteq {"name"}
    BY <2>1 DEF Mismatches
  <2> QED
    BY <2>1, <2>2 DEF SenderLine
<1>4. FootprintLine(heard).mail = MailText(heard)
  BY DEF FootprintLine
<1> DEFINE each == [k \in MailRecord |-> IF heard[k] = "present" THEN "in place" ELSE "missing"]
<1>5. \/ MailText(heard) = SaidOfNone
      \/ MailText(heard) = NoMailAtAll /\ heard.mx = "none"
      \/ MailText(heard) = each
  BY DEF MailText
<1>6. /\ \A k \in MailRecord : SaidOfNone[k] # "in place" /\ NoMailAtAll[k] # "in place"
      /\ SaidOfNone # NoMailAtAll /\ each # NoMailAtAll
      /\ \A k \in MailRecord : each[k] = "in place" => heard[k] = "present"
  <2>1. /\ \A k \in MailRecord : SaidOfNone[k] = "unsaid"
        /\ NoMailAtAll.mx = "missing" /\ NoMailAtAll.spf = "unsaid"
        /\ \A k \in MailRecord : NoMailAtAll[k] \in {"missing", "unsaid"}
    BY DEF SaidOfNone, NoMailAtAll, MailRecord
  <2>2. each.spf \in {"in place", "missing"}
    BY DEF MailRecord
  <2>3. \A k \in MailRecord : each[k] = "in place" => heard[k] = "present"
    OBVIOUS
  <2>4. "mx" \in MailRecord /\ "spf" \in MailRecord
    BY DEF MailRecord
  <2> HIDE DEF each
  <2> QED
    BY <2>1, <2>2, <2>3, <2>4
<1>7. /\ \A k \in MailRecord : MailText(heard)[k] = "in place" => heard[k] = "present"
      /\ MailText(heard) = NoMailAtAll => heard.mx = "none"
  <2> HIDE DEF each
  <2> QED
    BY <1>5, <1>6
<1> QED
  BY <1>2, <1>3, <1>4, <1>7

(* A stranger's mail is not looked up and leaves no trace, an earlier      *)
(* sender is another one of the same pattern, and but for the sentence on  *)
(* a partial mail set-up no reply claims what was not seen, for any mails, *)
(* however calls fail and mails are taken up again.                        *)
THEOREM TheDoorIsHonest == Spec => []DoorIsHonest
<1>1. ASSUME DoorInv PROVE DoorIsHonest
  <2>1. PriorsAreOthers
    <3>1. \A m \in Mails : mailbox[m].reply.kind = "check" => mailbox[m].reply \in Checks(m)
      BY <1>1 DEF DoorInv, HeldInv, RepliesAreChecks, Decline, NoReply
    <3> QED
      BY <1>1, <3>1, PriorsOfACheck DEF PriorsAreOthers, DoorInv
  <2>2. NothingClaimedUnseen
    <3>1. \A m \in Mails : mailbox[m].reply.kind = "check" => mailbox[m].reply \in Checks(m)
      BY <1>1 DEF DoorInv, HeldInv, RepliesAreChecks, Decline, NoReply
    <3> QED
      BY <3>1, ClaimsOfACheck DEF NothingClaimedUnseen
  <2>3. StrangersAreNotLookedUp
    BY <1>1 DEF StrangersAreNotLookedUp, DoorInv, PollInv, KnowsItsMail, Msg
  <2> QED
    BY <1>1, <2>1, <2>2, <2>3 DEF DoorIsHonest, DoorInv, HeldInv
<1>2. DoorInv => DoorIsHonest
  BY <1>1
<1> QED
  BY <1>2, DoorIsSound, PTL

(* No mail that is marked read is answered, however ticks overlap.         *)
THEOREM AMarkedMailIsLeftAlone == Spec => ReadIsAnswered
<1>1. ASSUME DoorInv, [Next]_vars, NEW m \in Mails, mailbox'[m].reply # mailbox[m].reply
      PROVE  ~mailbox[m].read
  <2>1. PICK t \in Ticks : (Reply(t) \/ AnswerLost(t)) /\ tick[t].pc = "reply" /\ m = Msg(t)
    <3>1. ASSUME NEW t \in Ticks, MarkRead(t) \/ FileAs(t) \/ (AnswerLost(t) /\ ~At(t, "reply"))
          PROVE  FALSE
      <4>1. Msg(t) \in Mails
        BY <1>1, <3>1, AtWork DEF MarkRead, FileAs, AnswerLost, At
      <4> QED
        BY <1>1, <3>1, <4>1 DEF MarkRead, FileAs, AnswerLost, DoorInv, HeldInv
    <3>2. ASSUME NEW t \in Ticks, Reply(t) \/ (AnswerLost(t) /\ At(t, "reply"))
          PROVE  tick[t].pc = "reply" /\ m = Msg(t)
      <4>1. Msg(t) \in Mails /\ tick[t].pc = "reply"
        BY <1>1, <3>2, AtWork DEF Reply, AnswerLost, At
      <4> QED
        BY <1>1, <3>2, <4>1 DEF Reply, AnswerLost, DoorInv, HeldInv
    <3>3. mailbox' # mailbox
      BY <1>1
    <3> QED
      BY <1>1, <3>1, <3>2, <3>3 DEF Next, Step, vars, Start, List, End, Skip, Admit, ReadMime,
           Look, RecordSender, Fail, Restart, MailArrives, Register
  <2>2. tick[t].queue # << >> /\ 1 \in DOMAIN tick[t].queue
    BY <1>1, <2>1, AtWork, MsgIsMail
  <2> QED
    BY <1>1, <2>1, <2>2 DEF DoorInv, PollInv, HandIsUnread, Msg
<1>2. DoorInv /\ [Next]_vars =>
        [\A m \in Mails : mailbox'[m].reply # mailbox[m].reply => ~mailbox[m].read]_vars
  BY <1>1
<1> QED
  BY <1>2, DoorIsSound, PTL DEF Spec, ReadIsAnswered
-----------------------------------------------------------------------------
(* The registers.                                                          *)

(* Where each entry has its own set of those that go before it, growing    *)
(* along the order, every place is taken by one entry.                     *)
LEMMA EveryPlaceIsTaken ==
  ASSUME NEW hit, IsFiniteSet(hit), NEW ahead \in [hit -> SUBSET hit],
         \A i \in hit : i \notin ahead[i],
         \A i, j \in hit : i # j => i \in ahead[j] \/ j \in ahead[i],
         \A i, j \in hit : j \in ahead[i] => ahead[j] \subseteq ahead[i]
  PROVE  /\ Cardinality(hit) \in Nat
         /\ Ranked(ahead) \in [1..Cardinality(hit) -> hit]
         /\ \A i \in hit : \E n \in 1..Cardinality(hit) : Ranked(ahead)[n] = i
         /\ \A n, m \in 1..Cardinality(hit) :
              Ranked(ahead)[m] \in ahead[Ranked(ahead)[n]] => m < n
<1> DEFINE count == Cardinality(hit)
           place == [i \in hit |-> Cardinality(ahead[i]) + 1]
           ranked == Ranked(ahead)
<1>1. count \in Nat
  BY FS_CardinalityType
<1>2. ASSUME NEW i \in hit
      PROVE  /\ IsFiniteSet(ahead[i]) /\ Cardinality(ahead[i]) \in Nat
             /\ Cardinality(ahead[i]) < count
  <2>1. ahead[i] \in SUBSET hit /\ ahead[i] # hit
    OBVIOUS
  <2>2. /\ IsFiniteSet(ahead[i]) /\ Cardinality(ahead[i]) <= count
        /\ Cardinality(ahead[i]) # count
    BY <2>1, FS_Subset
  <2>3. Cardinality(ahead[i]) \in Nat
    BY <2>2, FS_CardinalityType
  <2> QED
    BY <1>1, <2>2, <2>3
<1>3. place \in [hit -> 1..count]
  BY <1>1, <1>2
<1>4. ASSUME NEW i \in hit, NEW j \in ahead[i] PROVE place[j] < place[i]
  <2>1. j \in hit /\ ahead[j] \in SUBSET ahead[i] /\ ahead[j] # ahead[i]
    OBVIOUS
  <2>2. /\ Cardinality(ahead[j]) <= Cardinality(ahead[i])
        /\ Cardinality(ahead[j]) # Cardinality(ahead[i])
    BY <1>2, <2>1, FS_Subset
  <2> QED
    BY <1>2, <2>1, <2>2
<1>5. place \in Injection(hit, 1..count)
  <2> HIDE DEF place
  <2>1. \A i, j \in hit : place[i] = place[j] => i = j
    BY <1>1, <1>3, <1>4
  <2> QED
    BY <1>3, <2>1 DEF Injection, IsInjective
<1>6. place \in Surjection(hit, 1..count)
  <2>1. IsFiniteSet(1..count) /\ Cardinality(1..count) = count
    BY <1>1, FS_Interval
  <2> HIDE DEF place
  <2> QED
    BY <1>5, <2>1, FS_Injection
<1>7. ASSUME NEW n \in 1..count PROVE ranked[n] \in hit /\ place[ranked[n]] = n
  <2>1. \E i \in hit : place[i] = n
    BY <1>6 DEF Surjection
  <2>2. \E i \in hit : Cardinality(ahead[i]) = n - 1
    BY <1>1, <1>2, <2>1
  <2>3. ranked[n] = CHOOSE i \in hit : Cardinality(ahead[i]) = n - 1
    BY DEF Ranked
  <2>4. ranked[n] \in hit /\ Cardinality(ahead[ranked[n]]) = n - 1
    BY <2>2, <2>3
  <2> QED
    BY <1>1, <2>4
<1>8. ranked \in [1..count -> hit]
  BY <1>7 DEF Ranked
<1> HIDE DEF ranked
<1>9. \A i \in hit : \E n \in 1..count : ranked[n] = i
  <2> HIDE DEF place
  <2>1. \A i \in hit : place[i] \in 1..count /\ place[ranked[place[i]]] = place[i]
    BY <1>3, <1>7
  <2>2. \A i, j \in hit : place[i] = place[j] => i = j
    BY <1>5 DEF Injection, IsInjective
  <2> QED
    BY <1>3, <1>7, <2>1, <2>2
<1>10. \A n, m \in 1..count : ranked[m] \in ahead[ranked[n]] => m < n
  <2> HIDE DEF place
  <2> QED
    BY <1>4, <1>7
<1> QED
  BY <1>1, <1>8, <1>9, <1>10 DEF ranked

(* A text is hit where it holds one of the words.                          *)
LEMMA HitsCounts ==
  ASSUME NEW terms, IsFiniteSet(terms), NEW text
  PROVE  Hits(terms, text) \in Nat /\ (Hits(terms, text) > 0 <=> terms \cap text # {})
<1>1. IsFiniteSet(terms \cap text)
  BY FS_Subset
<1>2. Hits(terms, text) \in Nat /\ (Hits(terms, text) = 0 <=> terms \cap text = {})
  BY <1>1, FS_CardinalityType, FS_EmptySet DEF Hits
<1> QED
  BY <1>2

(* What is free goes first, and what is counted is what matches.           *)
LEMMA DataIsRanked ==
  ASSUME NEW question \in Question, AdvisoryFromText(question)
  PROVE  LET data == AdviseData(ExtractTerms(question))
             Words(e) == e.name \cup e.tags \cup e.description
             found == Matching(DataSets, question, Words)
         IN  /\ \A n \in DOMAIN data.matches : ~Free(data.matches[n]) =>
                  {i \in found : Free(i)} \subseteq ToSet(SubSeq(data.matches, 1, n - 1))
             /\ data.match_count = Cardinality(found) /\ Cardinality(found) \in Nat
<1> DEFINE terms == ExtractTerms(question)
           scores == [i \in DOMAIN DataSets |-> DataScore(terms, DataSets[i])]
           first == {i \in DOMAIN DataSets : Free(i)}
           First(i, j) == IF (i \in first) = (j \in first) THEN scores[i] > scores[j]
                          ELSE i \in first
           hit == {i \in DOMAIN scores : scores[i] > 0}
           ahead == Ahead(scores, first)
           ranked == Ranked(ahead)
           count == Cardinality(hit)
           Words(e) == e.name \cup e.tags \cup e.description
           found == Matching(DataSets, question, Words)
<1>1. IsFiniteSet(terms)
  BY RegisterAssumption, FS_Subset DEF ExtractTerms
<1>2. ASSUME NEW i \in DOMAIN DataSets
      PROVE  scores[i] \in Nat /\ (scores[i] > 0 <=> terms \cap Words(DataSets[i]) # {})
  <2> DEFINE e == DataSets[i]
  <2>1. /\ Hits(terms, e.tags) \in Nat /\ Hits(terms, e.name) \in Nat
        /\ Hits(terms, e.tags) > 0 <=> terms \cap e.tags # {}
        /\ Hits(terms, e.name) > 0 <=> terms \cap e.name # {}
        /\ Hits(terms, e.description) \in Nat
        /\ Hits(terms, e.description) > 0 <=> terms \cap e.description # {}
    BY <1>1, HitsCounts
  <2>2. scores[i] = 3 * Hits(terms, e.tags) + 2 * Hits(terms, e.name)
                      + Hits(terms, e.description)
    BY DEF DataScore
  <2>3. terms \cap Words(e) # {} <=> \/ terms \cap e.tags # {} \/ terms \cap e.name # {}
                                    \/ terms \cap e.description # {}
    OBVIOUS
  <2> HIDE DEF scores, terms, Words, e
  <2>4. scores[i] \in Nat /\ (scores[i] > 0 <=> \/ Hits(terms, e.tags) > 0
           \/ Hits(terms, e.name) > 0 \/ Hits(terms, e.description) > 0)
    BY <2>1, <2>2
  <2> QED
    BY <2>1, <2>3, <2>4 DEF e
<1>3. hit = found /\ IsFiniteSet(hit) /\ hit \subseteq Nat
  <2>1. hit = found
    BY <1>2 DEF Matching
  <2>2. hit \subseteq DOMAIN DataSets
    OBVIOUS
  <2> QED
    BY <2>1, <2>2, RegisterAssumption, FS_Subset
<1>4. ahead = [i \in hit |-> {j \in hit : First(j, i) \/ (~First(i, j) /\ j < i)}]
  BY DEF Ahead
<1>5. \A i \in hit : scores[i] \in Nat /\ i \in Nat
  BY <1>2, <1>3
<1>5a. \A i \in hit : i \in first <=> Free(i)
  OBVIOUS
<1> HIDE DEF scores, hit, ahead, first
<1>6. /\ ahead \in [hit -> SUBSET hit]
      /\ \A i \in hit : i \notin ahead[i]
      /\ \A i, j \in hit : i # j => i \in ahead[j] \/ j \in ahead[i]
      /\ \A i, j \in hit : j \in ahead[i] => ahead[j] \subseteq ahead[i]
  <2> DEFINE free(i) == i \in first
  <2>1. ASSUME NEW i \in hit, NEW j \in hit
        PROVE  j \in ahead[i] <=> \/ free(j) /\ ~free(i)
                                  \/ (free(j) <=> free(i)) /\ scores[j] > scores[i]
                                  \/ (free(j) <=> free(i)) /\ scores[j] = scores[i] /\ j < i
    <3>1. j \in ahead[i] <=> First(j, i) \/ (~First(i, j) /\ j < i)
      BY <1>4
    <3>2. First(j, i) <=> \/ free(j) /\ ~free(i)
                          \/ (free(j) <=> free(i)) /\ scores[j] > scores[i]
      OBVIOUS
    <3>3. First(i, j) <=> \/ free(i) /\ ~free(j)
                          \/ (free(j) <=> free(i)) /\ scores[i] > scores[j]
      OBVIOUS
    <3> HIDE DEF First, free
    <3> QED
      BY <1>5, <3>1, <3>2, <3>3
  <2>2. ahead \in [hit -> SUBSET hit]
    BY <1>4
  <2> HIDE DEF First, free
  <2>3. /\ \A i \in hit : i \notin ahead[i]
        /\ \A i, j \in hit : i # j => i \in ahead[j] \/ j \in ahead[i]
    BY <1>5, <2>1
  <2>4. ASSUME NEW i \in hit, NEW j \in hit, j \in ahead[i], NEW k \in ahead[j]
        PROVE  k \in ahead[i]
    <3>1. k \in hit
      BY <2>2
    <3> HIDE DEF free
    <3> QED
      BY <1>5, <2>1, <2>4, <3>1
  <2> QED
    BY <2>2, <2>3, <2>4
<1>7. IsFiniteSet(hit) /\ hit = found
  BY <1>3
<1> HIDE DEF First, found
<1>8. /\ count \in Nat /\ ranked \in [1..count -> hit]
      /\ \A i \in hit : \E n \in 1..count : ranked[n] = i
      /\ \A n, m \in 1..count : ranked[m] \in ahead[ranked[n]] => m < n
  <2>1. IsFiniteSet(hit)
    BY <1>7
  <2> QED
    BY <1>6, <2>1, EveryPlaceIsTaken
<1> HIDE DEF ranked, count
<1>9. Len(ranked) = count /\ ranked \in Seq(hit)
  BY <1>8
<1> DEFINE matches == Shown(ranked)
<1>10. matches \in Seq(hit)
       /\ \A n \in DOMAIN matches : n \in 1..count /\ matches[n] = ranked[n]
  BY <1>8, <1>9, RegisterAssumption DEF Shown
<1> HIDE DEF matches
<1>11. /\ matches \in Seq(hit) /\ Len(matches) \in Nat /\ DOMAIN matches = 1..Len(matches)
       /\ \A i \in 1..Len(matches) : matches[i] \in hit
  BY <1>10
<1>12. ASSUME NEW n \in DOMAIN matches, ~Free(matches[n]), NEW i \in found, Free(i)
       PROVE  i \in ToSet(SubSeq(matches, 1, n - 1))
  <2>1. n \in 1..count /\ matches[n] = ranked[n] /\ ranked[n] \in hit /\ i \in hit
    BY <1>7, <1>8, <1>10
  <2>2. i \in ahead[ranked[n]]
    <3>1. First(i, ranked[n])
      BY <1>12, <1>5a, <2>1 DEF First
    <3> QED
      BY <1>4, <2>1, <3>1
  <2>3. PICK m \in 1..count : ranked[m] = i /\ m < n
    BY <1>8, <2>1, <2>2
  <2>4. n \in 1..Len(matches) /\ Len(matches) \in Nat
    BY <1>11
  <2> DEFINE before == SubSeq(matches, 1, n - 1)
  <2>5. DOMAIN before = 1..(n - 1) /\ \A k \in 1..(n - 1) : before[k] = matches[k]
    <3>1. matches \in Seq(hit) /\ n - 1 \in Int /\ n - 1 <= Len(matches)
      BY <1>11, <2>4
    <3> QED
      BY <2>4, <3>1, SubSeqProperties
  <2>6. m \in 1..(n - 1) /\ m \in DOMAIN matches
    <3>1. count \in Nat
      BY <1>8
    <3> QED
      BY <1>11, <2>3, <2>4, <3>1
  <2>7. before[m] = i /\ m \in DOMAIN before
    BY <1>10, <2>3, <2>5, <2>6
  <2> HIDE DEF before
  <2> QED
    BY <2>7 DEF ToSet, before
<1>13. Cardinality(found) = count
  BY <1>7 DEF count
<1>14. LET data == AdviseData(terms)
       IN  data.matches = matches /\ data.match_count = Len(ranked)
  BY DEF AdviseData, matches, ranked, ahead, first, scores
<1> QED
  BY <1>8, <1>9, <1>12, <1>13, <1>14 DEF found

(* A model is counted for a word of its text or for what it can do.        *)
LEMMA ModelsAreCounted ==
  ASSUME NEW question \in Question
  PROVE  LET Can(e) == {t \in DOMAIN Capability : Capability[t] \in e.modalities}
             ModelWords(e) == e.name \cup e.provider \cup e.id \cup Can(e)
             found == Matching(Models, question, ModelWords)
         IN  /\ AdviseModels(ExtractTerms(question)).match_count = Cardinality(found)
             /\ Cardinality(found) \in Nat
<1> DEFINE terms == ExtractTerms(question)
           scores == [i \in DOMAIN Models |-> ModelScore(terms, Models[i])]
           hit == {i \in DOMAIN scores : scores[i] > 0}
           ranked == Ranked(Ahead(scores, {}))
           Can(e) == {t \in DOMAIN Capability : Capability[t] \in e.modalities}
           ModelWords(e) == e.name \cup e.provider \cup e.id \cup Can(e)
           found == Matching(Models, question, ModelWords)
<1>1. IsFiniteSet(terms)
  BY RegisterAssumption, FS_Subset DEF ExtractTerms
<1>2. ASSUME NEW i \in DOMAIN Models
      PROVE  scores[i] > 0 <=> terms \cap ModelWords(Models[i]) # {}
  <2> DEFINE e == Models[i]
             able == {t \in terms \cap DOMAIN Capability : Capability[t] \in e.modalities}
  <2>1. /\ Hits(terms, e.name) \in Nat
        /\ Hits(terms, e.name) > 0 <=> terms \cap e.name # {}
        /\ Hits(terms, e.id) \in Nat /\ (Hits(terms, e.id) > 0 <=> terms \cap e.id # {})
        /\ Hits(terms, e.provider) \in Nat
        /\ Hits(terms, e.provider) > 0 <=> terms \cap e.provider # {}
    BY <1>1, HitsCounts
  <2>2. Cardinality(able) \in Nat /\ (Cardinality(able) > 0 <=> able # {})
    <3>1. IsFiniteSet(able)
      BY <1>1, FS_Subset
    <3>2. Cardinality(able) \in Nat /\ (Cardinality(able) = 0 <=> able = {})
      BY <3>1, FS_CardinalityType, FS_EmptySet
    <3> QED
      BY <3>2
  <2>3. scores[i] = 2 * Hits(terms, e.name) + 2 * Hits(terms, e.provider)
                      + Hits(terms, e.id) + 3 * Cardinality(able)
    BY DEF ModelScore
  <2>4. terms \cap ModelWords(e) # {} <=>
          \/ terms \cap e.name # {} \/ terms \cap e.provider # {}
          \/ terms \cap e.id # {} \/ able # {}
    OBVIOUS
  <2> HIDE DEF scores, terms, ModelWords, e, able
  <2>5. scores[i] > 0 <=> \/ Hits(terms, e.name) > 0 \/ Hits(terms, e.provider) > 0
                          \/ Hits(terms, e.id) > 0 \/ Cardinality(able) > 0
    BY <2>1, <2>2, <2>3
  <2> QED
    BY <2>1, <2>2, <2>4, <2>5 DEF e
<1>3. hit = found
  BY <1>2 DEF Matching
<1>4. IsFiniteSet(hit) /\ Cardinality(hit) \in Nat
  <2>1. hit \subseteq DOMAIN Models
    OBVIOUS
  <2> QED
    BY <2>1, RegisterAssumption, FS_Subset, FS_CardinalityType
<1>5. DOMAIN Ahead(scores, {}) = hit
  BY DEF Ahead
<1>6. Len(ranked) = Cardinality(hit)
  <2> DEFINE ahead == Ahead(scores, {})
  <2>1. DOMAIN ahead = hit
    BY <1>5
  <2> HIDE DEF ahead, hit
  <2>2. DOMAIN Ranked(ahead) = 1..Cardinality(hit)
    BY <2>1 DEF Ranked
  <2>3. Len(Ranked(ahead)) = Cardinality(hit)
    BY <1>4, <2>2
  <2> QED
    BY <2>3 DEF ahead
<1>7. AdviseModels(terms).match_count = Len(ranked)
  BY DEF AdviseModels
<1> QED
  BY <1>3, <1>4, <1>6, <1>7

(* What was answered last is an answer to a question.                      *)
AdviceInv ==
  advice # Silent => \E question \in Question :
    AdvisoryFromText(question) /\ advice = RegisterAdvisory(question)

(* No paid dataset is shown before a free one that matches, and the count  *)
(* said is of all that match, for any registers, questions and page.       *)
THEOREM FreeComesFirst == AdvisorySpec => []FreeFirstAndCounted
<1>1. AdvisoryInit => AdviceInv
  BY DEF AdvisoryInit, AdviceInv
<1>2. AdviceInv /\ [AdvisoryNext]_advice => AdviceInv'
  BY DEF AdviceInv, AdvisoryNext, Advise
<1>3. AdviceInv => FreeFirstAndCounted
  <2> SUFFICES ASSUME AdviceInv, advice # Silent PROVE FreeFirstAndCounted
    BY DEF FreeFirstAndCounted
  <2>1. PICK question \in Question :
             AdvisoryFromText(question) /\ advice = RegisterAdvisory(question)
    BY DEF AdviceInv
  <2> DEFINE terms == ExtractTerms(question)
             Words(e) == e.name \cup e.tags \cup e.description
             Can(e) == {t \in DOMAIN Capability : Capability[t] \in e.modalities}
             ModelWords(e) == e.name \cup e.provider \cup e.id \cup Can(e)
             found == Matching(DataSets, question, Words)
             able == Matching(Models, question, ModelWords)
  <2>2. /\ advice.question = question /\ advice.data = AdviseData(terms)
        /\ advice.models = AdviseModels(terms)
    BY <2>1 DEF RegisterAdvisory
  <2>3. /\ \A n \in DOMAIN advice.data.matches : ~Free(advice.data.matches[n]) =>
             {i \in found : Free(i)} \subseteq ToSet(SubSeq(advice.data.matches, 1, n - 1))
        /\ advice.data.match_count = Cardinality(found) /\ Cardinality(found) \in Nat
    BY <2>1, <2>2, DataIsRanked
  <2>4. advice.models.match_count = Cardinality(able) /\ Cardinality(able) \in Nat
    BY <2>2, ModelsAreCounted
  <2>5. \A side : AnswerLine(side).found =
                    IF side.match_count = 0 THEN 0 ELSE side.match_count
    BY DEF AnswerLine
  <2>6. /\ AnswerLine(advice.data).found = Cardinality(found)
        /\ AnswerLine(advice.models).found = Cardinality(able)
    BY <2>3, <2>4, <2>5
  <2> HIDE DEF found, able
  <2> QED
    BY <2>2, <2>3, <2>6 DEF FreeFirstAndCounted, found, able
<1> QED
  BY <1>1, <1>2, <1>3, PTL DEF AdvisorySpec
=============================================================================
