---------------------------- MODULE Tier2Proofs ----------------------------
(***************************************************************************)
(* The rows of a session, for any fields, values, actors, gaps, tenants    *)
(* and overlapping requests, publishes and engagements, each dying after   *)
(* any query. First the signals: the trail replays to the rows, and no     *)
(* system write beats a human. Then publishing and engaging: the publish   *)
(* gate, the claims a republish picks again, and the engagements that were *)
(* answered.                                                               *)
(***************************************************************************)
EXTENDS Tier2, TLAPS

(* A field that was decided has a latest decision, and a row that is not   *)
(* there was never decided.                                                *)
LastDecided == \A f \in Field : Decisions(f) # {} => \E i \in Decisions(f) : Latest(f, i)
AbsentUndecided == \A f \in Field : signals[f].status = "absent" => Decisions(f) = {}

SInv ==
  STypeOK /\ AuditReplays /\ LastDecided /\ AbsentUndecided /\ ConflictIsBetweenHumans

(* An appended event is the last one, and decides its own field at most.   *)
LEMMA Appended ==
  ASSUME NEW e \in Event, events \in Seq(Event), events' = Append(events, e)
  PROVE  /\ events' \in Seq(Event)
         /\ Len(events') = Len(events) + 1
         /\ events'[Len(events')] = e
         /\ \A i \in DOMAIN events : events'[i] = events[i] /\ i < Len(events')
         /\ \A f \in Field : Decisions(f)' =
              IF e.field = f /\ e.type # "rescanned"
              THEN Decisions(f) \cup {Len(events')} ELSE Decisions(f)
<1>1. events' \in Seq(Event) /\ Len(events') = Len(events) + 1 /\ Len(events) \in Nat
  OBVIOUS
<1>2. DOMAIN events = 1..Len(events) /\ DOMAIN events' = 1..Len(events')
  BY <1>1
<1>3. events'[Len(events')] = e
  BY <1>1
<1>4. \A i \in DOMAIN events : events'[i] = events[i] /\ i < Len(events')
  BY <1>1, <1>2
<1>5. DOMAIN events' = DOMAIN events \cup {Len(events')}
  BY <1>1, <1>2
<1>6. ASSUME NEW f \in Field
      PROVE  Decisions(f)' = IF e.field = f /\ e.type # "rescanned"
                             THEN Decisions(f) \cup {Len(events')} ELSE Decisions(f)
  BY <1>3, <1>4, <1>5 DEF Decisions
<1> QED
  BY <1>1, <1>3, <1>4, <1>6

(* A decision written over a row whose value it records as prior, or over  *)
(* none, keeps the trail; and a conflict so written is between two humans. *)
LEMMA Decided ==
  ASSUME SInv, NEW e \in Event, events' = Append(events, e), e.type # "rescanned",
         NEW s \in {"overridden", "conflicted"},
         signals' = [signals EXCEPT ![e.field] =
                       [status |-> s, value |-> e.new, actor |-> e.actor]],
         e.prior = signals[e.field].value \/ Decisions(e.field) = {},
         s = "conflicted" =>
           /\ {signals[e.field].actor, e.actor} \subseteq Human
           /\ signals[e.field].actor # e.actor
           /\ signals[e.field].value # e.new \/ Ambiguous(e.new)
  PROVE  AuditReplays' /\ LastDecided' /\ AbsentUndecided' /\ ConflictIsBetweenHumans'
<1> DEFINE n == Len(events')
<1> USE DEF SInv, STypeOK
<1>1. e.field \in Field
  BY DEF Event
<1>2. /\ n = Len(events) + 1 /\ Len(events) \in Nat
      /\ events'[n] = e
      /\ \A i \in DOMAIN events : events'[i] = events[i] /\ i < n
      /\ \A f \in Field : Decisions(f)' =
           IF e.field = f THEN Decisions(f) \cup {n} ELSE Decisions(f)
  BY Appended
<1>3. \A f \in Field : Decisions(f) \subseteq DOMAIN events /\ Decisions(f) \subseteq Nat
  BY DEF Decisions
<1>4. \A f \in Field : f # e.field => signals'[f] = signals[f]
  BY <1>1
<1>5. signals'[e.field] = [status |-> s, value |-> e.new, actor |-> e.actor]
  BY <1>1
<1>6. ASSUME NEW f \in Field, f # e.field
      PROVE  /\ Decisions(f)' = Decisions(f)
             /\ \A i : Latest(f, i)' <=> Latest(f, i)
             /\ \A i, j : Successive(f, i, j)' <=> Successive(f, i, j)
  BY <1>2, <1>6 DEF Latest, Successive
<1>7. \A i : Latest(e.field, i)' <=> i = n
  <2>1. \A j \in Decisions(e.field) : j < n
    BY <1>1, <1>2, <1>3
  <2>2. n \in Nat /\ Decisions(e.field)' = Decisions(e.field) \cup {n}
        /\ Decisions(e.field) \subseteq Nat
    BY <1>1, <1>2, <1>3
  <2> SUFFICES ASSUME NEW i PROVE Latest(e.field, i)' <=> i = n
    OBVIOUS
  <2>3. Latest(e.field, i)' => i = n
    BY ONLY <2>1, <2>2 DEF Latest
  <2>4. i = n => Latest(e.field, i)'
    BY ONLY <2>1, <2>2 DEF Latest
  <2> QED
    BY <2>3, <2>4
<1>8. ASSUME NEW i, NEW j, Successive(e.field, i, j)'
      PROVE  \/ i # n /\ j = n /\ Latest(e.field, i)
             \/ i # n /\ j # n /\ Successive(e.field, i, j)
  <2>1. \A k \in Decisions(e.field) : k < n
    BY <1>1, <1>2, <1>3
  <2>2. Decisions(e.field)' = Decisions(e.field) \cup {n} /\ Decisions(e.field) \subseteq Nat /\ n \in Nat
    BY <1>1, <1>2, <1>3
  <2>3. i \in Decisions(e.field)' /\ j \in Decisions(e.field)' /\ i < j
        /\ \A k \in Decisions(e.field)' : k <= i \/ k >= j
    BY <1>8 DEF Successive
  <2>4. i # n /\ i \in Decisions(e.field)
    BY <2>1, <2>2, <2>3
  <2>5. CASE j = n
    <3>1. \A k \in Decisions(e.field) : k <= i
      BY <2>1, <2>2, <2>3, <2>5
    <3> QED
      BY <2>4, <2>5, <3>1 DEF Latest
  <2>6. CASE j # n
    BY <2>2, <2>3, <2>4, <2>6 DEF Successive
  <2> QED
    BY <2>5, <2>6
<1>9. AuditReplays'
  <2> SUFFICES ASSUME NEW f \in Field
               PROVE  /\ Decisions(f)' = {} => signals'[f].value = Null /\ signals'[f].actor = Null
                      /\ \A i \in Decisions(f)' : Latest(f, i)' =>
                           signals'[f].value = events'[i].new /\ signals'[f].actor = events'[i].actor
                      /\ \A i, j \in Decisions(f)' : Successive(f, i, j)' =>
                           events'[j].prior = events'[i].new
    BY DEF AuditReplays
  <2>1. CASE f # e.field
    BY <1>2, <1>3, <1>4, <1>6, <2>1 DEF AuditReplays
  <2>2. CASE f = e.field
    <3>1. Decisions(f)' # {}
      BY <1>2, <2>2
    <3>2. \A i \in Decisions(f)' : Latest(f, i)' =>
            signals'[f].value = events'[i].new /\ signals'[f].actor = events'[i].actor
      BY <1>2, <1>5, <1>7, <2>2
    <3>3. ASSUME NEW i \in Decisions(f)', NEW j \in Decisions(f)', Successive(f, i, j)'
          PROVE  events'[j].prior = events'[i].new
      <4>1. CASE i # n /\ j = n /\ Latest(f, i)
        <5>1. i \in Decisions(f) /\ i \in DOMAIN events /\ events'[i] = events[i]
          BY <1>2, <1>3, <4>1 DEF Latest
        <5>2. signals[f].value = events[i].new
          BY <4>1, <5>1 DEF AuditReplays
        <5> QED
          BY <1>2, <2>2, <4>1, <5>1, <5>2
      <4>2. CASE i # n /\ j # n /\ Successive(f, i, j)
        <5>1. i \in Decisions(f) /\ j \in Decisions(f)
          BY <4>2 DEF Successive
        <5>2. events'[i] = events[i] /\ events'[j] = events[j]
          BY <1>2, <1>3, <5>1
        <5> QED
          BY <4>2, <5>1, <5>2 DEF AuditReplays
      <4> QED
        BY <1>8, <2>2, <3>3, <4>1, <4>2
    <3> QED
      BY <3>1, <3>2, <3>3
  <2> QED
    BY <2>1, <2>2
<1>10. LastDecided'
  BY <1>2, <1>6, <1>7 DEF LastDecided
<1>11. AbsentUndecided'
  BY <1>1, <1>4, <1>5, <1>6 DEF AbsentUndecided
<1>12. ConflictIsBetweenHumans'
  <2> SUFFICES ASSUME NEW f \in Field, signals'[f].status = "conflicted"
               PROVE  \E i, j \in Decisions(f)' :
                        /\ Successive(f, i, j)' /\ Latest(f, j)'
                        /\ {events'[i].actor, events'[j].actor} \subseteq Human
                        /\ events'[i].actor # events'[j].actor
                        /\ events'[i].new # events'[j].new \/ Ambiguous(events'[j].new)
    BY DEF ConflictIsBetweenHumans
  <2>1. CASE f # e.field
    <3>1. PICK i \in Decisions(f), j \in Decisions(f) :
            /\ Successive(f, i, j) /\ Latest(f, j)
            /\ {events[i].actor, events[j].actor} \subseteq Human
            /\ events[i].actor # events[j].actor
            /\ events[i].new # events[j].new \/ Ambiguous(events[j].new)
      BY <1>4, <2>1 DEF ConflictIsBetweenHumans
    <3>2. events'[i] = events[i] /\ events'[j] = events[j]
      <4>1. i \in 1..Len(events) /\ j \in 1..Len(events)
        BY <1>3 DEF Decisions
      <4> QED
        BY <1>2, <4>1
    <3>3. i \in Decisions(f)' /\ j \in Decisions(f)'
      BY <1>6, <2>1
    <3>4. Successive(f, i, j)' /\ Latest(f, j)'
      BY <1>6, <2>1, <3>1
    <3>5. /\ {events'[i].actor, events'[j].actor} \subseteq Human
          /\ events'[i].actor # events'[j].actor
          /\ events'[i].new # events'[j].new \/ Ambiguous(events'[j].new)
      BY <3>1, <3>2
    <3> QED
      BY ONLY <3>3, <3>4, <3>5, Zenon
  <2>2. CASE f = e.field
    <3>1. /\ {signals[f].actor, e.actor} \subseteq Human
          /\ signals[f].actor # e.actor
          /\ signals[f].value # e.new \/ Ambiguous(e.new)
      BY <1>5, <2>2
    <3>2. Decisions(f) # {}
      BY <3>1, SignalAssumption DEF AuditReplays
    <3>3. PICK i \in Decisions(f) : Latest(f, i)
      BY <3>2 DEF LastDecided
    <3>4. signals[f].value = events[i].new /\ signals[f].actor = events[i].actor
      BY <3>3 DEF AuditReplays
    <3>. PICK j \in Nat : j = n
      BY <1>2
    <3>5. i \in Nat /\ i < j /\ events'[i] = events[i] /\ events'[j] = e
      BY <1>2, <1>3
    <3>6. Decisions(f)' = Decisions(f) \cup {j}
      BY <1>2, <2>2
    <3>7. \A k \in Decisions(f)' : k <= i \/ k >= j
      BY <1>3, <3>3, <3>5, <3>6 DEF Latest
    <3>8. Successive(f, i, j)'
      BY <3>5, <3>6, <3>7 DEF Successive
    <3>9. Latest(f, j)'
      BY <1>7, <2>2
    <3>10. i \in Decisions(f)' /\ j \in Decisions(f)'
      BY <3>3, <3>6
    <3>11. /\ {events'[i].actor, events'[j].actor} \subseteq Human
           /\ events'[i].actor # events'[j].actor
           /\ events'[i].new # events'[j].new \/ Ambiguous(events'[j].new)
      BY <2>2, <3>1, <3>4, <3>5
    <3> QED
      BY <3>8, <3>9, <3>10, <3>11
  <2> QED
    BY <2>1, <2>2
<1> QED
  BY <1>9, <1>10, <1>11, <1>12

(* What decides no field and changes no row's value or actor keeps it all. *)
LEMMA Undecided ==
  ASSUME SInv,
         \A f \in Field : Decisions(f)' = Decisions(f),
         \A i \in DOMAIN events : events'[i] = events[i],
         \A f \in Field : /\ signals'[f].value = signals[f].value
                         /\ signals'[f].actor = signals[f].actor
                         /\ \/ signals'[f].status = signals[f].status
                            \/ signals'[f].status = "inferred"
  PROVE  AuditReplays' /\ LastDecided' /\ AbsentUndecided' /\ ConflictIsBetweenHumans'
<1> USE DEF SInv
<1>1. \A f \in Field : Decisions(f) \subseteq DOMAIN events
  BY DEF Decisions
<1>2. \A f \in Field : /\ \A i : Latest(f, i)' <=> Latest(f, i)
                       /\ \A i, j : Successive(f, i, j)' <=> Successive(f, i, j)
  BY DEF Latest, Successive
<1>3. AuditReplays'
  BY <1>1, <1>2 DEF AuditReplays
<1>4. LastDecided'
  BY <1>2 DEF LastDecided
<1>5. AbsentUndecided'
  BY DEF AbsentUndecided
<1>6. ConflictIsBetweenHumans'
  BY <1>1, <1>2 DEF ConflictIsBetweenHumans
<1> QED
  BY <1>3, <1>4, <1>5, <1>6

(* What a resolution records having been resolved is actors and values.    *)
LEMMA Resolved ==
  ASSUME events \in Seq(Event), NEW f \in Field
  PROVE  ResolvedFrom(f) \in SUBSET (Actor \X Value)
<1>1. ASSUME NEW p \in ResolvedFrom(f) PROVE p \in Actor \X Value
  <2>1. PICK i \in DOMAIN events : p = <<events[i].actor, events[i].new>>
    BY <1>1 DEF ResolvedFrom, Competing
  <2>2. events[i] \in Event
    BY <2>1
  <2> QED
    BY <2>1, <2>2 DEF Event
<1> QED
  BY <1>1

(* Signals, events and requests stay of their types.                       *)
LEMMA TypeStep == STypeOK /\ SNext => STypeOK'
<1> SUFFICES ASSUME STypeOK, SNext PROVE STypeOK'
  OBVIOUS
<1> USE SignalAssumption, AsksAssumption DEF STypeOK
<1>1. ASSUME NEW c \in Call, Begin(c) PROVE STypeOK'
  BY <1>1 DEF Begin, Request, Idle
<1>2. ASSUME NEW c \in Call, call[c].pc \in {"begun", "insert"}
      PROVE  /\ call[c] \in Request
             /\ call[c].ask \in Ask /\ call[c].ts \in Nat
             /\ call[c].ask.field \in Field /\ SaidText(c) \in Value
             /\ call[c].ask.actor \in Actor
  BY <1>2 DEF Request, Reply, Idle, Ask, SaidText
<1>3. ASSUME NEW c \in Call, NEW code, Answer(c, code),
             code \in {"ok", "conflicted", "409", "500"}
      PROVE  call' \in [Call -> Request \cup Reply \cup {Idle}]
  BY <1>3 DEF Answer, Reply
<1>4. ASSUME NEW c \in Call, NEW s \in {"overridden", "conflicted"},
             call[c].pc \in {"begun", "insert"}, Write(c, s)
      PROVE  signals' \in [Field -> Row]
  BY <1>2, <1>4 DEF Write, Row
<1>5. ASSUME NEW c \in Call, NEW type \in {"overridden", "rescanned", "conflict_resolved"},
             NEW prior \in Value \cup {Null}, NEW from \in SUBSET (Actor \X Value),
             call[c].pc \in {"begun", "insert"}, Log(c, type, prior, from)
      PROVE  events' \in Seq(Event)
  BY <1>2, <1>5 DEF Log, Event
<1>6. ASSUME NEW c \in Call, Transact(c) \/ Abort(c) PROVE STypeOK'
  <2>1. CASE FindNoRow(c)
    BY <1>2, <2>1 DEF FindNoRow, Begun, Request
  <2>2. CASE InsertRow(c)
    BY <1>2, <1>3, <1>4, <1>5, <2>2 DEF InsertRow
  <2>3. CASE Rescan(c)
    <3>1. /\ Log(c, "rescanned", signals[call[c].ask.field].value, {})
          /\ Answer(c, "ok")
          /\ call[c].pc = "begun" /\ UNCHANGED <<signals, clock, toPersist>>
      BY <2>3 DEF Rescan, Begun
    <3>2. signals[call[c].ask.field].value \in Value \cup {Null}
      BY <1>2, <3>1 DEF Row
    <3> QED
      BY <1>3, <1>5, <3>1, <3>2
  <2>4. CASE OverrideRow(c)
    <3>1. /\ \E s \in {"overridden", "conflicted"} : Write(c, s)
          /\ \E code \in {"ok", "conflicted"} : Answer(c, code)
          /\ Log(c, "overridden", signals[call[c].ask.field].value, {})
          /\ call[c].pc = "begun" /\ UNCHANGED <<clock, toPersist>>
      BY <2>4 DEF OverrideRow, Begun
    <3>2. signals[call[c].ask.field].value \in Value \cup {Null}
      BY <1>2, <3>1 DEF Row
    <3> QED
      BY <1>3, <1>4, <1>5, <3>1, <3>2
  <2>5. CASE Resolve(c)
    <3>1. call[c].ask.field \in Field
      BY <1>2, <2>5 DEF Resolve, Begun
    <3>2. ResolvedFrom(call[c].ask.field) \in SUBSET (Actor \X Value)
      BY <3>1, Resolved
    <3> QED
      BY <1>2, <1>3, <1>4, <1>5, <2>5, <3>2 DEF Resolve, Begun, Row
  <2>6. CASE RefuseResolve(c)
    BY <1>2, <1>3, <2>6 DEF RefuseResolve, Begun
  <2>7. CASE Abort(c)
    BY <1>3, <2>7 DEF Abort
  <2> QED
    BY <1>6, <2>1, <2>2, <2>3, <2>4, <2>5, <2>6, <2>7 DEF Transact
<1>7. ASSUME NEW f \in Field, PersistInferred(f) PROVE STypeOK'
  BY <1>7 DEF PersistInferred, Row
<1>8. CASE PersistFails
  BY <1>8 DEF PersistFails
<1> QED
  BY <1>1, <1>6, <1>7, <1>8 DEF SNext

(* The rows and the trail, and a conflict's two humans, at every step.     *)
LEMMA StoreStep == SInv /\ SNext => SInv'
<1> SUFFICES ASSUME SInv, SNext PROVE SInv'
  OBVIOUS
<1> USE SignalAssumption, AsksAssumption DEF SInv
<1> DEFINE Kept == AuditReplays /\ LastDecided /\ AbsentUndecided /\ ConflictIsBetweenHumans
<1>1. STypeOK'
  BY TypeStep
<1>2. ASSUME UNCHANGED <<signals, events>> PROVE Kept'
  BY <1>2, Undecided DEF Decisions, STypeOK
<1>3. ASSUME NEW c \in Call, call[c].pc \in {"begun", "insert"}
      PROVE  /\ call[c].ask \in Ask /\ call[c].ts \in Nat
             /\ call[c].ask.field \in Field
             /\ call[c].ask.value \in Value /\ SaidText(c) \in Value
             /\ call[c].ask.actor \in Actor
             /\ signals[call[c].ask.field] \in Row
  BY <1>3 DEF STypeOK, Request, Reply, Idle, Ask, SaidText
<1>4. ASSUME NEW c \in Call, call[c].pc \in {"begun", "insert"},
             NEW type \in {"overridden", "conflict_resolved"},
             NEW prior \in Value \cup {Null}, NEW from \in SUBSET (Actor \X Value),
             NEW s \in {"overridden", "conflicted"},
             Write(c, s), Log(c, type, prior, from),
             \/ prior = signals[call[c].ask.field].value
             \/ signals[call[c].ask.field].status = "absent",
             s = "conflicted" => Challenges(c, signals[call[c].ask.field])
      PROVE  Kept'
  <2> DEFINE e == [field |-> call[c].ask.field, type |-> type, actor |-> call[c].ask.actor,
                   prior |-> prior, new |-> SaidText(c), ts |-> call[c].ts,
                   from |-> from]
  <2>1. e \in Event
    BY <1>3, <1>4 DEF Event
  <2>2. events' = Append(events, e)
    BY <1>4 DEF Log
  <2>3. signals' = [signals EXCEPT ![e.field] =
                      [status |-> s, value |-> e.new, actor |-> e.actor]]
    BY <1>4 DEF Write
  <2>4. e.prior = signals[e.field].value \/ Decisions(e.field) = {}
    BY <1>3, <1>4 DEF AbsentUndecided
  <2>5. s = "conflicted" =>
          /\ {signals[e.field].actor, e.actor} \subseteq Human
          /\ signals[e.field].actor # e.actor
          /\ signals[e.field].value # e.new \/ Ambiguous(e.new)
    BY <1>3, <1>4 DEF Challenges, HeldByHuman, SaidText, Ambiguous
  <2>6. e.type # "rescanned"
    BY <1>4
  <2> HIDE DEF e
  <2> QED
    BY <2>1, <2>2, <2>3, <2>4, <2>5, <2>6, Decided
<1>5. ASSUME NEW c \in Call, Transact(c) PROVE Kept'
  <2>1. CASE FindNoRow(c)
    BY <1>2, <2>1 DEF FindNoRow
  <2>2. CASE InsertRow(c)
    <3>1. CASE signals[call[c].ask.field].status = "absent"
      BY <1>3, <1>4, <2>2, <3>1 DEF InsertRow
    <3>2. CASE signals[call[c].ask.field].status # "absent"
      BY <1>2, <2>2, <3>2 DEF InsertRow
    <3> QED
      BY <3>1, <3>2
  <2>3. CASE Rescan(c)
    <3> DEFINE e == [field |-> call[c].ask.field, type |-> "rescanned",
                     actor |-> call[c].ask.actor,
                     prior |-> signals[call[c].ask.field].value, new |-> SaidText(c),
                     ts |-> call[c].ts, from |-> {}]
    <3>1. e \in Event
      BY <1>3, <2>3 DEF Rescan, Begun, Event, Row
    <3>2. events' = Append(events, e) /\ UNCHANGED signals
      BY <2>3 DEF Rescan, Log
    <3>3. e.type = "rescanned"
      OBVIOUS
    <3> HIDE DEF e
    <3>4. \A f \in Field : Decisions(f)' = Decisions(f)
      BY <3>1, <3>2, <3>3, Appended DEF STypeOK
    <3>5. \A i \in DOMAIN events : events'[i] = events[i]
      BY <3>1, <3>2, Appended DEF STypeOK
    <3> QED
      BY <3>2, <3>4, <3>5, Undecided
  <2>4. CASE OverrideRow(c)
    <3>1. /\ \E s \in {"overridden", "conflicted"} :
               /\ Write(c, s)
               /\ s = "conflicted" => Challenges(c, signals[call[c].ask.field])
          /\ Log(c, "overridden", signals[call[c].ask.field].value, {})
          /\ call[c].pc = "begun"
      BY <2>4 DEF OverrideRow, Begun
    <3>2. signals[call[c].ask.field].value \in Value \cup {Null}
      BY <1>3, <3>1 DEF Row
    <3> QED
      BY <1>4, <3>1, <3>2
  <2>5. CASE Resolve(c)
    <3>1. /\ Write(c, "overridden") /\ call[c].pc = "begun"
          /\ Log(c, "conflict_resolved", signals[call[c].ask.field].value,
                 ResolvedFrom(call[c].ask.field))
      BY <2>5 DEF Resolve, Begun
    <3>2. signals[call[c].ask.field].value \in Value \cup {Null}
      BY <1>3, <3>1 DEF Row
    <3>3. ResolvedFrom(call[c].ask.field) \in SUBSET (Actor \X Value)
      BY <1>3, <3>1, Resolved DEF STypeOK
    <3> QED
      BY <1>4, <3>1, <3>2, <3>3
  <2>6. CASE RefuseResolve(c)
    BY <1>2, <2>6 DEF RefuseResolve
  <2> QED
    BY <1>5, <2>1, <2>2, <2>3, <2>4, <2>5, <2>6 DEF Transact
<1>6. ASSUME NEW f \in Field, PersistInferred(f) PROVE Kept'
  BY <1>6, Undecided DEF PersistInferred, Decisions, STypeOK, Row
<1>7. Kept'
  BY <1>2, <1>5, <1>6 DEF SNext, Begin, Abort, PersistFails
<1> QED
  BY <1>1, <1>7

(* The invariant holds at the start, and publishing and engaging, which    *)
(* leave the signals alone, keep it.                                       *)
LEMMA StoreInvariance == Spec => []SInv
<1>1. Init => SInv
  BY SignalAssumption DEF Init, SInit, Init0, NoRow, Idle, Row, SInv, STypeOK, AuditReplays,
       LastDecided, AbsentUndecided, ConflictIsBetweenHumans, Decisions
<1>2. SInv /\ [Next]_vars => SInv'
  <2>1. ASSUME SInv, UNCHANGED svars PROVE SInv'
    <3>1. UNCHANGED <<signals, events, clock, call, toPersist>>
      BY <2>1 DEF svars
    <3>2. STypeOK'
      BY <2>1, <3>1 DEF SInv, STypeOK
    <3>3. \A f \in Field : Decisions(f)' = Decisions(f)
      BY <3>1 DEF Decisions
    <3> QED
      BY <2>1, <3>1, <3>2, <3>3, Undecided DEF SInv
  <2> QED
    BY <2>1, StoreStep DEF Next, vars
<1> QED
  BY <1>1, <1>2, PTL DEF Spec

(* Every row, event and request is one the code writes.                    *)
THEOREM SignalTypes == Spec => []STypeOK
<1>1. SInv => STypeOK
  BY DEF SInv
<1> QED
  BY <1>1, StoreInvariance, PTL

(* The audit trail of signal-store.js replays to the rows, however many    *)
(* overrides, rescans, resolutions and late inserts overlap.               *)
THEOREM TrailReplays == Spec => []AuditReplays
<1>1. SInv => AuditReplays
  BY DEF SInv
<1> QED
  BY <1>1, StoreInvariance, PTL

(* A conflicted row holds the word of two humans, who disagreed unless     *)
(* what they said reads the same only as text: the comparison with !== of  *)
(* signal-store.js takes the row's text and the request's JSON value.      *)
THEOREM ConflictsAreHuman == Spec => []ConflictIsBetweenHumans
<1>1. SInv => ConflictIsBetweenHumans
  BY DEF SInv
<1> QED
  BY <1>1, StoreInvariance, PTL

(* A field a human holds is given back to the system by no rescan and no   *)
(* late insert of the extractor, only by the resolution of a conflict.     *)
THEOREM HumansKeepTheirWord == Spec => SystemNeverBeatsHuman
<1> DEFINE Held(f) ==
      HeldByHuman(signals[f]) /\ signals'[f] # signals[f] =>
        \/ HeldByHuman(signals'[f])
        \/ /\ signals[f].status = "conflicted"
           /\ events'[Len(events')].type = "conflict_resolved"
<1>1. ASSUME SInv, SNext, NEW f \in Field PROVE Held(f)
  <2> USE SignalAssumption, <1>1 DEF SInv, STypeOK
  <2>1. ASSUME NEW c \in Call, NEW s, call[c].pc \in {"begun", "insert"}, Write(c, s)
        PROVE  /\ call[c].ask.field # f => signals'[f] = signals[f]
               /\ call[c].ask.field = f => signals'[f].actor = call[c].ask.actor
               /\ call[c].ask.field \in Field /\ call[c].ask.actor \in Actor
    BY <2>1 DEF Write, Request, Reply, Idle, Ask
  <2>2. ASSUME NEW c \in Call, Transact(c) PROVE Held(f)
    <3>1. CASE InsertRow(c)
      <4>1. CASE signals[call[c].ask.field].status = "absent"
        <5>1. call[c].ask.field \in Field
          BY <2>1, <3>1, <4>1 DEF InsertRow
        <5>2. ~HeldByHuman(signals[call[c].ask.field])
          BY <4>1, <5>1 DEF HeldByHuman, AuditReplays, AbsentUndecided
        <5> QED
          BY <2>1, <3>1, <4>1, <5>2 DEF InsertRow
      <4>2. CASE signals[call[c].ask.field].status # "absent"
        BY <3>1, <4>2 DEF InsertRow
      <4> QED
        BY <4>1, <4>2
    <3>2. CASE OverrideRow(c)
      <4>1. /\ \E s : Write(c, s)
            /\ call[c].pc = "begun"
            /\ ~(call[c].ask.actor = "system" /\ HeldByHuman(signals[call[c].ask.field]))
        BY <3>2 DEF OverrideRow, Begun
      <4> QED
        BY <2>1, <4>1 DEF HeldByHuman, Actor
    <3>3. CASE Resolve(c)
      <4>1. /\ Write(c, "overridden") /\ call[c].pc = "begun"
            /\ signals[call[c].ask.field].status = "conflicted"
            /\ Log(c, "conflict_resolved", signals[call[c].ask.field].value,
                   ResolvedFrom(call[c].ask.field))
        BY <3>3 DEF Resolve, Begun
      <4>2. events'[Len(events')].type = "conflict_resolved"
        BY <4>1 DEF Log
      <4> QED
        BY <2>1, <4>1, <4>2
    <3>4. CASE FindNoRow(c) \/ Rescan(c) \/ RefuseResolve(c)
      BY <3>4 DEF FindNoRow, Rescan, RefuseResolve
    <3> QED
      BY <2>2, <3>1, <3>2, <3>3, <3>4 DEF Transact
  <2>3. ASSUME NEW g \in Field, PersistInferred(g) PROVE Held(f)
    BY <2>3 DEF PersistInferred, HeldByHuman, Row
  <2>4. CASE UNCHANGED signals
    BY <2>4
  <2> QED
    BY <1>1, <2>2, <2>3, <2>4 DEF SNext, Begin, Abort, PersistFails
<1>2. SInv /\ [Next]_vars => [\A f \in Field : Held(f)]_svars
  BY <1>1 DEF Next, vars, svars
<1> QED
  BY <1>2, StoreInvariance, PTL DEF Spec, SystemNeverBeatsHuman

-----------------------------------------------------------------------------
(* Publish and engage.                                                     *)

Snapshot == [Field -> Value \cup {Null}]

PublishState ==
       {Fresh} \cup [pc : {"ok", "409", "500", "503"}]
  \cup [pc : {"loaded"}, again : BOOLEAN]
  \cup [pc : {"attesting"}, snap : Snapshot, todo : SUBSET Gap]
  \cup [pc : {"writing"}, snap : Snapshot, left : SUBSET Gap, complete : BOOLEAN]

EngageState ==
       {Fresh} \cup [pc : {"ok", "409", "500"}]
  \cup [pc : {"routing"}, branch : Branch, to : {t.id : t \in Tenant} \cup {Null}]

Engagement ==
  [row : BOOLEAN, tenant : {t.id : t \in Tenant} \cup {Null}, event : BOOLEAN, shares : Seq(Nat)]

TTypeOK ==
  /\ status \in {"active", "tier2_published"}
  /\ gaps \in [Gap -> [triggered : BOOLEAN, claim : {NoClaim} \cup {Claim(s) : s \in Snapshot}]]
  /\ publish \in [Publish -> PublishState]
  /\ engage \in [Engage -> EngageState]
  /\ engagement \in [Engage -> Engagement]

Published == status = "tier2_published"

(* What a publish has still to do stands for all the gaps, unless the      *)
(* session has been published before.                                      *)
GateInv ==
  /\ PublishedMeansAttested
  /\ \A p \in Publish :
       /\ publish[p].pc = "loaded" /\ publish[p].again => Published
       /\ publish[p].pc = "attesting" => Published \/ Triggered \subseteq publish[p].todo
       /\ publish[p].pc = "writing" /\ publish[p].complete =>
            Published \/ \A g \in Triggered : g \in publish[p].left \/ gaps[g].claim.made

(* What was read of the signals differs from them only where a field       *)
(* counts as changed.                                                      *)
Fits(snap) == \A f \in Field : snap[f] = signals[f].value \/ f \in Changed

StaleInv ==
  /\ \A p \in Publish : publish[p].pc \in {"attesting", "writing"} => Fits(publish[p].snap)
  /\ \A g \in Gap : gaps[g].claim.made => Fits(gaps[g].claim.of)

(* The shares so far are the first of those due.                           *)
FirstOfDue(shares, due) ==
  Len(shares) <= Len(due) /\ \A i \in 1..Len(shares) : shares[i] = due[i]

WholeInv ==
  /\ AnsweredEngagementIsWhole
  /\ \A e \in Engage :
       /\ engage[e] = Fresh => engagement[e] = NoEngagement
       /\ engage[e].pc = "routing" =>
            Published /\ FirstOfDue(engagement[e].shares, Shares(engage[e].branch))

TInv == TTypeOK /\ GateInv /\ StaleInv /\ WholeInv

(* The fields a publish's state has, by how far it is.                     *)
LEMMA PublishFields ==
  ASSUME TTypeOK, NEW p \in Publish
  PROVE  /\ publish[p].pc = "loaded" => publish[p].again \in BOOLEAN
         /\ publish[p].pc = "attesting" =>
              publish[p].snap \in Snapshot /\ publish[p].todo \subseteq Gap
         /\ publish[p].pc = "writing" =>
              publish[p] \in
                [pc : {"writing"}, snap : Snapshot, left : SUBSET Gap, complete : BOOLEAN]
  BY DEF TTypeOK, PublishState, Fresh

(* A publish that changes only its own state and leaves status and gaps.   *)
LEMMA PublishMoves ==
  ASSUME TInv, NEW p \in Publish, NEW new \in PublishState,
         publish' = [publish EXCEPT ![p] = new],
         UNCHANGED <<svars, status, gaps, engage, engagement>>,
         new.pc = "loaded" /\ new.again => Published,
         new.pc = "attesting" => Published \/ Triggered \subseteq new.todo,
         new.pc = "writing" /\ new.complete =>
           Published \/ \A g \in Triggered : g \in new.left \/ gaps[g].claim.made,
         new.pc \in {"attesting", "writing"} => Fits(new.snap)
  PROVE  TInv'
<1> USE DEF TInv
<1>1. TTypeOK'
  BY DEF TTypeOK
<1>2. Triggered' = Triggered /\ Published' = Published /\ Changed' = Changed /\ signals' = signals
  BY DEF Triggered, Published, Changed, svars
<1>3. \A q \in Publish : publish'[q] = IF q = p THEN new ELSE publish[q]
  BY DEF TTypeOK
<1>4. GateInv'
  BY <1>2, <1>3 DEF GateInv, PublishedMeansAttested, Published
<1>5. \A s : Fits(s)' <=> Fits(s)
  BY <1>2 DEF Fits
<1>6. StaleInv'
  BY <1>2, <1>3 DEF StaleInv, Fits
<1>7. WholeInv'
  BY <1>2 DEF WholeInv, AnsweredEngagementIsWhole, Published, NoEngagement, FirstOfDue, Shares
<1> QED
  BY <1>1, <1>4, <1>6, <1>7

(* Overrides, resolutions and late inserts: a value only changes with its  *)
(* field counted as changed, and a field stays counted.                    *)
LEMMA SignalsMove ==
  ASSUME STypeOK, SNext
  PROVE  /\ Changed \subseteq Changed'
         /\ \A f \in Field : signals'[f].value = signals[f].value \/ f \in Changed'
<1> USE DEF STypeOK
<1>1. ASSUME NEW c \in Call, NEW s \in {"overridden", "conflicted"}, Write(c, s)
      PROVE  /\ Changed \subseteq Changed'
             /\ \A f \in Field : signals'[f].value = signals[f].value \/ f \in Changed'
  BY <1>1 DEF Write, Changed
<1>2. ASSUME NEW c \in Call, Transact(c)
      PROVE  UNCHANGED signals \/ \E s \in {"overridden", "conflicted"} : Write(c, s)
  BY <1>2 DEF Transact, FindNoRow, InsertRow, Rescan, OverrideRow, Resolve, RefuseResolve
<1>3. ASSUME NEW f \in Field, PersistInferred(f)
      PROVE  /\ Changed \subseteq Changed'
             /\ \A g \in Field : signals'[g].value = signals[g].value
  BY <1>3 DEF PersistInferred, Changed, Row
<1>4. CASE UNCHANGED signals
  BY <1>4 DEF Changed
<1> QED
  BY <1>1, <1>2, <1>3, <1>4 DEF SNext, Begin, Abort, PersistFails

(* A signal step leaves publishes and engagements alone.                   *)
LEMMA SignalsKeep == TInv /\ STypeOK /\ SNext /\ UNCHANGED tvars => TInv'
<1> SUFFICES ASSUME TInv, STypeOK, SNext, UNCHANGED tvars PROVE TInv'
  OBVIOUS
<1> USE DEF TInv, tvars
<1>1. TTypeOK'
  BY DEF TTypeOK
<1>2. GateInv'
  BY DEF GateInv, PublishedMeansAttested, Published, Triggered
<1>3. ASSUME NEW s, Fits(s) PROVE Fits(s)'
  BY <1>3, SignalsMove DEF Fits
<1>4. StaleInv'
  <2>1. \A p \in Publish : publish'[p].pc \in {"attesting", "writing"} => Fits(publish'[p].snap)
    BY DEF StaleInv
  <2>2. \A g \in Gap : gaps'[g].claim.made => Fits(gaps'[g].claim.of)
    BY DEF StaleInv
  <2>3. Changed \subseteq Changed' /\ \A f \in Field : signals'[f].value = signals[f].value \/ f \in Changed'
    BY SignalsMove
  <2> QED
    BY <2>1, <2>2, <2>3 DEF StaleInv, Fits
<1>5. WholeInv'
  BY DEF WholeInv, AnsweredEngagementIsWhole, Published, NoEngagement, FirstOfDue, Shares
<1> QED
  BY <1>1, <1>2, <1>4, <1>5

(* Loading, choosing, attesting, keeping a claim, concluding and dying.    *)
LEMMA PublishKeeps ==
  ASSUME TInv, STypeOK, NEW p \in Publish, LoadSession(p) \/ PublishStep(p), UNCHANGED svars
  PROVE  TInv'
<1> USE DEF TInv
<1>1. CASE LoadSession(p)
  <2> DEFINE new == [pc |-> "loaded", again |-> status = "tier2_published"]
  <2>1. new \in PublishState
    BY DEF PublishState
  <2>2. publish' = [publish EXCEPT ![p] = new] /\ UNCHANGED <<status, gaps, engage, engagement>>
    BY <1>1 DEF LoadSession
  <2>3. new.pc = "loaded" /\ (new.again => Published)
    BY DEF Published
  <2> HIDE DEF new
  <2> QED
    BY <2>1, <2>2, <2>3, PublishMoves
<1>2. CASE ChooseGaps(p)
  <2> DEFINE todo == IF publish[p].again THEN GapsRequiringReattestation ELSE Triggered
             new == IF Triggered = {} THEN [pc |-> "409"]
                    ELSE IF todo = {} THEN [pc |-> "ok"]
                    ELSE [pc |-> "attesting", snap |-> Values, todo |-> todo]
  <2>1. /\ publish[p].pc = "loaded"
        /\ publish' = [publish EXCEPT ![p] = new]
        /\ UNCHANGED <<status, gaps, engage, engagement>>
    BY <1>2 DEF ChooseGaps
  <2>2. Values \in Snapshot /\ Fits(Values)
    BY DEF Values, Snapshot, Fits, STypeOK, Row
  <2>3. todo \subseteq Gap
    BY DEF GapsRequiringReattestation, Triggered
  <2>4. Published \/ Triggered \subseteq todo
    BY <2>1, PublishFields DEF GateInv
  <2>5. \/ new = [pc |-> "409"] \/ new = [pc |-> "ok"]
        \/ new = [pc |-> "attesting", snap |-> Values, todo |-> todo]
    OBVIOUS
  <2> HIDE DEF new, todo
  <2>6. new \in PublishState
    BY <2>2, <2>3, <2>5 DEF PublishState
  <2>7. new.pc = "attesting" => (Published \/ Triggered \subseteq new.todo) /\ Fits(new.snap)
    BY <2>2, <2>4, <2>5
  <2>8. new.pc \notin {"loaded", "writing"}
    BY <2>5
  <2> QED
    BY <2>1, <2>6, <2>7, <2>8, PublishMoves
<1>3. CASE AttestBatch(p)
  <2>1. PICK attested \in SUBSET publish[p].todo :
          publish' = [publish EXCEPT ![p] =
            [pc |-> "writing", snap |-> publish[p].snap, left |-> attested,
             complete |-> attested = publish[p].todo]]
    BY <1>3 DEF AttestBatch, TTypeOK
  <2> DEFINE new == [pc |-> "writing", snap |-> publish[p].snap, left |-> attested,
                     complete |-> attested = publish[p].todo]
  <2>2. publish[p].pc = "attesting" /\ UNCHANGED <<status, gaps, engage, engagement>>
    BY <1>3 DEF AttestBatch
  <2>3. publish[p].snap \in Snapshot /\ publish[p].todo \subseteq Gap
    BY <2>2, PublishFields
  <2>4. new \in PublishState
    BY <2>3 DEF PublishState
  <2>5. new.complete => Published \/ \A g \in Triggered : g \in new.left
    BY <2>2 DEF GateInv
  <2>6. Fits(new.snap)
    BY <2>2 DEF StaleInv
  <2>7. publish' = [publish EXCEPT ![p] = new] /\ new.pc = "writing"
    BY <2>1
  <2> HIDE DEF new
  <2> QED
    BY <2>2, <2>4, <2>5, <2>6, <2>7, PublishMoves
<1>4. ASSUME NEW g \in Gap, KeepClaim(p, g) PROVE TInv'
  <2> DEFINE new == [publish[p] EXCEPT !.left = publish[p].left \ {g}]
  <2>1. /\ publish[p].pc = "writing" /\ g \in publish[p].left
        /\ UNCHANGED <<status, engage, engagement, svars>>
        /\ publish' = [publish EXCEPT ![p] = new]
    BY <1>4 DEF KeepClaim, TTypeOK
  <2>2. publish[p] \in
          [pc : {"writing"}, snap : Snapshot, left : SUBSET Gap, complete : BOOLEAN]
    BY <2>1, PublishFields
  <2>3. /\ new \in [pc : {"writing"}, snap : Snapshot, left : SUBSET Gap, complete : BOOLEAN]
        /\ new.pc = "writing" /\ new.snap = publish[p].snap /\ new.complete = publish[p].complete
        /\ new.left = publish[p].left \ {g}
    BY <2>2
  <2> HIDE DEF new
  <2>4. new \in PublishState
    BY <2>3 DEF PublishState
  <2>5. \A h \in Gap : /\ gaps'[h].triggered = gaps[h].triggered
                       /\ gaps'[h].claim = IF h = g THEN Claim(publish[p].snap) ELSE gaps[h].claim
    BY <1>4 DEF KeepClaim, TTypeOK
  <2>6. gaps' \in [Gap -> [triggered : BOOLEAN, claim : {NoClaim} \cup {Claim(s) : s \in Snapshot}]]
    BY <1>4, <2>2 DEF KeepClaim, TTypeOK
  <2>7. \A q \in Publish : publish'[q] = IF q = p THEN new ELSE publish[q]
    BY <2>1 DEF TTypeOK
  <2>8. Triggered' = Triggered /\ Published' = Published /\ Changed' = Changed /\ signals' = signals
    BY <2>1, <2>5 DEF Triggered, Published, Changed, svars
  <2>9. TTypeOK'
    BY <2>1, <2>4, <2>6 DEF TTypeOK
  <2>10. \A h \in Gap : gaps[h].claim.made => gaps'[h].claim.made
    BY <2>5 DEF Claim
  <2>11. gaps'[g].claim.made /\ gaps'[g].claim.of = publish[p].snap
    BY <2>5 DEF Claim
  <2>12. Triggered \subseteq Gap
    BY DEF Triggered
  <2>13. GateInv'
    <3>1. PublishedMeansAttested'
      BY <2>8, <2>10, <2>12 DEF GateInv, PublishedMeansAttested, Published
    <3>2. ASSUME NEW q \in Publish, publish'[q].pc = "writing", publish'[q].complete
          PROVE  Published \/ \A h \in Triggered : h \in publish'[q].left \/ gaps'[h].claim.made
      BY <2>1, <2>3, <2>7, <2>10, <2>11, <2>12, <3>2 DEF GateInv
    <3>3. ASSUME NEW q \in Publish, publish'[q].pc \in {"loaded", "attesting"}
          PROVE  publish'[q] = publish[q]
      BY <2>3, <2>7, <3>3
    <3> QED
      BY <2>8, <3>1, <3>2, <3>3 DEF GateInv
  <2>14. StaleInv'
    <3>1. Fits(publish[p].snap)
      BY <2>1 DEF StaleInv
    <3>2. \A h \in Gap : gaps'[h].claim.made => Fits(gaps'[h].claim.of)
      BY <2>5, <2>11, <3>1 DEF StaleInv
    <3>3. \A q \in Publish : publish'[q].pc \in {"attesting", "writing"} => Fits(publish'[q].snap)
      BY <2>3, <2>7, <3>1 DEF StaleInv
    <3> QED
      BY <2>8, <3>2, <3>3 DEF StaleInv, Fits
  <2>15. WholeInv'
    BY <2>1, <2>8 DEF WholeInv, AnsweredEngagementIsWhole, Published, NoEngagement, FirstOfDue, Shares
  <2> QED
    BY <2>9, <2>13, <2>14, <2>15
<1>5. CASE Conclude(p)
  <2>1. PICK new \in {[pc |-> "ok"], [pc |-> "500"], [pc |-> "503"]} :
          /\ publish' = [publish EXCEPT ![p] = new]
          /\ \/ UNCHANGED status
             \/ status' = "tier2_published" /\ publish[p].complete
    BY <1>5 DEF Conclude
  <2>2. publish[p].pc = "writing" /\ publish[p].left = {} /\ UNCHANGED <<gaps, engage, engagement>>
    BY <1>5 DEF Conclude
  <2>3. \A q \in Publish : publish'[q] = IF q = p THEN new ELSE publish[q]
    BY <2>1 DEF TTypeOK
  <2>4. new.pc \in {"ok", "500", "503"} /\ new \in PublishState
    BY DEF PublishState
  <2>5. Triggered' = Triggered /\ Changed' = Changed /\ signals' = signals
    BY <2>2 DEF Triggered, Changed, svars
  <2>6. (Published => Published') /\ (Published' => Published \/ publish[p].complete)
    BY <2>1 DEF Published
  <2>7. TTypeOK'
    BY <2>1, <2>2, <2>4 DEF TTypeOK
  <2>8. GateInv'
    <3>1. Published' => \A g \in Triggered : gaps[g].claim.made
      BY <2>2, <2>6 DEF GateInv, PublishedMeansAttested, Published
    <3> QED
      BY <2>2, <2>3, <2>4, <2>5, <2>6, <3>1 DEF GateInv, PublishedMeansAttested, Published
  <2>9. StaleInv'
    BY <2>2, <2>3, <2>4, <2>5 DEF StaleInv, Fits
  <2>10. WholeInv'
    <3>1. AnsweredEngagementIsWhole'
      BY <2>2, <2>6 DEF WholeInv, AnsweredEngagementIsWhole, Published, Sum100
    <3>2. \A e \in Engage :
            /\ engage'[e] = Fresh => engagement'[e] = NoEngagement
            /\ engage'[e].pc = "routing" =>
                 Published' /\ FirstOfDue(engagement'[e].shares, Shares(engage'[e].branch))
      BY <2>2, <2>6 DEF WholeInv
    <3> QED
      BY <3>1, <3>2 DEF WholeInv, Fresh, NoEngagement, FirstOfDue, Shares
  <2> QED
    BY <2>7, <2>8, <2>9, <2>10
<1>6. CASE PublishDies(p)
  <2>1. /\ publish' = [publish EXCEPT ![p] = [pc |-> "500"]]
        /\ UNCHANGED <<status, gaps, engage, engagement>>
    BY <1>6 DEF PublishDies
  <2>2. [pc |-> "500"] \in PublishState
    BY DEF PublishState
  <2> QED
    BY <2>1, <2>2, PublishMoves
<1> QED
  BY <1>1, <1>2, <1>3, <1>4, <1>5, <1>6 DEF PublishStep

(* An engagement that changes only its own state and rows.                 *)
LEMMA EngageMoves ==
  ASSUME TInv, NEW e \in Engage, NEW new \in EngageState, NEW row \in Engagement,
         engage' = [engage EXCEPT ![e] = new],
         engagement' = [engagement EXCEPT ![e] = row],
         UNCHANGED <<svars, status, gaps, publish>>,
         row.row => Published,
         new.pc = "ok" => row.event /\ Sum100(row.shares),
         new # Fresh,
         new.pc = "routing" => Published /\ FirstOfDue(row.shares, Shares(new.branch))
  PROVE  TInv'
<1> USE DEF TInv
<1>1. TTypeOK'
  BY DEF TTypeOK
<1>2. Triggered' = Triggered /\ Published' = Published /\ Changed' = Changed /\ signals' = signals
  BY DEF Triggered, Published, Changed, svars
<1>3. GateInv'
  BY <1>2 DEF GateInv, PublishedMeansAttested, Published
<1>4. StaleInv'
  BY <1>2 DEF StaleInv, Fits
<1>5. \A d \in Engage : /\ engage'[d] = IF d = e THEN new ELSE engage[d]
                        /\ engagement'[d] = IF d = e THEN row ELSE engagement[d]
  BY DEF TTypeOK
<1>6. AnsweredEngagementIsWhole'
  BY <1>2, <1>5 DEF WholeInv, AnsweredEngagementIsWhole, Published, Sum100
<1>7. \A d \in Engage :
        /\ engage'[d] = Fresh => engagement'[d] = NoEngagement
        /\ engage'[d].pc = "routing" =>
             Published' /\ FirstOfDue(engagement'[d].shares, Shares(engage'[d].branch))
  BY <1>2, <1>5 DEF WholeInv
<1>8. WholeInv'
  BY <1>6, <1>7 DEF WholeInv, Fresh, NoEngagement, FirstOfDue, Shares
<1> QED
  BY <1>1, <1>3, <1>4, <1>8

(* What is due is one share or two, and makes 100.                         *)
LEMMA SharesDue ==
  ASSUME NEW b \in Branch
  PROVE  /\ Shares(b) \in Seq(Nat) /\ Len(Shares(b)) \in {1, 2}
         /\ Sum100(Shares(b))
<1>1. b \in {"john", "distributor", "vendor"}
  BY Tier2Assumption
<1>2. CASE b = "john"
  <2>1. Shares(b) = <<100>>
    BY <1>2 DEF Shares
  <2> QED
    BY <2>1 DEF Sum100
<1>3. CASE b = "distributor"
  <2>1. Shares(b) = <<70, 30>>
    BY <1>3 DEF Shares
  <2> QED
    BY <2>1 DEF Sum100
<1>4. CASE b = "vendor"
  <2>1. Shares(b) = <<80, 20>>
    BY <1>4 DEF Shares
  <2> QED
    BY <2>1 DEF Sum100
<1> QED
  BY <1>1, <1>2, <1>3, <1>4

(* The gate, the inserts in their order, the answer, and dying.            *)
LEMMA EngageKeeps ==
  ASSUME TInv, NEW e \in Engage, Gate(e) \/ EngageStep(e), UNCHANGED svars
  PROVE  TInv'
<1> USE DEF TInv
<1>1. engage[e] \in EngageState /\ engagement[e] \in Engagement
  BY DEF TTypeOK
<1>2. ASSUME engage[e].pc = "routing"
      PROVE  /\ engage[e] \in [pc : {"routing"}, branch : Branch,
                               to : {t.id : t \in Tenant} \cup {Null}]
             /\ Published /\ engage[e] # Fresh
             /\ FirstOfDue(engagement[e].shares, Shares(engage[e].branch))
  BY <1>1, <1>2 DEF EngageState, Fresh, WholeInv
<1>3. engagement[e].row => Published
  BY DEF WholeInv, AnsweredEngagementIsWhole, Published
<1>4. CASE Gate(e)
  <2>1. PICK new : /\ engage' = [engage EXCEPT ![e] = new]
                   /\ \/ new = [pc |-> "409"]
                      \/ new = [pc |-> "500"]
                      \/ \E b \in Branch : \E t \in Destinations(b) :
                           /\ status = "tier2_published"
                           /\ new = [pc |-> "routing", branch |-> b, to |-> t]
    BY <1>4 DEF Gate
  <2>2. engage[e] = Fresh /\ UNCHANGED <<status, gaps, publish, engagement>>
    BY <1>4 DEF Gate
  <2>3. engagement' = [engagement EXCEPT ![e] = engagement[e]]
    BY <2>2 DEF TTypeOK
  <2>4. engagement[e] = NoEngagement
    BY <2>2 DEF WholeInv
  <2>5. \A b \in Branch : Destinations(b) \subseteq {t.id : t \in Tenant} \cup {Null}
    BY DEF Destinations, RoutedTo, Distributors
  <2>6. new \in EngageState /\ new # Fresh /\ new.pc # "ok"
    BY <2>1, <2>5 DEF EngageState, Fresh
  <2>7. new.pc = "routing" =>
          Published /\ new.branch \in Branch
    BY <2>1 DEF Published
  <2>8. \A b \in Branch : FirstOfDue(<< >>, Shares(b))
    BY SharesDue DEF FirstOfDue
  <2> QED
    BY <1>1, <1>3, <2>1, <2>2, <2>3, <2>4, <2>6, <2>7, <2>8, EngageMoves DEF NoEngagement
<1>5. CASE InsertEngagement(e)
  <2> DEFINE row == [engagement[e] EXCEPT !.row = TRUE, !.tenant = engage[e].to]
  <2>1. /\ engage[e].pc = "routing" /\ UNCHANGED <<status, gaps, publish, engage>>
        /\ engagement' = [engagement EXCEPT ![e] = row]
    BY <1>5 DEF InsertEngagement, Routing, TTypeOK
  <2>2. row \in Engagement /\ row.shares = engagement[e].shares
    BY <1>1, <1>2, <2>1 DEF Engagement
  <2>3. engage' = [engage EXCEPT ![e] = engage[e]]
    BY <2>1 DEF TTypeOK
  <2> HIDE DEF row
  <2> QED
    BY <1>1, <1>2, <2>1, <2>2, <2>3, EngageMoves
<1>6. CASE InsertRouted(e)
  <2> DEFINE row == [engagement[e] EXCEPT !.event = TRUE]
  <2>1. /\ engage[e].pc = "routing" /\ UNCHANGED <<status, gaps, publish, engage>>
        /\ engagement' = [engagement EXCEPT ![e] = row]
    BY <1>6 DEF InsertRouted, Routing, TTypeOK
  <2>2. row \in Engagement /\ row.shares = engagement[e].shares
    BY <1>1 DEF Engagement
  <2>3. engage' = [engage EXCEPT ![e] = engage[e]]
    BY <2>1 DEF TTypeOK
  <2> HIDE DEF row
  <2> QED
    BY <1>1, <1>2, <2>1, <2>2, <2>3, EngageMoves
<1>7. CASE InsertShare(e)
  <2> DEFINE given == engagement[e].shares
             due == Shares(engage[e].branch)
             more == Append(given, due[Len(given) + 1])
             row == [engagement[e] EXCEPT !.shares = more]
  <2>1. /\ engage[e].pc = "routing" /\ UNCHANGED <<status, gaps, publish, engage>>
        /\ Len(given) < Len(due)
        /\ engagement' = [engagement EXCEPT ![e] = row]
    BY <1>7 DEF InsertShare, Routing, TTypeOK
  <2>2. due \in Seq(Nat) /\ given \in Seq(Nat) /\ FirstOfDue(given, due)
    BY <1>1, <1>2, <2>1, SharesDue DEF Engagement
  <2> HIDE DEF given, due
  <2>3. more \in Seq(Nat) /\ FirstOfDue(more, due)
    BY <2>1, <2>2 DEF FirstOfDue
  <2> USE DEF given, due
  <2>4. row \in Engagement /\ row.shares = more
    BY <1>1, <2>3 DEF Engagement
  <2>5. engage' = [engage EXCEPT ![e] = engage[e]]
    BY <2>1 DEF TTypeOK
  <2> HIDE DEF row, more
  <2> QED
    BY <1>1, <1>2, <2>1, <2>3, <2>4, <2>5, EngageMoves
<1>8. CASE Engaged(e)
  <2> DEFINE given == engagement[e].shares
             due == Shares(engage[e].branch)
             new == [pc |-> "ok"]
  <2>1. /\ engage[e].pc = "routing" /\ engagement[e].event
        /\ Len(given) = Len(due)
        /\ engage' = [engage EXCEPT ![e] = new]
        /\ UNCHANGED <<status, gaps, publish, engagement>>
    BY <1>8 DEF Engaged, Routing
  <2>2. due \in Seq(Nat) /\ given \in Seq(Nat) /\ FirstOfDue(given, due) /\ Sum100(due)
        /\ Len(due) \in {1, 2}
    BY <1>1, <1>2, <2>1, SharesDue DEF Engagement
  <2> HIDE DEF given, due
  <2>3. Sum100(given)
    BY <2>1, <2>2 DEF FirstOfDue, Sum100
  <2> USE DEF given
  <2>4. engagement' = [engagement EXCEPT ![e] = engagement[e]]
    BY <2>1 DEF TTypeOK
  <2>5. new \in EngageState /\ new # Fresh /\ new.pc = "ok"
    BY DEF EngageState, Fresh
  <2> HIDE DEF new
  <2> QED
    BY <1>1, <1>2, <2>1, <2>3, <2>4, <2>5, EngageMoves
<1>9. CASE EngageDies(e)
  <2> DEFINE new == [pc |-> "500"]
  <2>1. /\ engage[e].pc = "routing" /\ engage' = [engage EXCEPT ![e] = new]
        /\ UNCHANGED <<status, gaps, publish, engagement>>
    BY <1>9 DEF EngageDies, Routing
  <2>2. engagement' = [engagement EXCEPT ![e] = engagement[e]]
    BY <2>1 DEF TTypeOK
  <2>3. new \in EngageState /\ new # Fresh /\ new.pc = "500"
    BY DEF EngageState, Fresh
  <2> HIDE DEF new
  <2> QED
    BY <1>1, <1>2, <2>1, <2>2, <2>3, EngageMoves
<1> QED
  BY <1>4, <1>5, <1>6, <1>7, <1>8, <1>9 DEF EngageStep

(* The invariant holds at the start and at every step of either tier.      *)
LEMMA Tier2Invariance == Spec => [](TInv /\ SInv)
<1>1. Init => TInv
  <2> SUFFICES ASSUME Init PROVE TInv
    OBVIOUS
  <2>1. PICK T \in SUBSET Gap :
          gaps = [g \in Gap |-> [triggered |-> g \in T, claim |-> NoClaim]]
    BY DEF Init
  <2>2. TTypeOK
    BY <2>1 DEF Init, TTypeOK, PublishState, EngageState, Engagement, NoEngagement
  <2>3. GateInv
    BY DEF Init, GateInv, PublishedMeansAttested, Fresh
  <2>4. StaleInv
    BY <2>1 DEF Init, StaleInv, Fresh, NoClaim
  <2>5. WholeInv
    BY DEF Init, WholeInv, AnsweredEngagementIsWhole, Fresh, NoEngagement
  <2> QED
    BY <2>2, <2>3, <2>4, <2>5 DEF TInv
<1>2. ASSUME TInv, SInv, [Next]_vars PROVE TInv'
  <2>1. STypeOK
    BY <1>2 DEF SInv
  <2>2. CASE UNCHANGED vars
    <3>1. UNCHANGED <<signals, status, gaps, publish, engage, engagement>>
      BY <2>2 DEF vars, svars, tvars
    <3>2. TTypeOK' /\ GateInv' /\ StaleInv'
      BY <1>2, <3>1 DEF TInv, TTypeOK, GateInv, PublishedMeansAttested, Published, Triggered,
           StaleInv, Fits, Changed
    <3>3. WholeInv'
      BY <1>2, <3>1 DEF TInv, WholeInv, AnsweredEngagementIsWhole, Published, NoEngagement,
           FirstOfDue, Shares
    <3> QED
      BY <3>2, <3>3 DEF TInv
  <2> QED
    BY <1>2, <2>1, <2>2, SignalsKeep, PublishKeeps, EngageKeeps DEF Next
<1> QED
  BY <1>1, <1>2, StoreInvariance, PTL DEF Spec

(* The publish gate of publish.js: a published session has a claim for     *)
(* every triggered gap, whatever publishes overlap or die half way.        *)
THEOREM GateHolds == Spec => []PublishedMeansAttested
<1>1. TInv => PublishedMeansAttested
  BY DEF TInv, GateInv
<1> QED
  BY <1>1, Tier2Invariance, PTL

(* A claim that no longer says what the signals say is made again by the   *)
(* next republish.                                                         *)
THEOREM StaleClaimsArePicked == Spec => []StaleClaimIsReattested
<1>1. ASSUME TInv PROVE StaleClaimIsReattested
  <2> SUFFICES ASSUME NEW g \in Triggered, gaps[g].claim.made, NEW f \in Reads[g],
                      gaps[g].claim.of[f] # signals[f].value
               PROVE  g \in GapsRequiringReattestation
    BY DEF StaleClaimIsReattested
  <2>1. g \in Gap
    BY DEF Triggered
  <2>2. f \in Field
    BY <2>1, Tier2Assumption
  <2>3. f \in Changed
    BY <1>1, <2>1, <2>2 DEF TInv, StaleInv, Fits
  <2> QED
    BY <2>3 DEF GapsRequiringReattestation
<1> QED
  BY <1>1, Tier2Invariance, PTL

(* An engagement exists only in a published session, and an answered one   *)
(* has its event and shares that make 100, for any branch.                 *)
THEOREM AnsweredIsWhole == Spec => []AnsweredEngagementIsWhole
<1>1. TInv => AnsweredEngagementIsWhole
  BY DEF TInv, WholeInv
<1> QED
  BY <1>1, Tier2Invariance, PTL
=============================================================================
