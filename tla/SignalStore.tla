---------------------------- MODULE SignalStore ----------------------------
(***************************************************************************)
(* The signals of one session in Postgres: services/signal-store.js under  *)
(* the override and resolve-conflict handlers, and the extractor's own     *)
(* insert of what it inferred (handlers/session-start.js), which nobody    *)
(* waits for.                                                              *)
(*                                                                         *)
(* A call is one request. Its transaction takes its timestamp at BEGIN,    *)
(* finds its row with SELECT ... FOR UPDATE, and from there to COMMIT no   *)
(* other transaction sees or changes that row: one step. A row that is not *)
(* there cannot be locked, so finding none and inserting are two steps.    *)
(***************************************************************************)
EXTENDS Naturals, Sequences, FiniteSets

CONSTANTS
  Field,      \* the signal fields
  Value,      \* what a request may say: JSON values, texts among them
  Text,       \* Text[v]: what the TEXT columns keep of v, and give back
  Human,      \* actors that are not 'system': founder, partner:<t>, mcp:<a>
  Extracted,  \* the fields the extractor read from the site
  Call,       \* the override and resolve-conflict requests
  Asks,       \* Asks[c]: what request c may say
  Null        \* SQL NULL

ASSUME SignalAssumption ==
  /\ Extracted \subseteq Field
  /\ "system" \notin Human /\ Null \notin Human \cup Value \cup {"system"}
  /\ Text \in [Value -> Value]
  /\ \A v \in Value : Text[Text[v]] = Text[v]

Actor == Human \cup {"system"}

Ask == [op : {"override", "resolve"}, field : Field, value : Value, actor : Actor]

ASSUME AsksAssumption == Asks \in [Call -> SUBSET Ask]

VARIABLES
  signals,    \* signals[f]: the row (session_id, f)
  events,     \* signal_events in the order they were committed
  clock,      \* Postgres now(): the next transaction's timestamp
  call,       \* call[c]: a request and how far it is
  toPersist   \* fields persistExtractionResults has still to insert

svars == <<signals, events, clock, call, toPersist>>

Row == [status : {"absent", "inferred", "overridden", "conflicted"},
        value : Value \cup {Null}, actor : Actor \cup {Null}]

NoRow == [status |-> "absent", value |-> Null, actor |-> Null]

Event == [field : Field, type : {"overridden", "rescanned", "conflict_resolved"},
          actor : Actor, prior : Value \cup {Null}, new : Value, ts : Nat,
          from : SUBSET (Actor \X Value)]

Request == [pc : {"begun", "insert"}, ask : Ask, ts : Nat]

Idle == [pc |-> "idle"]
Reply == [pc : {"ok", "conflicted", "409", "500"}]

Init0 == [f \in Field |-> NoRow]

SInit ==
  /\ signals = Init0
  /\ events = << >>
  /\ clock = 0
  /\ call = [c \in Call |-> Idle]
  /\ toPersist = Extracted

(* A system row is one no human has spoken for; NULL is no actor at all.   *)
HeldByHuman(row) == row.actor \in Human

(* The driver sends what a request says as text.                           *)
SaidText(c) == Text[call[c].ask.value]

Answer(c, code) == call' = [call EXCEPT ![c] = [pc |-> code]]

Write(c, status) ==
  signals' = [signals EXCEPT ![call[c].ask.field] =
    [status |-> status, value |-> SaidText(c), actor |-> call[c].ask.actor]]

Log(c, type, prior, from) ==
  events' = Append(events,
    [field |-> call[c].ask.field, type |-> type, actor |-> call[c].ask.actor,
     prior |-> prior, new |-> SaidText(c), ts |-> call[c].ts, from |-> from])

(* A valid request for a known session reaches BEGIN. The body's actor is  *)
(* trusted while no auth middleware is set, so "system" may call too.      *)
Begin(c) ==
  /\ call[c] = Idle
  /\ \E ask \in Asks[c] :
       call' = [call EXCEPT ![c] = [pc |-> "begun", ask |-> ask, ts |-> clock]]
  /\ clock' = clock + 1
  /\ UNCHANGED <<signals, events, toPersist>>

Begun(c, op) == call[c].pc = "begun" /\ call[c].ask.op = op

FindNoRow(c) ==
  /\ Begun(c, "override")
  /\ signals[call[c].ask.field].status = "absent"
  /\ call' = [call EXCEPT ![c].pc = "insert"]
  /\ UNCHANGED <<signals, events, clock, toPersist>>

(* Mutant: an upsert, which writes over a row that came meanwhile.         *)
InsertRowUpserting(c) ==
  /\ call[c].pc = "insert"
  /\ Write(c, "overridden")
  /\ Log(c, "overridden", SaidText(c), {})
  /\ Answer(c, "ok")
  /\ UNCHANGED <<clock, toPersist>>

(* INSERT against UNIQUE (session_id, field): if the row came meanwhile,   *)
(* the insert throws, the transaction rolls back and the caller gets 500.  *)
InsertRow(c) ==
  /\ call[c].pc = "insert"
  /\ IF signals[call[c].ask.field].status = "absent"
     THEN /\ Write(c, "overridden")
          /\ Log(c, "overridden", SaidText(c), {})
          /\ Answer(c, "ok")
     ELSE Answer(c, "500") /\ UNCHANGED <<signals, events>>
  /\ UNCHANGED <<clock, toPersist>>

(* The system does not beat a human: the event alone is recorded.          *)
Rescan(c) ==
  LET row == signals[call[c].ask.field] IN
  /\ Begun(c, "override")
  /\ call[c].ask.actor = "system" /\ HeldByHuman(row)
  /\ Log(c, "rescanned", row.value, {})
  /\ Answer(c, "ok")
  /\ UNCHANGED <<signals, clock, toPersist>>

(* Another human, another value: the challenger's value, and a conflict.   *)
(* The text of the row is compared with the JSON of the request (!==), so  *)
(* true challenges a row that says "true" already.                         *)
Challenges(c, row) ==
  /\ call[c].ask.actor \in Human /\ HeldByHuman(row)
  /\ row.actor # call[c].ask.actor /\ row.value # call[c].ask.value

OverrideRow(c) ==
  LET row == signals[call[c].ask.field]
      conflict == Challenges(c, row)
  IN /\ Begun(c, "override")
     /\ row.status # "absent"
     /\ ~(call[c].ask.actor = "system" /\ HeldByHuman(row))
     /\ Write(c, IF conflict THEN "conflicted" ELSE "overridden")
     /\ Log(c, "overridden", row.value, {})
     /\ Answer(c, IF conflict THEN "conflicted" ELSE "ok")
     /\ UNCHANGED <<clock, toPersist>>

(* ORDER BY ts DESC LIMIT 2: the latest by the time their transactions     *)
(* began, which need not be the order they committed in.                   *)
Competing(f) ==
  LET mine == {i \in DOMAIN events : events[i].field = f}
      later(i) == {j \in mine : events[j].ts > events[i].ts}
  IN {i \in mine : Cardinality(later(i)) < 2}

(* resolvedFrom[row.actor] = row.new_value, newest first: when both events *)
(* are one actor's, the older value is the one that stays.                 *)
ResolvedFrom(f) ==
  {<<events[i].actor, events[i].new>> : i \in
     {i \in Competing(f) : \A j \in Competing(f) :
        events[j].actor = events[i].actor => events[i].ts <= events[j].ts}}

Resolve(c) ==
  LET row == signals[call[c].ask.field] IN
  /\ Begun(c, "resolve")
  /\ row.status = "conflicted"
  /\ Write(c, "overridden")
  /\ Log(c, "conflict_resolved", row.value, ResolvedFrom(call[c].ask.field))
  /\ Answer(c, "ok")
  /\ UNCHANGED <<clock, toPersist>>

(* 'Signal not found' is rethrown, NOT_CONFLICTED is answered 409.         *)
RefuseResolve(c) ==
  LET row == signals[call[c].ask.field] IN
  /\ Begun(c, "resolve")
  /\ row.status # "conflicted"
  /\ Answer(c, IF row.status = "absent" THEN "500" ELSE "409")
  /\ UNCHANGED <<signals, events, clock, toPersist>>

(* Mutant: ON CONFLICT DO UPDATE, as if the extractor came first.          *)
PersistInferredOverwriting(f) ==
  /\ f \in toPersist
  /\ toPersist' = toPersist \ {f}
  /\ signals' = [signals EXCEPT ![f] = [NoRow EXCEPT !.status = "inferred"]]
  /\ UNCHANGED <<events, clock, call>>

(* INSERT ... ON CONFLICT DO NOTHING, one field after another: it fills    *)
(* inferred_value and leaves current_value and current_actor NULL.         *)
PersistInferred(f) ==
  /\ f \in toPersist
  /\ toPersist' = toPersist \ {f}
  /\ signals' = IF signals[f].status = "absent"
                THEN [signals EXCEPT ![f].status = "inferred"] ELSE signals
  /\ UNCHANGED <<events, clock, call>>

(* One insert throws: the loop ends, and the rest is never inserted.       *)
PersistFails ==
  /\ toPersist # {} /\ toPersist' = {}
  /\ UNCHANGED <<signals, events, clock, call>>

(* The database drops the connection, or the process dies: what has not    *)
(* committed is rolled back and its caller gets an error.                  *)
Abort(c) ==
  /\ call[c].pc \in {"begun", "insert"}
  /\ Answer(c, "500")
  /\ UNCHANGED <<signals, events, clock, toPersist>>

Transact(c) ==
  \/ FindNoRow(c) \/ InsertRow(c) \/ Rescan(c) \/ OverrideRow(c)
  \/ Resolve(c) \/ RefuseResolve(c)

SNext ==
  \/ \E c \in Call : Begin(c) \/ Transact(c) \/ Abort(c)
  \/ \E f \in Field : PersistInferred(f)
  \/ PersistFails

----------------------------------------------------------------------------
(* Every row, event and request is one the code writes.                    *)
STypeOK ==
  /\ signals \in [Field -> Row]
  /\ events \in Seq(Event)
  /\ clock \in Nat
  /\ call \in [Call -> Request \cup Reply \cup {Idle}]
  /\ toPersist \subseteq Field

(* The events that decided field f, and the last of them.                  *)
Decisions(f) ==
  {i \in DOMAIN events : events[i].field = f /\ events[i].type # "rescanned"}

Latest(f, i) == i \in Decisions(f) /\ \A j \in Decisions(f) : j <= i

Successive(f, i, j) ==
  /\ i \in Decisions(f) /\ j \in Decisions(f) /\ i < j
  /\ \A k \in Decisions(f) : k <= i \/ k >= j

(* The audit trail replays: the row is what the last event that decided it *)
(* says, by that actor, and each decision's prior value is the value the   *)
(* one before it left, so no committed change was lost or written over     *)
(* unseen (signal-store.js, "append-only signal_events").                  *)
AuditReplays ==
  \A f \in Field :
    /\ Decisions(f) = {} => signals[f].value = Null /\ signals[f].actor = Null
    /\ \A i \in Decisions(f) : Latest(f, i) =>
         signals[f].value = events[i].new /\ signals[f].actor = events[i].actor
    /\ \A i, j \in Decisions(f) : Successive(f, i, j) =>
         events[j].prior = events[i].new

(* A value that another JSON value is kept as, too. *)
Ambiguous(text) == \E v \in Value : v # text /\ Text[v] = text

(* A conflict is always between two humans, and they disagreed unless what *)
(* they said reads the same only as text: while the row is conflicted its  *)
(* last decision overrode one of another human, of another value or of an  *)
(* ambiguous one.                                                          *)
ConflictIsBetweenHumans ==
  \A f \in Field : signals[f].status = "conflicted" =>
    \E i, j \in Decisions(f) :
      /\ Successive(f, i, j) /\ Latest(f, j)
      /\ {events[i].actor, events[j].actor} \subseteq Human
      /\ events[i].actor # events[j].actor
      /\ events[i].new # events[j].new \/ Ambiguous(events[j].new)

(* System never beats human: once a human holds a field, only a human's    *)
(* override changes its row, whatever rescans and the extractor's late     *)
(* inserts do meanwhile; the one exception is the explicit resolution of a *)
(* conflict, which takes any actor its body names.                         *)
SystemNeverBeatsHuman ==
  [][\A f \in Field : HeldByHuman(signals[f]) /\ signals'[f] # signals[f] =>
       \/ HeldByHuman(signals'[f])
       \/ /\ signals[f].status = "conflicted"
          /\ events'[Len(events')].type = "conflict_resolved"]_svars
=============================================================================
