------------------------------ MODULE Inbound ------------------------------
(***************************************************************************)
(* The mailbox door of services/inbound-check: a founder forwards an       *)
(* email, and the poller (mailbox-m365.js) finds the sender at the bottom  *)
(* of the forward (parse-eml.js), looks it up (index.js), compares it with *)
(* the senders it has seen (pattern-memory.js) and replies, marks the mail *)
(* read and files it. Ticks of the timer share the flag busy. Every call   *)
(* of Graph and of the disk is a step that may fail; the process may stop  *)
(* between any two. Graph itself is external: what it holds is in mailbox  *)
(* and inbox. Wording is reduced to what a sentence claims.                *)
(***************************************************************************)
EXTENDS SequencesExt, FiniteSetsExt, Integers

CONSTANTS
  Ticks,      \* ticks of the timer that may overlap
  Mail,       \* Mail[m]: the email: [to, forwarder] as Graph lists it, and
              \* [outer, hops, replyTo, returnPath, dkim] as its MIME text reads
  Registrant, \* who has a proof360 record, or may come to have one
  Address,    \* Address[a]: [domain, signature, shaped, misnamed] of an address
  Platform,   \* domains that sign for others (google.com, amazonses.com)
  Answers,    \* what one round of lookups may bring back
  PageSize,   \* $top of listUnread
  MaxDepth,   \* maxDepth of unwrapForward
  MaxFaults,  \* bound: calls that fail and restarts, in all
  Absent

VARIABLES
  inbox,      \* the mails of the inbox folder, newest first
  mailbox,    \* mailbox[m]: [read, folder, reply]
  registry,   \* founders with a founder.json
  senders,    \* the rows of senders.jsonl
  busy,       \* startMailboxPoller's flag
  tick,       \* tick[t]: where a tick is in pollOnce
  faults      \* how many calls have failed

vars == <<inbox, mailbox, registry, senders, busy, tick, faults>>

Mails == DOMAIN Mail
NoReply == [kind |-> "none"]
Idle == [pc |-> "idle", queue |-> << >>, prior |-> {}, result |-> NoReply]
At(t, pc) == tick[t].pc = pc

Init ==
  /\ inbox = << >>
  /\ mailbox = [m \in Mails |-> [read |-> FALSE, folder |-> "Inbox", reply |-> NoReply]]
  /\ registry \in {{}, Registrant}
  /\ senders = << >>
  /\ busy = FALSE
  /\ tick = [t \in Ticks |-> Idle]
  /\ faults = 0
----------------------------------------------------------------------------
(* What the check reads from the email.                                    *)

(* Where the chain of forwards ends, looking down MaxDepth hops.           *)
UnwrapForward(e) == e.hops[IF Len(e.hops) < MaxDepth THEN Len(e.hops) ELSE MaxDepth]

Forwarded(e) == e.hops # << >> /\ UnwrapForward(e) # e.outer

ParseEml(e) ==
  LET own(x, none) == IF Forwarded(e) THEN none ELSE x
  IN [from |-> IF Forwarded(e) THEN UnwrapForward(e) ELSE e.outer,
      headersSeen |-> ~Forwarded(e),
      replyTo |-> own(e.replyTo, Absent),
      returnPath |-> own(e.returnPath, Absent),
      dkim |-> own(e.dkim, {})]

Mismatches(p) ==
  LET a == Address[p.from]
  IN {k \in {"reply", "envelope", "signature", "name"} :
        \/ k = "reply" /\ p.replyTo \notin {Absent, a.domain}
        \/ k = "envelope" /\ p.returnPath \notin {Absent, a.domain}
        \/ k = "signature" /\ a.domain \notin p.dkim /\ p.dkim \ Platform # {}
        \/ k = "name" /\ a.misnamed}

SenderLine(p) ==
  [seen |-> p.headersSeen, mismatches |-> Mismatches(p),
   agrees |-> p.headersSeen /\ Mismatches(p) = {}]

MailRecord == {"mx", "spf", "dmarc"}
SaidOfNone == [k \in MailRecord |-> "unsaid"]
NoMailAtAll == [SaidOfNone EXCEPT !.mx = "missing"]

(* What the sentence on the mail set-up says of each DNS lookup: nothing   *)
(* when none answered; that no mail is received at all; else of each that  *)
(* it is in place or missing, and a lookup that failed counts as missing.  *)
MailText(h) ==
  IF \A k \in MailRecord : h[k] = "failed" THEN SaidOfNone
  ELSE IF h.mx = "none" /\ h.spf # "present" /\ h.dmarc # "present" THEN NoMailAtAll
  ELSE [k \in MailRecord |-> IF h[k] = "present" THEN "in place" ELSE "missing"]

FootprintLine(h) ==
  [mail |-> MailText(h),
   registered |-> h.registration,
   web |-> CASE h.web = {} -> "couldn't look"
             [] TRUE \in h.web -> "found"
             [] OTHER -> "no trace"]

(* Claims are what extract returned: Absent when the model failed, else    *)
(* what the search for each of them brought.                               *)
ClaimsLine(h) ==
  IF h.claims = Absent THEN [pulled |-> FALSE]
  ELSE [pulled |-> TRUE,
        tally |-> [k \in {"found", "not_found", "conflicting", "unchecked"} |->
                     Quantify(DOMAIN h.claims, LAMBDA c : h.claims[c] = k)]]
----------------------------------------------------------------------------
(* Pattern memory.                                                         *)

(* Mutant: the sender counts among the earlier senders.                    *)
PriorWithSelf(from) ==
  {senders[i].address : i \in {j \in DOMAIN senders :
     senders[j].signature = Address[from].signature}}

PriorSenders(from) ==
  {senders[i].address : i \in {j \in DOMAIN senders :
     /\ senders[j].signature = Address[from].signature
     /\ senders[j].address # from}}

Row(from) == [address |-> from, signature |-> Address[from].signature]

(* The result of one check; heard is kept for the properties.              *)
Result(m, prior, heard) ==
  LET p == ParseEml(Mail[m])
  IN [kind |-> "check", from |-> p.from,
      lines |-> <<SenderLine(p), FootprintLine(heard), ClaimsLine(heard)>>,
      prior |-> prior, shaped |-> Address[p.from].shaped, heard |-> heard]

Decline == [kind |-> "decline"]
----------------------------------------------------------------------------
(* One tick: pollOnce over the mails it listed.                            *)

(* On to the next step of the tick, or to the mail after this one.         *)
Goto(t, pc) == tick' = [tick EXCEPT ![t].pc = pc]
Over(t) ==
  tick' = [tick EXCEPT ![t] = [Idle EXCEPT !.pc = "next", !.queue = Tail(tick[t].queue)]]
Answer(t, pc, r) == tick' = [tick EXCEPT ![t] = [@ EXCEPT !.pc = pc, !.result = r]]
Msg(t) == tick[t].queue[1]

(* listUnread: what the inbox folder holds unread, a page of it.           *)
TakeUnread(page, m) ==
  IF ~mailbox[m].read /\ Len(page) < PageSize THEN Append(page, m) ELSE page

Unread == FoldLeft(TakeUnread, << >>, inbox)

(* Mutant: ticks do not look at busy.                                      *)
StartAnyway(t) ==
  /\ At(t, "idle")
  /\ busy' = TRUE
  /\ Goto(t, "list")
  /\ UNCHANGED <<inbox, mailbox, registry, senders, faults>>

Start(t) ==
  /\ At(t, "idle")
  /\ ~busy
  /\ busy' = TRUE
  /\ Goto(t, "list")
  /\ UNCHANGED <<inbox, mailbox, registry, senders, faults>>

List(t) ==
  /\ At(t, "list")
  /\ tick' = [tick EXCEPT ![t] = [@ EXCEPT !.pc = "next", !.queue = Unread]]
  /\ UNCHANGED <<inbox, mailbox, registry, senders, busy, faults>>

End(t) ==
  /\ At(t, "next")
  /\ tick[t].queue = << >>
  /\ tick' = [tick EXCEPT ![t] = Idle]
  /\ busy' = FALSE
  /\ UNCHANGED <<inbox, mailbox, registry, senders, faults>>

Skip(t) ==
  /\ At(t, "next")
  /\ tick[t].queue # << >>
  /\ ~Mail[Msg(t)].to
  /\ Over(t)
  /\ UNCHANGED <<inbox, mailbox, registry, senders, busy, faults>>

(* The registry answers no when it cannot read the founders' directory.    *)
Admit(t) ==
  /\ At(t, "next")
  /\ tick[t].queue # << >>
  /\ Mail[Msg(t)].to
  /\ \/ /\ Mail[Msg(t)].forwarder \in registry
        /\ Goto(t, "mime")
        /\ UNCHANGED faults
     \/ /\ Mail[Msg(t)].forwarder \notin registry
        /\ Answer(t, "reply", Decline)
        /\ UNCHANGED faults
     \/ /\ Mail[Msg(t)].forwarder \in registry
        /\ faults < MaxFaults
        /\ faults' = faults + 1
        /\ Answer(t, "reply", Decline)
  /\ UNCHANGED <<inbox, mailbox, registry, senders, busy>>

(* The earlier senders are read before anything is looked up.              *)
ReadMime(t) ==
  /\ At(t, "mime")
  /\ IF ParseEml(Mail[Msg(t)]).from = Absent
     THEN Over(t)
     ELSE tick' = [tick EXCEPT ![t] =
            [@ EXCEPT !.pc = "look", !.prior = PriorSenders(ParseEml(Mail[Msg(t)]).from)]]
  /\ UNCHANGED <<inbox, mailbox, registry, senders, busy, faults>>

Look(t) ==
  /\ At(t, "look")
  /\ \E heard \in Answers :
       Answer(t, "record", Result(Msg(t), tick[t].prior, heard))
  /\ UNCHANGED <<inbox, mailbox, registry, senders, busy, faults>>

RecordSender(t) ==
  /\ At(t, "record")
  /\ senders' = Append(senders, Row(tick[t].result.from))
  /\ Goto(t, "reply")
  /\ UNCHANGED <<inbox, mailbox, registry, busy, faults>>

Reply(t) ==
  /\ At(t, "reply")
  /\ mailbox' = [mailbox EXCEPT ![Msg(t)].reply = tick[t].result]
  /\ Goto(t, "mark")
  /\ UNCHANGED <<inbox, registry, senders, busy, faults>>

MarkRead(t) ==
  /\ At(t, "mark")
  /\ mailbox' = [mailbox EXCEPT ![Msg(t)].read = TRUE]
  /\ Goto(t, "file")
  /\ UNCHANGED <<inbox, registry, senders, busy, faults>>

FileAs(t) ==
  /\ At(t, "file")
  /\ mailbox' = [mailbox EXCEPT ![Msg(t)].folder =
       IF tick[t].result.kind = "check" THEN "Checked" ELSE "Unregistered"]
  /\ inbox' = RemoveFirst(inbox, Msg(t))
  /\ Over(t)
  /\ UNCHANGED <<registry, senders, busy, faults>>

(* Mutant: a call that throws ends the tick with the flag still set.       *)
FailPoll(t) ==
  /\ tick[t].pc \in {"list", "mime", "look", "record", "reply", "mark", "file"}
  /\ faults < MaxFaults
  /\ faults' = faults + 1
  /\ tick' = [tick EXCEPT ![t] = Idle]
  /\ UNCHANGED <<inbox, mailbox, registry, senders, busy>>

(* A call throws: the mail stays unread and the poll goes on; the list     *)
(* itself failing ends the poll, and finally frees the flag.               *)
Fail(t) ==
  /\ tick[t].pc \in {"list", "mime", "look", "record", "reply", "mark", "file"}
  /\ faults < MaxFaults
  /\ faults' = faults + 1
  /\ IF At(t, "list")
     THEN tick' = [tick EXCEPT ![t] = Idle] /\ busy' = FALSE
     ELSE Over(t) /\ UNCHANGED busy
  /\ UNCHANGED <<inbox, mailbox, registry, senders>>

(* Graph did what it was asked, and its answer was lost.                   *)
AnswerLost(t) ==
  /\ tick[t].pc \in {"reply", "mark"}
  /\ faults < MaxFaults
  /\ faults' = faults + 1
  /\ mailbox' = IF At(t, "reply")
                THEN [mailbox EXCEPT ![Msg(t)].reply = tick[t].result]
                ELSE [mailbox EXCEPT ![Msg(t)].read = TRUE]
  /\ Over(t)
  /\ UNCHANGED <<inbox, registry, senders, busy>>

Step(t) ==
  \/ Start(t) \/ List(t) \/ End(t) \/ Skip(t) \/ Admit(t) \/ ReadMime(t) \/ Look(t)
  \/ RecordSender(t) \/ Reply(t) \/ MarkRead(t) \/ FileAs(t)

(* The process stops; the poller starts again, knowing nothing.            *)
Restart ==
  /\ faults < MaxFaults
  /\ faults' = faults + 1
  /\ tick' = [t \in Ticks |-> Idle]
  /\ busy' = FALSE
  /\ UNCHANGED <<inbox, mailbox, registry, senders>>

MailArrives(m) ==
  /\ mailbox[m].folder = "Inbox"
  /\ m \notin Range(inbox)
  /\ inbox' = <<m>> \o inbox
  /\ UNCHANGED <<mailbox, registry, senders, busy, tick, faults>>

Register(f) ==
  /\ f \notin registry
  /\ registry' = registry \union {f}
  /\ UNCHANGED <<inbox, mailbox, senders, busy, tick, faults>>

Next ==
  \/ \E t \in Ticks : Step(t) \/ Fail(t) \/ AnswerLost(t)
  \/ Restart
  \/ \E m \in Mails : MailArrives(m)
  \/ \E f \in Registrant : Register(f)

Spec == Init /\ [][Next]_vars

(* The timer goes on ticking and a call that does not fail returns.        *)
FairSpec == Spec /\ WF_vars(\E t \in Ticks : Step(t))
----------------------------------------------------------------------------
(* Every sender on record was shown by a mail of a registered founder:     *)
(* what a stranger sends is stored nowhere (declineBody's "nothing looked  *)
(* up or stored").                                                         *)
StrangersLeaveNoTrace ==
  \A i \in DOMAIN senders : \E m \in Mails :
    /\ Mail[m].forwarder \in registry
    /\ ParseEml(Mail[m]).from = senders[i].address

(* Nor is it read or looked up.                                            *)
StrangersAreNotLookedUp ==
  \A t \in Ticks :
    tick[t].pc \in {"mime", "look", "record"} => Mail[Msg(t)].forwarder \in registry

(* Earlier senders are others, of the same pattern, and on record: a mail  *)
(* checked again after its reply failed is not its own earlier sender.     *)
PriorsAreOthers ==
  \A m \in Mails : mailbox[m].reply.kind = "check" =>
    LET r == mailbox[m].reply
    IN \A a \in r.prior :
         /\ a # r.from
         /\ Address[a].signature = Address[r.from].signature
         /\ \E i \in DOMAIN senders : senders[i].address = a

(* What a forwarded copy cannot show is held against nobody; a mail set-up *)
(* is said to be in place where the lookup found it; and "isn't set up to  *)
(* receive mail at all" takes an MX lookup that said so. The sentence on a *)
(* partial set-up is not held to this: it says "cannot receive mail", "no  *)
(* sender check" and "no spoofing policy" of lookups that failed too       *)
(* (index.js:104), whose rows below it say "couldn't check".               *)
NothingClaimedUnseen ==
  \A m \in Mails : mailbox[m].reply.kind = "check" =>
    LET r == mailbox[m].reply
    IN /\ Forwarded(Mail[m]) => /\ r.lines[1].mismatches \subseteq {"name"}
                                /\ ~r.lines[1].agrees
       /\ \A k \in MailRecord :
            r.lines[2].mail[k] = "in place" => r.heard[k] = "present"
       /\ r.lines[2].mail = NoMailAtAll => r.heard.mx = "none"

(* What the door says and keeps is honest, however often a call fails and  *)
(* a mail is taken up again: the four parts above (index.js, the poller    *)
(* and pattern-memory.js together).                                        *)
DoorIsHonest ==
  /\ StrangersLeaveNoTrace /\ StrangersAreNotLookedUp
  /\ PriorsAreOthers /\ NothingClaimedUnseen

(* Ticks that overlap answer no mail that is already marked read: only a   *)
(* mail whose marking failed is answered again (startMailboxPoller).       *)
ReadIsAnswered ==
  [][\A m \in Mails : mailbox'[m].reply # mailbox[m].reply => ~mailbox[m].read]_vars

(* Mails that no poll marks read: not for the door, or with no sender.     *)
StaysUnread(m) == ~Mail[m].to \/ ParseEml(Mail[m]).from = Absent

(* Every mail to the door that has a sender is answered and marked read,   *)
(* past failing calls, restarts and mails that stay unread, as long as     *)
(* these leave room on a page (pollOnce). A page is the 25 newest unread   *)
(* mails: 25 that stay unread would keep every older one from the door.    *)
DoorKeepsUp ==
  \A m \in Mails :
    /\ Cardinality({n \in Mails : StaysUnread(n)}) < PageSize
    /\ m \in Range(inbox) /\ ~StaysUnread(m)
      ~> mailbox[m].read
=============================================================================
