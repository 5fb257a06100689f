# proof360 in TLA+

A specification of proof360: its API (`api/src`), the chat page of its
frontend, its command line and the companion page that goes with it. Paths
below are relative to the repository unless they name a `.tla` or `.cfg`.

## 1. Inventory

One Node process (PM2, fork mode, one instance, killed five seconds after
SIGTERM) serves every request. There are no threads, so a handler runs alone
until it awaits; the concurrency is between requests at their awaits, between
requests and timers, and between two lives of the process that share files. The
chat page is a second process: its closures, timers and event streams meet the
server's only through requests. The command line is a third.

| Component | State | Operations | What makes it correct |
|---|---|---|---|
| CER projection and handlers (`cer-projection.js`, `handlers/cer.js`, `partner-cers.js`) | none of its own: records in the profile's log | create, withdraw, set status, ask / grant / decline / withdraw an introduction, partner views | the contact is disclosed only after both ends consented; withdrawal and Closed are final; a late answer changes nothing |
| Founder memory (`memory-store-file.js`) | first-touch files, numbered transactions, lock directories | first touch, claim a session, append, replay | one winner of a first touch; transactions replay in order; a dead holder's lock heals |
| Session store (`session-store.js`, `server.js`) | `sessions` Map, dirty set, timers, one file per session | create, hydrate, update, persist, sweep, reap, flush at SIGTERM | the Map is a cache of the file; what ended is not lost; no dead pipeline stays *processing* |
| Cold-read pipeline, analyze, log stream (`session-start.js`, `signal-extractor.js`, `analyze.js`, `session-log.js`) | session fields, log lines, workers | preflight, scrape, research, probe, corpus, identity, reading; stream | the trace is honest and whole; the read ends |
| Reconnaissance and gap engines (`recon-*.js`, `context-normalizer.js`, `gap-mapper.js`, `recompute.js`) | session record, Postgres rows | probe, store, override, recompute | a silent probe convicts nobody; the two engines agree |
| Catalogues (`config/*.js`, evaluators, vendor selection) | none | trigger, score, select | what is recommended follows from what was observed |
| Chat, confirm ceremony, claims, shortlist (`session-chat.js`, `confirm-ceremony.js`, `claims-projection.js`, `record.js`, `shortlist.js`) | session fields | one turn across a corpus lookup and a model stream; panel requests | a *yes* testifies only to what was asked; what is settled stands; a proposal is kept once |
| Signal store, override, conflicts (`signal-store.js`, `override.js`, `resolve-conflict.js`) | Postgres rows and events | override, rescan, late insert, resolve | system never beats human; the audit trail replays |
| Publish, VERITAS, engagement (`publish.js`, `engage.js`, their services) | Postgres rows | load, attest, write claims, publish; route an engagement | no publication on a part; stale claims are attested again; an answered engagement is whole |
| Session attach, profile, passport (`session-attach.js`, `memory-derive.js`, `profile-projections.js`, `vehicle-projection.js`) | a founder's log | attach a read, state facts, project | one owner; the founder's word stands; viewers never disagree |
| Inbound check (`services/inbound-check/`) | a mailbox, a disk memory of senders, `busy` | poll, parse, look up, reply, mark, file | replies claim only what was looked up; everybody is answered |
| Admin preread (`admin-preread.js`, its page) | batches and sessions in memory | start, read, poll, restart | the cap drops the oldest; every read comes to a final status |
| Register advisory (`register-advisory.js`) | none | search two registers | free first; the count is of all that match |
| Chat page (`Chat.jsx` and helpers) | one page's closures and React state | submit, poll, stream, talk, confirm, answer | the read ends; nothing of an earlier turn appears under a later one |
| Command line, companion page (`cli.mjs`, `graph-server.mjs`, `graph.js`) | one run, a saved session, an SSE buffer | fresh run, edit, rerender, stop, reconnect | *not sure* is no evidence; Enter keeps the dossier; a page shows the run |
| John relay, rate limit, Turnstile, other pages, relational memory | counters, tables, views | | see *Not modelled* |

What is hard to test here, each at its line, is the list `hazards` in
`PROJECT.json`. In short: handlers that read, gate, and append in separate
steps; a lock that is checked and removed by path; an object kept across an
await while a timer evicts it; writes that overlap and share a temporary name;
rows written one by one without a transaction; scrapes, answers and inserts that
land after their moment; a question chosen before the stream that voices it;
and everything that a failure, a crash and a restart cut short.

## 2. Modules

    CerRecords            records, fold step and gates; no state
      Cer                 the handlers, each CER's fold carried forward
      CerLog              the append-only log folded at read time; implements Cer
    CerPromise            what the endpoints promise, atomically
    MemoryStore           locks, first-touch files, transaction files
    SessionStore          one session: cache, file, writes, process life
    GapRules              the gap table, score, peers, framework impact
      VendorRules         the catalogue and what is chosen from it
      Probes              the probes and the flattened context
        Reading           one site through both engines (with VendorRules)
        CliDossier        what the command line makes of it (with ProgramRules)
          Cli             the runs, the companion page
    ProgramRules          AWS, Microsoft and register programs, two evaluators
      Record              claims, ceremony, panel, shortlist
    Upstream              what an outside call comes to
      ColdRead            the pipeline and its trace
        ChatPage          the page around it
    SignalStore           rows and events of the signals
      Tier2               publish and engagement over them
    Profile               an account as a fold
      Account             two pages, two founders, attach and state
    Passport, Preread, Advisory, Inbound      one component each

    MC*                   instances for TLC, one per run
    FoldTheorems          what a fold computes, for any operator
    CerProofs, MemoryStoreProofs, SessionStoreProofs, Tier2Proofs,
    ChatPageProofs, RecordProofs, AccountProofs      theorems

### CerRecords, Cer, CerLog, CerPromise

A handler replays the log without a lock, evaluates its gate, and appends one
transaction under `profile.lock`. `Cer` gives each handler two steps: a `Begin…`
action that gates and puts the transaction in the request's slot (`pending`),
and `AppendTransaction`, which commits it. `Abort` is a lock timeout, a failed write
or the death of the process in between. A refusal changes nothing and has no action.
`ApplyEvent` is what one more record does to `projectOne`; `CerLog` keeps no
state per CER and recomputes the projection from the log by the code's own
selections and fold (of every CER at once, each record stepping its own), and
`ImplementsCer` says the two agree. The two records `created` stands for are always
appended together, so `Cer` has one event for them and `CerLog` has both.
`shortlist` is the session buffer; `BeginAttach` appends all of it every time,
because `sessionAttachHandler` does. `CerPromise` is the atomic specification,
written without the gates; `Promise` in `Cer` maps the handlers' state to it, and
`PromiseUnlessOvertaken` says that a step of theirs is a step of the promise unless
it commits a record whose gate was overtaken (`Overtaken` lists the four kinds). Payload (items, evidence, notes,
timestamps) is left out, no gate reads it.

### MemoryStore

Each awaited file operation of `withLock` and of the locked sections is a step:
`Mkdir`, `WriteOwner`, `LookStale`, `RemoveStale`, `LockedRead` (the second look
inside the lock, or the next number), `LockedWrite` (temporary file and rename),
`Release`. `Age` turns a lock stale, at any time if its holder is gone, and under
a live holder only where `MayStall` allows a disk that stalls for thirty seconds.
`overtaken` records that a lock was removed while a live call believed it held
it. `Crash` ends every call and leaves locks and files.

### SessionStore

One session, with objects and inodes named, since the hazards are about which
object the Map holds and which file a path names. `Flush` takes the dirty set as
the timer does; a write is `OpenTmp` (serialise and truncate), `Fill`, `Rename`,
may overlap another on the shared temporary path, and may fail. `Sweep` is
`checkStaleSessions`. A chat turn is `BeginTurn` (up to the corpus await),
`Receipt`, `EndTurn` (reply on the held object, `persistSession` on the id).
`Terminate`, `Settle`, `Close`, `Exit` are SIGTERM's flush, its wait for older
writes, `app.close()` and the exit; `Crash`, `Boot` a kill and
`reapOrphanedSessions`. `upset` remembers the first mishap that the code only
logs or does not notice; the write-through properties hold up to it.

### GapRules, Probes, VendorRules, ProgramRules, Reading

The configuration is data and is translated as data: every gap's trigger and
severity, every vendor's coverage and route, every program's conditions. The score
takes a severity's weight once for each gap that has it. `Recon`
says what each probe returns for each way its lookups can end; `Gather` puts what
the sources say into one record, the later over the earlier (no field is two
sources'), and `extractReconContext` flattens it. The vendors found for the gaps go
into their tiers one after the other (`PutInTier`). `Reading` then runs one site:
`ReadSite` completes the session record, `Persist` inserts the payloads worth keeping one row at a time and may fail on the
way, `Analyze` is the session engine, `buildContext`, `triggered` and `recommended`
the recompute kernel over the rows, `OverrideField` changes a row, and
`AttestAndPublish` opens what is recommended. A `TEXT` column turns a boolean into
its word; the model keeps the two apart because the rules do.

### Record

One session's claims, in the order recon then signals, and the founder's answers
to them. A turn is `Send` (with the first analysis, `AnalysisBack`), both ending
in `Compose`, which does everything the handler does before the corpus await, and
`ReplyDone` or `ReplyWithout`. Between them other turns and the panel
(`ClaimAnswer`, `ProposalAccept`, `ProposalDecline`, `ShortlistAdd`) run. A
message is what its patterns find in it (`Interpret`); what the model voices is a
free choice. The register is the list the engine walks, in its order;
`RecordAssumption` says of it what holds of `capability-register.json`: no id
twice, and gaps and expressions are its only kinds.

### Upstream, ColdRead, ChatPage

`ColdRead` follows `extractAndInfer` act by act: the door, the workers that claim
pages and scrapes that outlive the act's deadline, the perimeter in the
background, two engines, correlation, corpus, identity, then `analyze`. Of the
log the lines that open and close an act are kept, and of the body the line each
page is owed. `ChatPage` adds the page: `submit`, the poll with its ceiling, the
stream with its safety timer, the talk, follow-ups that come back late, the
company name a route waits for. `awaiting` is the ref read by later messages,
`serving` what the running closure saw. `traced` is the read whose lines the bubble
shows, set when that read starts together with the lines already told: a founder
who corrects the address starts a second read on the same page.

### SignalStore, Tier2

What a request says is JSON and what a row keeps is text (`Text`), as the code
compares the one with the other. A call is a transaction: `Begin` takes the timestamp, `Transact` finds its row
with `FOR UPDATE` and commits in one step, or finds none and inserts in a later
one, on which the unique key may fail. `PersistInferred` is the extractor's
insert that nobody waits for. `Tier2` makes every query of publish and engage a
step after which the handler may die: `publish` holds what each has read, `gaps`
the claims, `engagement` the rows an engagement has so far.

### Account, Profile, Passport, Preread, Advisory

`Profile` folds a founder's log into current claims and six tiles; `Account` lets
two pages append to it, `Claim` (bind a session under the lock) and `AppendRead`
being separate steps with a crash between. `Passport` folds facts by layer and
then time and shows them through lenses; `Rendered` is which values of a key a view
puts before its reader, in fact sections and among the disagreements. `Preread` numbers sessions in the order
of creation and runs one pool of reads per batch. `Advisory` is one step: a
question, two searches, an answer, in which a match stands where the number of
matches ahead of it puts it (`Ahead`, `Ranked`: free before paid, then the order of
the registers).

### Inbound

A tick lists unread mail and takes each through parse, lookups, memory, reply,
mark and move; each outside call may fail before or after it took effect, and
ticks overlap behind `busy`. `MailText` says of each of the three mail lookups whether
the sentence calls it in place, missing, or nothing. `ParseEml` finds the sender at the bottom of the
forward. Graph is external: `mailbox` and `inbox` are what it holds.

### CliDossier, Cli

Operators translate the command line's own traces, context, `GAP_DEPENDENCIES`,
strengths, score and programs. `Cli` runs it: reading in steps as coarse as its
awaits, one confirmation at a time, save, deep phase; edit and rerender start from
the file. The companion page folds events and refolds all of them when it
reconnects; `OpenPage` is the tab a run opens, `Exit` leaves an open tab as it is or
has it closed, and a tab left open connects again to the next run, which listens on
the same port.

## 3. Runs

| Run | Shows | Bounds |
|---|---|---|
| `cer` | `ContactNeedsBothEnds`, `DirectConsentFinal`, `ClosedEdgeOnlyReopenedByAsk`, `PromiseUnlessOvertaken` under overlapping requests | 1 CER, 2 partners, 3 requests, 1 session |
| `cer_log` | `ImplementsCer`, `GrantIsStandingAnswer` | 1 CER, 2 requests, 1 session, 6 records |
| `memory_store` | `LockSerializes`, `ReplayKeepsRealTimeOrder`, `SelfHeals` | 2 calls, 1 first-touch file and the profile lock, 2 transactions, stalls, 1 crash |
| `session_store` | `CacheAndFileAgree`, `ShutdownKeepsWhatEnded`, `NoOrphanProcessing` | 1 request, 2 objects, 2 concurrent writes, 2 inodes, 1 restart |
| `tier2` | `AuditReplays`, `SystemNeverBeatsHuman`, `PublishedMeansAttested`, `StaleClaimIsReattested`, `AnsweredEngagementIsWhole` | 1 field, 2 texts and a number kept as one of them, 2 humans and a rescan over 3 calls, 2 gaps, 2 publishes, 1 engagement |
| `reading` | `NoVerdictFromSilence`, `SameProbesSameGaps`, `UnattestedBuysNoVendor` | a clean site and every site one or two answers away; 3 overrides |
| `record` | `TestimonyWasAsked`, `KeptOnceOnTestimony`, `SettledStands` | 2 turns, 4 messages, 2 taps, 2 reads, 3 register entries |
| `chat` | `SiteActTells`, `TraceIsSettled`, `ChipsAreThisTurns`, `ReadSettles` | 1 session, 2 pages after the homepage, 1 worker, 2 polls, 2 messages |
| `cli` | `NotSureNeverCosts`, `EnterKeepsTheDossier`, `CompanionIsCurrent` | 3 companies, 2 runs, 1 departing answer, 1 lost connection or page left open |
| `inbound` | `DoorIsHonest`, `ReadIsAnswered`, `DoorKeepsUp` | 4 mails, 2 ticks, 1 fault |
| `account` | `OneOwner`, `FounderWordStands`, `LitStaysLit`; `ViewersNeverDisagree`; `OnlyOldPrereadsGo`, `EveryReadSettles`; `FreeFirstAndCounted` | 2 founders, 3 pages, 2 reads, 2 statements, 1 crash; 3 facts; 3 batches, 1 restart; 6 questions |
| `passport_render` | violated: `RenderedIsVisible`, what a lens renders of a key is a value its audience may see (finding, below) | 1 key, 2 facts |

Why the bounds are enough to be of use. CERs never share records, so one CER
shows the races, and the partner rules need a second partner who is not the routed
one. Three slots allow a read-gate-append to be overtaken by two commits. Two
calls suffice for every race of the lock; the crash adds the abandoned lock.
`SessionStore` needs a second object (the one hydrated after an eviction), a
second write (the overlap) and a restart. Two inodes leave out only a write still
filling a file that was replaced meanwhile while another starts. In `tier2`,
fields do not meet in one row, so one field carries the races; of two gaps one
reads it and one does not, so a claim can go stale beside one that cannot; two
publishes are enough for the slower to write what the faster had replaced. In
`reading` a gap reads at most two sources, so sites two answers away show every
interaction. Two turns overlap in every way turns can; four messages reach a
question that is voiced, ignored, re-asked and answered. One worker and two pages
give a scrape that lands after the act closed and a page never claimed. Two polls
reach the ceiling after one wait. One departing answer is any one *not sure*; the
last answer of a run may depart as well as the first. Two founders, one forward of
a forward and one unreadable mail reach each branch of the parser; the two sets of
lookups reach the sentence on a partial mail set-up and that on none. A page of three
and two mails that stay unread is a page with room on it, which `DoorKeepsUp` asks. `account` holds
four machines that share no variable: `Next` moves one while the others stand at
their beginning, so each is explored alone, as four runs would.

Symmetry is used for requests, turns, publishes, objects, writers and inodes in
runs without liveness; the model values play no other part there.

Fairness. `MemoryStore!FairSpec`: the event loop runs the next file operation of
every call, time passes, and clients keep calling (strong fairness of a touch of
a cell: the promise is about a store in use). `ChatPage!FairSpec`: the poll sleeps
and is answered, and every other request answers or fails; the pipeline is owed
nothing, so a read that hangs is ended by the poll's ceiling. `Inbound!FairSpec`: the timer
ticks and the step a tick is at is taken; a call may fail, at most `MaxFaults`
times. `Preread!ReadsEnd`: a read that runs ends, in some way. No fairness assumes
that a write succeeds, that a worker finds anything or that a waiter wins a lock.
Deadlock is checked except where the system may stop: `tier2`, `reading`,
`record`, `chat`, `cli`, `inbound`, `account` end when their bounds are used up.

The definitions commented as mutants are wrong variants of the definition that
follows them, used in place of it to show that each property can fail: the
specifications never use them.

### Known counterexamples

Where a line of the repository says more than the code does, the model shows it;
the properties above are stated so as to hold of the code, and these are the
behaviours they step around.

1. **Consent given back by re-attaching.** Attach appends the shortlist's
   `consent-granted` records again; after a withdrawal the next attach makes the
   CER movable, against `handlers/cer.js:102`. Hence *direct* in
   `DirectConsentFinal`.
2. **Gates that a commit overtakes.** The gate is outside the lock. A founder's
   answer may be a silent no-op, against `handlers/cer.js:131`; and an admin's
   status, gated before the founder withdrew, lands after it and moves the CER,
   against `handlers/cer.js:102-104`, "once the founder withdraws consent the CER is
   terminal for admin transitions". Two admins' transitions from one status may
   reopen a closed CER, and a repeated ask takes a grant back to asked.
   `PromiseUnlessOvertaken` names these steps and forbids the rest.
3. **Two winners of a first touch**, against `services/memory-store-file.js:191`:
   two waiters find one lock stale, the second removes the first's fresh lock.
   `LockSerializes` holds until `overtaken`.
4. **A chat turn written to an evicted object**: the founder returns after an idle
   day and the sweep runs during the corpus await. `CacheAndFileAgree` holds until
   `upset`.
5. **A turn that ends between the flush and the exit** is only in memory, against
   `server.js:247`. `ShutdownKeepsWhatEnded` is of what ended before the signal, and
   until `upset`.
6. **Overlapping chat turns share `pending_confirm`**: a yes to one turn's question
   may testify to the other's. `TestimonyWasAsked` is of turns that do not overlap.
7. **A pending question is asked again without a count**, against
   `session-chat.js:320`: the limit of asks is looked at only when a new question is
   chosen.
8. **A settled claim is still put.** The question is chosen before the corpus await
   and the stream (`session-chat.js:219-256`); a claim the founder settles in the
   panel meanwhile is in the reply all the same. `SettledStands` is of what is
   chosen afterwards, and of the answer, which a yes to that reply does not change.
9. **An address that is not found leaves the input locked**: the branch at
   `Chat.jsx:2088` returns before `setIsProcessing(false)` at 2221. `ReadSettles`
   is about the bubble; `PollNotFound` keeps `processing`.
10. **A hung read is called done.** The stream's 160 s timer sends `__done__` with acts
    open (`session-log.js:22-33,75-78`), and the page takes it, or a lost connection,
    for the end of the scan (`Chat.jsx:2042-2052`); the comment over the timer means
    that "a slow analyze never gets its stream cut from under it".
    `TraceIsSettled` is of a trace the log ended (`told`).
11. **A silent host reads as headers missing.** Where the page was not fetched (an
    error, the 8 s timeout, a redirect to nowhere), `recon-http.js:38-47` returns
    `has_hsts` and `has_csp` false and no error, and both engines raise
    `security_headers`; `absence-default-deny.test.js:5-7` wants a gap observed "only
    when a probe or the founder spoke", and its lines 32-33 admit this one because "the
    trigger field only exists when a probe ran". `NoVerdictFromSilence` excepts it
    (`Answered`), and nothing else.
12. **One attested gap or all of them.** The header of `publish.js` (line 3) says "On
    success (>=1 attested)"; the gate at 127-129 and its comment ask for all.
    `PublishedMeansAttested` is the gate's; the header is its mutant `ConcludeOnAny`.
13. **Two humans who agree are in conflict**: `signal-store.js:68` compares the text of
    the row with the JSON of the request, so `true` challenges `"true"`.
    `ConflictsAreHuman` admits a value that reads the same as text (`Ambiguous`).
14. **A mail is answered twice when marking it fails** (`mailbox-m365.js:97`), so
    `ReadIsAnswered` speaks of mail already marked.
15. **A failed lookup becomes a claim.** The sentence on a partial mail set-up says
    "cannot receive mail", "no sender check" or "no spoofing policy" of a lookup that
    failed (`inbound-check/index.js:104`), against `index.js:4`, "A failed lookup says
    "couldn't check"" (the rows below the sentence do). `NothingClaimedUnseen` holds
    that sentence only to what it calls in place; the `inbound` run has the case.
16. **An inbox that starves.** A page is the 25 newest unread mails
    (`mailbox-m365.js:46`), and a mail not for the door or without a sender stays
    unread: 25 of them keep every older one from being answered. `DoorKeepsUp` asks
    for fewer of them than a page holds.
17. **Overlapping refreshes of the founder's memory**: the slower, older answer is
    shown last (`Chat.jsx:1361`). No property is about that view.
18. **A companion page that reconnects.** It draws its edges again (`graph.js:62`: nodes
    are kept by name, edges are appended), and its dot keeps the warning of the lost
    connection until the run asks or ends (`graph.js:42`). A tab left open when its run
    ends comes back by itself to the next one (`graph.js:35`, the port of
    `graph-server.mjs:5`), and nothing resets it (`graph.js:7-8,23-40,99-103`): it keeps
    the nodes, sections and edges of the earlier run wherever this run has not said
    otherwise, and a stop button pressed once stays disabled. `CompanionIsCurrent`
    asks of such a page that it show all this run has said, and of a page opened in
    this run that it show nothing else.

One disagreement is a run of its own, `passport_render`, as it is about what a reader
is shown. `vehicle-projection.js:107-108` says that a fact that names its audiences is
"filtered here, before it is ever rendered"; the section of disagreements is computed
at line 168 from every fact of the vehicle, and the due-diligence lens, issued to an
investor, has that section. TLC finds a founder-only value in it after two facts.
`ViewersNeverDisagree` is of the sections fed by facts, which are filtered.

## 4. Proofs

All by TLAPS, for any value of the constants that meets the named ASSUMEs of the
modules (special values lie outside their sets, bounds are numbers, `RoutePartner`
and `Reads` are functions; `NullAssumption`: null is none of the words a rule compares
with; `SiteAssumption`: nor is it a site; `RegisterAssumption`: a question has finitely
many words and a register's entries are numbered). What is data in the code, the tables of gaps, vendors and
questions, is data in the theorems too: they hold of those tables, and of every
company, site, answer and order of events. Every state invariant of the
passing runs is proved.

`CerProofs`. `ContactNeedsBothEnds` alone is not inductive: a view discloses what
the projection says is granted, and that a granted edge names the routed partner
and was granted by the founder follows only from what transactions in flight may
hold. `IInv` adds `MintedInv`, `PendingInv`, `EdgeBelongsToRoute` and `GrantInv`.
From it: `TypeCorrect`, `BothEndsConsent`, `RouteOwnsEdge`,
`DirectWithdrawalIsFinal` and `LateAnswersReviveNothing`. Against `CerPromise`,
`OnlyOvertakenRecordsBreakThePromise`: a record lands on the CER as it is then, not as
its handler saw it, so the proof asks of each kind of record what it does to every
projection `IInv` allows (`RecordMoves`), and that this is a step of the promise or a
stutter wherever the record is not `Overtaken` (`MovePromised`, `CreationPromised`).
`SoleInv` adds that what is no creation is of one CER. No bound on requests and no
absence of sessions is assumed. `TerminalUnlessOvertaken` draws from it what a reader
wants: withdrawn consent and Closed are final but for those steps.

`MemoryStoreProofs`. `IInv` is `TypeOK`, `LockInv` (one holder, while nobody was
overtaken), `CellInv` (a writer found the cell empty), `LogInv` (numbers respect
the acknowledgements seen, which needs no lock: the number is read after them) and
`NumberInv`. From it `FirstTouchHasOneWinner`, `SequenceNumbersUnique`, both as
`LockSerializesWrites`, and, unconditionally, `ReplayOrder`. The second part is about
`CerLog`, what that log keeps of the CERs, for a log of any length. `ProjectAppend`:
one record more changes the projection of its own CER as `Stepped` says, and no
other; `TxEffect`, by induction along the fold that concatenates a transaction's
records: those of any finite set of CERs move exactly these, each by `ApplyEvent`.
With `LogTypeCorrect` (what a request holds is about finitely many CERs) that is
`LogImplementsCer`. `ContactFollowsStandingGrant` compares the fold with the log
itself: after any number of records an introduction is projected as asked iff an ask
stands open (`AskOpen`) and as granted iff a grant does (`GrantOpen`); neither is inductive without
the other, since a grant only counts where an ask was open.

`SessionStoreProofs`. `NoOrphanProcessing` needs `PInv`: the cache, the heap, the
disk and the writes hold sessions, so that what is hydrated is a session whose
flag hydration settles. `NoPollWaitsForTheDead` then holds however the writes
interleave, fail and are torn. `CacheAndFileAgree` and `ShutdownKeepsWhatEnded` are
about content, and need `SInv`: the skeleton of objects, writes and inodes that holds
always (`BirthInv`, `DownInv`, `HeldInv` and the like), and, until the first mishap,
`WriteThrough`: versions only grow along object, write and file (`GrowInv`), the
newest version is in the file, in a write that has still to land or in the dirty set
(`FreshInv`), what ended is no newer than those (`EndedInv`), and a stopping process
waits for what is in flight (`StopInv`). From it `CacheIsOverFile` and
`ShutdownLosesNothing`.

`Tier2Proofs`. `SInv`, of the rows, adds to the replay of the trail that a row's last
decision is the latest event, that a row not there was never decided, and that a
conflict is between two humans. Without the first, an override's prior value says
nothing about the row it is about to change. `TInv`, of the calls, has three parts.
`GateInv`: what a publish has still to do covers all triggered gaps, until the
session is published. `StaleInv`: whatever a publish read, and whatever a claim was
made of, differs from the rows only in fields that count as changed, which is why a
slower publish cannot hide a change. `WholeInv`: an engagement that is routing has
written a first part of the shares due. From them the types, `TrailReplays`,
`ConflictsAreHuman`, the action property `HumansKeepTheirWord`, `GateHolds`,
`StaleClaimsArePicked` and `AnsweredIsWhole`.

`FoldTheorems`. Much of the state here is a fold of a log. A theorem cannot be given
an operator by the provers, but a module can: `FoldTheorems` has the operator as a
constant and is instantiated once for each fold. It proves that `FoldLeft` is a chain
of steps from its base (`FoldAlong`), and from that an induction along the fold
(`FoldInduction`), that a fold stays where its steps stay (`FoldStays`), that an
element more is a step more (`FoldAppend`), that two folds keep a relation their steps
keep (`FoldAlike`), and that one sequence after another is folded on from where the
first ended (`FoldConcat`). Induction over numbers is had for a set
in place of a predicate (`NatSet`, `UpTo`), from the well-foundedness of `<`.

`AccountProofs`. `ReadsHaveOneOwner` needs what a call in flight carries
(`CallTypes`), that what it is about to append was bound to its founder under the
lock (`ClaimedIsBound`) and that a log holds only reads bound to its founder
(`HeldByItsFounder`). `TheFoundersWordStands` and `LitTilesStayLit` are of the fold
of `Profile`: along it a fact the founder stated is held by the latest statement
(`Stands`) and a tile, lit, is never put out (`Climbs`, `Learns`), and a log only
grows at its end. `PassportViewersNeverDisagree`: the winner of a layer is the
greatest of its facts (`Foremost`) whatever else a lens leaves out.
`TheCapDropsTheOldest` needs that reads keep the order of creation, that what failed
stays failed and that only live reads are worked on (`ReadsKeepTheirOrder`,
`FailedStayFailed`, `OnlyLiveWork`).

The mailbox door is of any number of ticks, mails and founders, with any number of
calls that fail before or after they took effect. That a stranger's mail is not looked
up, and that a reply says only what was (but for counterexample 15), needs to know what the tick that sends it holds. `HeldInv` is of what lasts:
the inbox lists a mail once (`InboxHasEachOnce`), a reply is one of those the mail may
get (`RepliesAreChecks`), and the disk remembers only readable mail
(`StrangersLeaveNoTrace`). `PollInv` is of the ticks: one polls at a time
(`OnePoll`), it has each mail in hand once, and none that is marked but the one it is
filing (`HandIsUnread`), and at each stage what it knows is about that mail, whose
forwarder is registered once it is read (`KnowsItsMail`). A page of unread mail is a fold of the inbox. From `DoorIsSound`:
`TheDoorIsHonest`, and `AMarkedMailIsLeftAlone`: who replies has an unmarked mail in
hand.

The registers have no recursion to follow: an entry stands where the number of those
ahead of it puts it. `EveryPlaceIsTaken` shows of any strict order of a finite set that
these numbers are a permutation, and `FreeComesFirst` that nothing paid is on the page
before what is free and that the count is of all that match, whatever the page's length.

`RecordProofs`. That testimony was asked for is not inductive: nothing in one step
says that the voiced flag of the session is what the founder heard. `RInv` says so
(`VoicedIsHeard`), and that while a reply is streamed nothing counts as voiced and
its question is the pending one (`ReplyAsksPending`), as long as one turn runs at a
time (`OneTurn`); the panel may still decline the pending proposal. From it
`NoForgedTestimony`. `NothingIsPitchedUntestified` follows the fold that fills the
shortlist: what it adds has testimony behind it, and testimony is not taken back.
`WhatIsSettledStands`: the next question is the first claim in order that is open,
an answered claim is not, and a message answers only what is still inferred.

The companion page. A page that reconnects is not blank, and folds all of the run's
events over what it had, be it of this run or of an earlier one. `PageInv` says that a
connected page shows what a blank one would make of the events, and beyond that only
what some earlier page showed (`Follows`), nothing if it was opened in this run; and
that a page of this run that lost its connection holds a part of that (`Within`): the
events are never taken back within a run, so what is left over is told again.
`Between` carries it over the end of a run: no page is connected then, and one still
open is the next run's no more. `DeliverFollows` is the induction along both folds at
once (`FoldAlike`), and `TheCompanionIsCurrent` follows. The attempt found a rule of
this model that was wrong (a branch of the deep phase that took in a neighbour).

A site's reading. `ReadInv` says that the record holds what the probes of that site
said, that a row is a copy of its source's payload, and that the analysis is of that
record. No two sources share a field (`SourcesApart`), so what reaches a rule is what
one source said: `WhatAnalysisHears` and `WhatTheKernelHears` give it for each engine,
`ProbeTriggers` says what a probe's gap turns on, and from both follow
`NothingFromSilence`, no gap out of a lookup that nothing answered, and
`OneStoryOfTheProbes`, the same gaps from both engines once every payload worth a row is
stored. `SelectedCloses` follows the fold over the catalogue, and with it
`NothingUnattestedSells`: on a published page a vendor closes a gap that was observed
and is not called inferred or unknown (one without a class row is neither,
`recompute.js:195`).

The dossier. `NotSureLeavesFewer` is the heart of it: a rule that would turn against a
company for want of a field names that field in `GAP_DEPENDENCIES`
(`NoRuleTurnsOnWant`, rule by rule), and fewer gaps never score less
(`FewerGapsScoreMore`). For Enter, `EnterRestores` shows that what was saved, asked
again and answered with Enter, gives the gaps, strengths, score and programs of the
saved session, for any saved session a run can leave. `SessionInv` says which those are
(`SavedAsSaid`), that who was not sure has given no value (`Honest`), and
that the questions of a run are asked in order and all of them before it ends. From it
`NotSureIsFree` and `EnterIsNoChange`.

`ChatPageProofs`. `ChipsKeepTheirTurn` follows the chips, and the turn they belong
to, through the stream's end and its safety timer. `SiteActTells` and `TraceIsSettled` rest on `SInv`:
how far a session has come and what its log then holds (`ServerShape`), what
the page makes of the lines it is given (`PageOf`), which lines are still owed
(`TraceOf`) and what the site act owes each page (`SiteOf`). The step of the session
is one lemma for each action, from what may move in it (`Moves`); the step of the
page needs that a chain of lines is told in order. From it `TheSiteActTellsEachPageOnce`
and `AToldTraceIsSettled`. The attempt showed that the page had to name the read it
shows, not only how many lines were told: a second read on the page starts over.

Model-checked only. Liveness (`SelfHeals`, `ReadSettles`, `EveryReadSettles`,
`DoorKeepsUp`), which is out of the provers' reach. What the tables say of each gap, vendor and program is
translated and read beside the code, for there is nothing to prove it from.

## 5. Not modelled

- Relational memory (`memory/*.js`): used by the journey route only. A founder's first
  touch is projected from the file store in one Postgres transaction under a unique
  `ref` (the loser of a race re-reads the winner's row); every later call reads.
- John relay, notify and the Telegram webhook are reduced to what they write on a
  session (`Touch`).
- Session deletion and the thirty-day expiry; `analysis_status`, which goes through
  the same code as `infer_status`.
- Rate limit (a synchronous fixed window) and Turnstile (one outside call).
- The portal, the projections and the other pages: views of what the API answers.
  Of the chat page: layout, spaces, uploads and the vendor shelf.
- Prompts, prose, prices, links, and what models and services answer, beyond
  whether they do and what of it a rule reads.

## 6. What is left

1. `SessionStore`: deletion and retention against a write in flight.
2. The chat page's spaces and uploads.
3. The portal and the other pages, as views of what the API answers.
