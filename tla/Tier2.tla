------------------------------- MODULE Tier2 -------------------------------
(***************************************************************************)
(* The second tier of one session: handlers/publish.js attests the gaps    *)
(* with VERITAS (services/veritas-adapter.js) and publishes, and then      *)
(* handlers/engage.js routes engagements (services/engagement-router.js).  *)
(* Both work on the signals of SignalStore, which overrides keep changing. *)
(*                                                                         *)
(* Neither handler has a transaction: every query commits by itself, so    *)
(* each is a step, and the handler may die after any of them. What VERITAS *)
(* makes of the evidence (the class, the confidence) is left out: the gate *)
(* counts claims, of whatever class. Rows of the table gaps are written by *)
(* no code in the repository: which are triggered is part of Init.         *)
(***************************************************************************)
EXTENDS SignalStore

CONSTANTS
  Gap,        \* gap definitions
  Reads,      \* Reads[g]: the fields g's trigger and claim template access
  Publish,    \* the publish requests
  Engage,     \* the engage requests
  Branch,     \* the branches they may select
  Tenant      \* rows of tenants: [id, branch, priority, created]

ASSUME Tier2Assumption ==
  /\ Reads \in [Gap -> SUBSET Field]
  /\ Branch \subseteq {"john", "distributor", "vendor"} \* VALID_BRANCHES

VARIABLES
  status,     \* sessions.status
  gaps,       \* gaps[g]: is the row triggered, and what its claim was made of
  publish,    \* publish[p]: a publish request and how far it is
  engage,     \* engage[e]: an engage request and how far it is
  engagement  \* engagement[e]: what request e inserted

tvars == <<status, gaps, publish, engage, engagement>>
vars == <<svars, tvars>>

Values == [f \in Field |-> signals[f].value]

NoClaim == [made |-> FALSE]
Claim(snap) == [made |-> TRUE, of |-> snap]

Fresh == [pc |-> "idle"]
NoEngagement == [row |-> FALSE, tenant |-> Null, event |-> FALSE, shares |-> << >>]

Init ==
  /\ SInit
  /\ status = "active"
  /\ \E T \in SUBSET Gap :
       gaps = [g \in Gap |-> [triggered |-> g \in T, claim |-> NoClaim]]
  /\ publish = [p \in Publish |-> Fresh]
  /\ engage = [e \in Engage |-> Fresh]
  /\ engagement = [e \in Engage |-> NoEngagement]

Triggered == {g \in Gap : gaps[g].triggered}
----------------------------------------------------------------------------
(* Publishing.                                                             *)

LoadSession(p) ==
  /\ publish[p] = Fresh
  /\ publish' = [publish EXCEPT ![p] =
       [pc |-> "loaded", again |-> status = "tier2_published"]]
  /\ UNCHANGED <<status, gaps, engage, engagement>>

(* Mutant: a conflicted field does not count as changed.                   *)
ChangedOnlyOverridden == {f \in Field : signals[f].status = "overridden"}

(* Nothing ever sets a signal back from overridden, so a field counts as   *)
(* changed for every republish after its first override.                   *)
Changed == {f \in Field : signals[f].status \in {"overridden", "conflicted"}}

GapsRequiringReattestation == {g \in Triggered : Reads[g] \cap Changed # {}}

(* The gaps, the signals and the recon outputs are read, and the gaps to   *)
(* attest chosen: all of them, or on a republish those of changed fields.  *)
ChooseGaps(p) ==
  LET again == publish[p].again
      todo == IF again THEN GapsRequiringReattestation ELSE Triggered
  IN /\ publish[p].pc = "loaded"
     /\ publish' = [publish EXCEPT ![p] =
          IF Triggered = {} THEN [pc |-> "409"]
          ELSE IF todo = {} THEN [pc |-> "ok"]
          ELSE [pc |-> "attesting", snap |-> Values, todo |-> todo]]
     /\ UNCHANGED <<status, gaps, engage, engagement>>

(* attestBatch runs every gap's ingest and generate at once, each retried  *)
(* and timed out by itself, and waits for all. The evidence is what the    *)
(* signals said when they were read and no outcome shows before the last:  *)
(* to the session the batch is one step, of any outcome.                   *)
AttestBatch(p) ==
  /\ publish[p].pc = "attesting"
  /\ \E attested \in SUBSET publish[p].todo :
       publish' = [publish EXCEPT ![p] =
         [pc |-> "writing", snap |-> @.snap, left |-> attested,
          complete |-> attested = @.todo]]
  /\ UNCHANGED <<status, gaps, engage, engagement>>

(* UPDATE gaps, one attested gap after another.                            *)
KeepClaim(p, g) ==
  /\ publish[p].pc = "writing" /\ g \in publish[p].left
  /\ gaps' = [gaps EXCEPT ![g].claim = Claim(publish[p].snap)]
  /\ publish' = [publish EXCEPT ![p].left = @ \ {g}]
  /\ UNCHANGED <<status, engage, engagement>>

(* Mutant, and what the header of publish.js says: one attested gap is     *)
(* enough.                                                                 *)
ConcludeOnAny(p) ==
  /\ publish[p].pc = "writing" /\ publish[p].left = {}
  /\ status' = "tier2_published" /\ publish' = [publish EXCEPT ![p] = [pc |-> "ok"]]
  /\ UNCHANGED <<gaps, engage, engagement>>

(* All gaps attested advances the session; any failure is a 503 that keeps *)
(* the claims already written. For the answer the gaps are read again: if  *)
(* that read throws the publish stands, and its caller is told 500.        *)
Conclude(p) ==
  /\ publish[p].pc = "writing" /\ publish[p].left = {}
  /\ IF publish[p].complete
     THEN /\ status' = "tier2_published"
          /\ \E code \in {"ok", "500"} : publish' = [publish EXCEPT ![p] = [pc |-> code]]
     ELSE publish' = [publish EXCEPT ![p] = [pc |-> "503"]] /\ UNCHANGED status
  /\ UNCHANGED <<gaps, engage, engagement>>

(* A query throws, or the process is replaced, between two steps.          *)
PublishDies(p) ==
  /\ publish[p].pc \in {"loaded", "attesting", "writing"}
  /\ publish' = [publish EXCEPT ![p] = [pc |-> "500"]]
  /\ UNCHANGED <<status, gaps, engage, engagement>>

PublishStep(p) ==
  \/ ChooseGaps(p) \/ AttestBatch(p) \/ Conclude(p) \/ PublishDies(p)
  \/ \E g \in Gap : KeepClaim(p, g)
----------------------------------------------------------------------------
(* Engaging.                                                               *)

(* ORDER BY priority NULLS LAST, created_at LIMIT 1.                       *)
Before(t, u) ==
  \/ t.priority # Null /\ u.priority = Null
  \/ t.priority # Null /\ u.priority # Null /\ t.priority < u.priority
  \/ t.priority = u.priority /\ t.created <= u.created

Distributors == {t \in Tenant : t.branch = "distributor"}

RoutedTo(t) == t \in Distributors /\ \A u \in Distributors : Before(t, u)

(* insertAttributionRows: who gets which share, in the order inserted.     *)
Shares(branch) ==
  CASE branch = "john" -> <<100>>
    [] branch = "distributor" -> <<70, 30>>
    [] branch = "vendor" -> <<80, 20>>

(* The tenant a branch is routed to: with no distributor tenant the router *)
(* throws before it has inserted anything.                                 *)
Destinations(branch) ==
  IF branch = "distributor" THEN {t.id : t \in {t \in Tenant : RoutedTo(t)}} ELSE {Null}

Gate(e) ==
  /\ engage[e] = Fresh
  /\ \E b \in Branch :
       IF status # "tier2_published" THEN engage' = [engage EXCEPT ![e] = [pc |-> "409"]]
       ELSE IF Destinations(b) = {} THEN engage' = [engage EXCEPT ![e] = [pc |-> "500"]]
       ELSE \E t \in Destinations(b) :
              engage' = [engage EXCEPT ![e] = [pc |-> "routing", branch |-> b, to |-> t]]
  /\ UNCHANGED <<status, gaps, publish, engagement>>

Routing(e) == engage[e].pc = "routing"

InsertEngagement(e) ==
  /\ Routing(e) /\ ~engagement[e].row
  /\ engagement' = [engagement EXCEPT ![e].row = TRUE, ![e].tenant = engage[e].to]
  /\ UNCHANGED <<status, gaps, publish, engage>>

InsertRouted(e) ==
  /\ Routing(e) /\ engagement[e].row /\ ~engagement[e].event
  /\ engagement' = [engagement EXCEPT ![e].event = TRUE]
  /\ UNCHANGED <<status, gaps, publish, engage>>

InsertShare(e) ==
  LET given == engagement[e].shares  due == Shares(engage[e].branch) IN
  /\ Routing(e) /\ engagement[e].event /\ Len(given) < Len(due)
  /\ engagement' = [engagement EXCEPT ![e].shares = Append(given, due[Len(given) + 1])]
  /\ UNCHANGED <<status, gaps, publish, engage>>

(* Mutant: answered before the attribution rows are inserted.              *)
EngagedEarly(e) ==
  /\ Routing(e) /\ engagement[e].event
  /\ engage' = [engage EXCEPT ![e] = [pc |-> "ok"]]
  /\ UNCHANGED <<status, gaps, publish, engagement>>

Engaged(e) ==
  /\ Routing(e) /\ engagement[e].event
  /\ Len(engagement[e].shares) = Len(Shares(engage[e].branch))
  /\ engage' = [engage EXCEPT ![e] = [pc |-> "ok"]]
  /\ UNCHANGED <<status, gaps, publish, engagement>>

EngageDies(e) ==
  /\ Routing(e)
  /\ engage' = [engage EXCEPT ![e] = [pc |-> "500"]]
  /\ UNCHANGED <<status, gaps, publish, engagement>>

EngageStep(e) ==
  \/ InsertEngagement(e) \/ InsertRouted(e) \/ InsertShare(e)
  \/ Engaged(e) \/ EngageDies(e)
----------------------------------------------------------------------------
Next ==
  \/ SNext /\ UNCHANGED tvars
  \/ /\ \/ \E p \in Publish : LoadSession(p) \/ PublishStep(p)
        \/ \E e \in Engage : Gate(e) \/ EngageStep(e)
     /\ UNCHANGED svars

Spec == Init /\ [][Next]_vars
----------------------------------------------------------------------------
(* The publish gate (publish.js:127, "ALL gaps must attest"): in a         *)
(* published session every triggered gap carries a claim, though publishes *)
(* overlap, fail half way and leave their partial claims behind. The       *)
(* header of the file says otherwise ("On success (>=1 attested)", line    *)
(* 3): one attested gap would do, and this would not hold.                 *)
PublishedMeansAttested ==
  status = "tier2_published" => \A g \in Triggered : gaps[g].claim.made

(* A claim made of values that were overridden meanwhile, or overwritten   *)
(* by a slower publish that had read older ones, is never stale for good:  *)
(* the next republish picks its gap again.                                 *)
StaleClaimIsReattested ==
  \A g \in Triggered :
    gaps[g].claim.made /\ (\E f \in Reads[g] : gaps[g].claim.of[f] # signals[f].value)
      => g \in GapsRequiringReattestation

Sum100(s) == IF Len(s) = 1 THEN s[1] = 100 ELSE Len(s) = 2 /\ s[1] + s[2] = 100

(* An engagement exists only in a published session, and one that was      *)
(* answered is whole: its routed event, and shares that make 100.          *)
AnsweredEngagementIsWhole ==
  \A e \in Engage :
    /\ engagement[e].row => status = "tier2_published"
    /\ engage[e].pc = "ok" => engagement[e].event /\ Sum100(engagement[e].shares)
=============================================================================
