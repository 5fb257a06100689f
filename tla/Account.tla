------------------------------ MODULE Account -------------------------------
(***************************************************************************)
(* Founders' accounts: the statements and cold reads their pages send      *)
(* (handlers/profile.js, handlers/session-attach.js), appended to one log  *)
(* per founder (Chat.jsx, persistFounderMemoryEvent, attachCurrentSession- *)
(* ToProfile), whose tiles are what Profile makes of the log.              *)
(*                                                                         *)
(* A page is one load of Chat.jsx by a signed-in founder. Attaching a      *)
(* session binds it under a lock, then appends, with awaits between: the   *)
(* process may be replaced there, and another page may bind. How a         *)
(* transaction reaches the disk is MemoryStore's business.                 *)
(***************************************************************************)
EXTENDS Profile

CONSTANTS
  Founder, Page,
  Request,      \* Request[p]: the credentials page p sends, see AuthUser
  Auth0Set, AccessSet,  \* the two identity providers are configured
  Session,      \* complete cold reads, see SessionAttachRecords
  SessionOf,    \* SessionOf[s]: what session s holds
  Statement,    \* Statement[p]: what p's POST /profile/current/events may carry
  Name,         \* what a field, or an author, may be called
  Value,        \* what a fact may say of a field, Null among it
  MaxStatements, MaxCrashes  \* bounds

(* A fact as it is sent: its field is any name, its author any or none.    *)
Said == [field : Name, value : Value, actor : Name \cup {Null}]

(* A claim of the log, and where it came from: a statement or a session.  *)
Origin == Session \cup {"statement"}
StoredClaim == [field : ExplicitFactFields, value : Value, from : Origin,
                actor : {"founder", "system"}]

ASSUME AccountAssumption ==
  /\ Null \notin Founder \cup StoredClaim /\ "statement" \notin Session
  /\ ExplicitFactFields \cup {"founder", "system"} \subseteq Name
  /\ Request \in [Page -> [bearer : Founder \cup {Null}, access : Founder \cup {Null},
                           verified : BOOLEAN]]
  /\ Statement \in [Page -> SUBSET Seq(Said)]
  /\ SessionOf \in [Session -> [company : Value, website : Value, signals : Seq(Said)]]

VARIABLES
  log,     \* log[f]: the claims appended to f's profile, oldest first
  bound,   \* bound[s]: the founder session s is bound to, or Null
  call,    \* call[p]: the attach p waits for, how far it is, its session
  tried,   \* tried[p]: attachedProfileSessionsRef
  said, crashes

accountVars == <<log, bound, call, tried, said, crashes>>

(* A bearer token decides alone when there is one; Cloudflare's assertion  *)
(* counts only where Access is configured, and must carry an e-mail. The   *)
(* two name their founders apart: one person by both doors is two.         *)
AuthUser(request) ==
  CASE request.bearer # Null ->
         IF Auth0Set /\ request.verified THEN request.bearer ELSE Null
    [] request.bearer = Null /\ AccessSet /\ request.access # Null ->
         IF request.verified THEN request.access ELSE Null
    [] OTHER -> Null

Who == [p \in Page |-> AuthUser(Request[p])]
SignedIn == {p \in Page : Who[p] # Null}

NoCall == [at |-> "none", session |-> Null]
Current(f) == Reconstruct(log[f])

AccountInit ==
  /\ log = [f \in Founder |-> << >>]
  /\ bound = [s \in Session |-> Null]
  /\ call = [p \in Page |-> NoCall]
  /\ tried = [p \in Page |-> {}]
  /\ said = 0 /\ crashes = 0

(* persistFounderMemoryEvent: sent and forgotten, no refresh follows.      *)
Say(p, facts) ==
  /\ said < MaxStatements
  /\ log' = [log EXCEPT ![Who[p]] = @ \o FactRecords(facts, "statement")]
  /\ said' = said + 1
  /\ UNCHANGED <<bound, call, tried, crashes>>

Attach(p, s) ==
  /\ call[p] = NoCall /\ s \notin tried[p]
  /\ call' = [call EXCEPT ![p] = [at |-> "sent", session |-> s]]
  /\ tried' = [tried EXCEPT ![p] = @ \cup {s}]
  /\ UNCHANGED <<log, bound, said, crashes>>

(* Mutant: whoever attaches last takes the session over. *)
ClaimUnchecked(p) ==
  /\ call[p].at = "sent"
  /\ bound' = [bound EXCEPT ![call[p].session] = Who[p]]
  /\ call' = [call EXCEPT ![p].at = "claimed"]
  /\ UNCHANGED <<log, tried, said, crashes>>

(* claimSessionForProfile: a second attach by the same profile passes.     *)
Claim(p) ==
  /\ call[p].at = "sent"
  /\ bound[call[p].session] \in {Null, Who[p]}
  /\ bound' = [bound EXCEPT ![call[p].session] = Who[p]]
  /\ call' = [call EXCEPT ![p].at = "claimed"]
  /\ UNCHANGED <<log, tried, said, crashes>>

AppendRead(p) ==
  LET s == call[p].session
  IN  /\ call[p].at = "claimed"
      /\ log' = [log EXCEPT ![Who[p]] = @ \o SessionAttachRecords(SessionOf[s], s)]
      /\ call' = [call EXCEPT ![p].at = "answered"]
      /\ UNCHANGED <<bound, tried, said, crashes>>

(* 201: the page knows the session is attached, and does not ask again.    *)
Attached(p) ==
  /\ call[p].at = "answered"
  /\ call' = [call EXCEPT ![p] = NoCall]
  /\ UNCHANGED <<log, bound, tried, said, crashes>>

(* 409, or no answer: the page may try the session again.                  *)
AttachFailed(p) ==
  /\ \/ call[p].at = "sent" /\ bound[call[p].session] \notin {Null, Who[p]}
     \/ call[p].at = "cut"
  /\ tried' = [tried EXCEPT ![p] = @ \ {call[p].session}]
  /\ call' = [call EXCEPT ![p] = NoCall]
  /\ UNCHANGED <<log, bound, said, crashes>>

(* The process is replaced: requests under way are cut where they are, one *)
(* whose answer was on its way among them.                                 *)
Crash ==
  /\ crashes < MaxCrashes
  /\ crashes' = crashes + 1
  /\ call' = [p \in Page |-> IF call[p] = NoCall THEN NoCall ELSE [call[p] EXCEPT !.at = "cut"]]
  /\ UNCHANGED <<log, bound, tried, said>>

AccountNext ==
  \/ \E p \in SignedIn : \E facts \in Statement[p] : Say(p, facts)
  \/ \E p \in SignedIn, s \in Session : Attach(p, s)
  \/ \E p \in SignedIn : Claim(p) \/ AppendRead(p) \/ Attached(p) \/ AttachFailed(p)
  \/ Crash

AccountSpec == AccountInit /\ [][AccountNext]_accountVars

-----------------------------------------------------------------------------

(* What a cold read found is in one founder's account and no other's,      *)
(* whatever two accounts attach at once and wherever the process stops     *)
(* (claimSessionForProfile, then the append after an await).               *)
OneOwner ==
  \A f, g \in Founder : \A i \in DOMAIN log[f], j \in DOMAIN log[g] :
    log[f][i].from = log[g][j].from /\ log[f][i].from # "statement" => f = g

(* Of what an account holds on a field, the founder's last word stands, and *)
(* the last cold read's only where the founder said nothing: attaching a   *)
(* read again, or a second one, never takes a word back (applyClaim).      *)
FounderWordStands ==
  \A f \in Founder : \A x \in ExplicitFactFields :
    LET On == {i \in DOMAIN log[f] : log[f][i].field = x}
        His == {i \in On : log[f][i].actor = "founder"}
    IN  Current(f)[x] = IF On = {} THEN Null
                        ELSE log[f][Max(IF His # {} THEN His ELSE On)]

(* A lit tile goes dark, and confidence in a tile falls, only where the    *)
(* cloud provider's value changed: every other thing an account learns     *)
(* adds to what the six projections count.                                 *)
LitStaysLit ==
  [][\A f \in {g \in Founder : log'[g] # log[g]} :
       LET was == Current(f)
           is == Reconstruct(log'[f])
           moved == /\ was["cloud_provider"] # Null
                    /\ was["cloud_provider"].value # is["cloud_provider"].value
       IN  moved \/ /\ LitTiles(was) \subseteq LitTiles(is)
                    /\ \A t \in Tile : Confidence(was, t) = "medium" => Confidence(is, t) = "medium"
    ]_accountVars
=============================================================================
