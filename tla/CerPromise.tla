----------------------------- MODULE CerPromise -----------------------------
(***************************************************************************)
(* What the CER endpoints promise of one engagement, each step atomic:     *)
(* consent once withdrawn stays withdrawn and freezes the admin status,    *)
(* Closed is final, nothing is booked that was not under review, and an    *)
(* introduction moves only by an ask of the partner and an answer of the   *)
(* founder while consent stands; either end may withdraw it.               *)
(*                                                                         *)
(* Stated without the code's gates and folds. Which steps of the handlers  *)
(* keep it, and which late appends break it, is Cer's subject              *)
(* (PromiseUnlessOvertaken).                                               *)
(***************************************************************************)
CONSTANT Cer

VARIABLES
  consent,   \* consent[c] \in {"absent", "granted", "withdrawn"}
  status,    \* status[c]: the admin status
  edge       \* edge[c]: the introduction's state

vars == <<consent, status, edge>>

Init ==
  /\ consent = [c \in Cer |-> "absent"]
  /\ status = [c \in Cer |-> "Submitted"]
  /\ edge = [c \in Cer |-> "none"]

(* One engagement, or the whole shortlist of a session that attaches.      *)
Create(cers) ==
  /\ \A c \in cers : consent[c] = "absent"
  /\ consent' = [c \in Cer |-> IF c \in cers THEN "granted" ELSE consent[c]]
  /\ UNCHANGED <<status, edge>>

WithdrawConsent(c) ==
  /\ consent[c] = "granted"
  /\ consent' = [consent EXCEPT ![c] = "withdrawn"]
  /\ UNCHANGED <<status, edge>>

SetStatus(c, to) ==
  /\ consent[c] = "granted"
  /\ status[c] \notin {"Closed", to}
  /\ to \in {"Booked", "Needs info"} => status[c] = "Under review"
  /\ status' = [status EXCEPT ![c] = to]
  /\ UNCHANGED <<consent, edge>>

Ask(c) ==
  /\ consent[c] = "granted"
  /\ edge[c] \in {"none", "declined", "withdrawn"}
  /\ edge' = [edge EXCEPT ![c] = "asked"]
  /\ UNCHANGED <<consent, status>>

Answer(c, answer) ==
  /\ consent[c] = "granted"
  /\ edge[c] = "asked"
  /\ edge' = [edge EXCEPT ![c] = answer]
  /\ UNCHANGED <<consent, status>>

WithdrawEdge(c) ==
  /\ consent[c] # "absent"
  /\ edge[c] \in {"asked", "granted"}
  /\ edge' = [edge EXCEPT ![c] = "withdrawn"]
  /\ UNCHANGED <<consent, status>>

Next ==
  \/ \E cers \in SUBSET Cer : Create(cers)
  \/ \E c \in Cer :
       \/ WithdrawConsent(c)
       \/ \E to \in {"Under review", "Needs info", "Booked", "Closed"} :
            SetStatus(c, to)
       \/ Ask(c)
       \/ \E answer \in {"granted", "declined"} : Answer(c, answer)
       \/ WithdrawEdge(c)

Spec == Init /\ [][Next]_vars

-----------------------------------------------------------------------------

(* What a step of the promise never does: withdrawn consent is given back  *)
(* by nothing and freezes the admin status, and Closed is left by nothing. *)
TerminalKept ==
  \A c \in Cer :
    /\ consent[c] = "withdrawn" =>
         consent'[c] = "withdrawn" /\ status'[c] = status[c]
    /\ status[c] = "Closed" => status'[c] = "Closed"
=============================================================================
