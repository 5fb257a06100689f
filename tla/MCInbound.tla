----------------------------- MODULE MCInbound -----------------------------
(* An instance of Inbound for TLC: two founders forward two senders of one *)
(* domain generator, one mail has no readable sender, and one was not sent *)
(* to the door.                                                            *)
EXTENDS Inbound

CONSTANTS f1, f2, s1, s2, df, d1, d2, sig, sf

Addresses ==
  s1 :> [domain |-> d1, signature |-> sig, shaped |-> TRUE, misnamed |-> TRUE] @@
  s2 :> [domain |-> d2, signature |-> sig, shaped |-> TRUE, misnamed |-> FALSE] @@
  f1 :> [domain |-> df, signature |-> sf, shaped |-> FALSE, misnamed |-> FALSE] @@
  f2 :> [domain |-> df, signature |-> sf, shaped |-> FALSE, misnamed |-> FALSE]

Sent(f, outer, hops) ==
  [to |-> TRUE, forwarder |-> f, outer |-> outer, hops |-> hops,
   replyTo |-> Absent, returnPath |-> df, dkim |-> {df}]

(* A forward, a forward of a forward, no readable sender, and no addressee. *)
MailsSent == <<Sent(f1, f1, <<s1>>), Sent(f2, f2, <<f1, s2>>),
               Sent(f1, Absent, << >>), [Sent(f1, f1, <<s2>>) EXCEPT !.to = FALSE]>>

(* The mail set-up is partly read, and the rest answers; or the domain has *)
(* no mail, and the rest fails.                                            *)
AnswersHeard ==
  {[mx |-> "failed", spf |-> "present", dmarc |-> "none", registration |-> "dated",
    web |-> {TRUE}, claims |-> <<"found", "conflicting">>],
   [mx |-> "none", spf |-> "failed", dmarc |-> "failed", registration |-> "failed",
    web |-> {}, claims |-> Absent]}
=============================================================================
