-------------------------- MODULE MCSessionReplyQueue --------------------------
(* Small instances of the session reply queue. *)
EXTENDS SessionReplyQueue, TLC

\* The kinds of the works, in the order they are queued.
OneReply == 1 :> "reply"
TwoReplies == 1 :> "reply" @@ 2 :> "reply"
ConfirmedSummaryReply == 1 :> "confirmed" @@ 2 :> "summary" @@ 3 :> "reply"

\* Worker ids are interchangeable.
ClaimSymmetry == Permutations(Claims)

=============================================================================
