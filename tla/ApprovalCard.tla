---------------------------- MODULE ApprovalCard ----------------------------
(***************************************************************************)
(* The cards of one browser tab (frontend/src/components/ApprovalCard.tsx) *)
(* composed with the approval endpoints: one card per pending approval of  *)
(* the reply.  A press sends one of the requests of Approvals; the others  *)
(* come from elsewhere, another tab or another device.  The browser learns *)
(* of a request only what its answer says, and an answer may be lost.      *)
(***************************************************************************)
EXTENDS Approvals

VARIABLES
    card,        \* the ApprovalState of a card
    sent,        \* the request whose answer the card awaits
    byCard,      \* the requests the cards have sent
    warned       \* those of them whose card showed an error

cards == <<card, sent, byCard, warned>>
cardVars == <<vars, cards>>

Deciding == {"approving", "rejecting"}
CardState == Deciding \cup {"pending", "approved", "rejected", "processed"}

CardInit ==
    /\ Init
    /\ card = [a \in Actions |-> "pending"]
    /\ sent = [a \in Actions |-> NoRequest]
    /\ byCard = {} /\ warned = {}

\* decide: the buttons are enabled while the card is pending, and it waits for
\* the answer of the request it sends.
Press(a, r) ==
    /\ card[a] = "pending"
    /\ target[r] = a
    /\ Arrive(r)
    /\ card' = [card EXCEPT ![a] =
                    IF kind[r] = "approve" THEN "approving" ELSE "rejecting"]
    /\ sent' = [sent EXCEPT ![a] = r]
    /\ byCard' = byCard \cup {r}
    /\ UNCHANGED warned

\* A card that takes a conflict for the decision it asked for.
MutShownOnConflict(r) ==
    IF reply[r] \in {"200", "409"}
    THEN IF kind[r] = "approve" THEN "approved" ELSE "rejected"
    ELSE "pending"
\* What decide makes of an answer: 200, 409, or an ApiError.
Shown(r) ==
    CASE reply[r] = "200" -> IF kind[r] = "approve" THEN "approved" ELSE "rejected"
      [] reply[r] = "409" -> "processed"
      [] OTHER -> "pending"

\* The card stops waiting, and shows an error if it is pending again.
Settle(a, state) ==
    /\ card' = [card EXCEPT ![a] = state]
    /\ sent' = [sent EXCEPT ![a] = NoRequest]
    /\ warned' = IF state = "pending" THEN warned \cup {sent[a]} ELSE warned
    /\ UNCHANGED <<vars, byCard>>

Answer(a) ==
    /\ sent[a] # NoRequest
    /\ pc[sent[a]] = "done"
    /\ Settle(a, Shown(sent[a]))

\* fetch fails (ApiError 0): the server goes on with a request nobody awaits.
NoAnswer(a) ==
    /\ sent[a] # NoRequest
    /\ Settle(a, "pending")

CardNext ==
    \/ \E a \in Actions :
          \/ \E r \in Requests : Press(a, r)
          \/ Answer(a) \/ NoAnswer(a)
    \/ Next /\ UNCHANGED cards

CardSpec == CardInit /\ [][CardNext]_cardVars

(***************************************************************************)
(* The event loop runs every handler that can go on, every socket operation *)
(* ends in an answer or an error, and the browser runs the continuation of *)
(* an answer.                                                              *)
(***************************************************************************)
FairCardSpec ==
    /\ CardSpec
    /\ \A r \in Requests : WF_cardVars(Handler(r) /\ UNCHANGED cards)
    /\ \A a \in Actions : WF_cardVars(Answer(a))

-----------------------------------------------------------------------------
CardTypeOK ==
    /\ TypeOK
    /\ card \in [Actions -> CardState]
    /\ sent \in [Actions -> Requests \cup {NoRequest}]
    /\ byCard \in SUBSET Requests /\ warned \in SUBSET byCard

(***************************************************************************)
(* A card that shows a decision shows the one that was recorded, whoever   *)
(* else decides; "approved" stands for both outcomes of an approved write. *)
(***************************************************************************)
CardsTellDecision ==
    \A a \in Actions :
        /\ card[a] = "rejected" => approval[a] = "rejected"
        /\ card[a] = "approved" => approval[a] \in {"approved", "failed"}
        /\ card[a] = "processed" => approval[a] # Undecided

(***************************************************************************)
(* A write that a card caused is never hidden behind it: the card still    *)
(* waits for that request, or has shown an error for it, or approved.      *)
(***************************************************************************)
NoSilentWrite ==
    \A r \in byCard : call[r] = "landed" =>
        \/ sent[target[r]] = r
        \/ r \in warned
        \/ card[target[r]] = "approved"

(***************************************************************************)
(* What the cards of a tab say, against the records and against Google.    *)
(***************************************************************************)
CardsAreHonest == CardsTellDecision /\ NoSilentWrite

(***************************************************************************)
(* No card waits for ever, whatever requests race for the row locks.       *)
(***************************************************************************)
CardsSettle ==
    \A a \in Actions : (card[a] \in Deciding) ~> (card[a] \notin Deciding)
=============================================================================
