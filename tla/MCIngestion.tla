---------------------------- MODULE MCIngestion -----------------------------
(***************************************************************************)
(* Constants for TLC: one dispute and a sender that holds a redelivered,   *)
(* reorderable set of events for it.                                       *)
(***************************************************************************)
EXTENDS Ingestion, TLC

CONSTANTS d1, h1, h2

MCDisputes == {d1}

Webhook(id, phase, status, respondBy, stamp, code) ==
  [dispute |-> d1, eventId |-> id, phase |-> phase, status |-> status,
   respondBy |-> respondBy, stamp |-> stamp, code |-> code]

(* The chargeback opens, is won, and comes back at pre-arbitration.        *)
Opened    == Webhook("opened", Chargeback, "open", 10, 1, "fraud")
Won       == Webhook("won", Chargeback, "won", 10, 2, "fraud")
Escalated == Webhook("escalated", PreArbitration, "open", 20, 3, "13.7")
Arbitrated == Webhook("arbitrated", Arbitration, "under_review", 30, 4,
                      "authorization")
LostAgain == Webhook("lost_again", PreArbitration, "lost", 20, 3, "fraud")
(* The opening event under a second id, and one with neither an id nor a   *)
(* timestamp that moves the deadline.                                      *)
OpenedAgain == Webhook("opened_again", Chargeback, "open", 10, 1, "fraud")
Bare        == Webhook("", Chargeback, "open", 12, 0, "13.7")

(* Three events of a sender whose entity.created_at is the creation time   *)
(* of the dispute, hence the same in every event of the dispute.           *)
ReplayEvents ==
  {Opened, OpenedAgain, Webhook("won", Chargeback, "won", 10, 1, "fraud")}

AllEvents  == {Opened, Won, Escalated, Arbitrated, OpenedAgain, Bare}
RaceEvents == {Opened, Won, LostAgain, Arbitrated, Bare}

HandlerSymmetry == Permutations({h1, h2})

=============================================================================
