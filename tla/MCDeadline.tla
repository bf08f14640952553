------------------------------ MODULE MCDeadline -----------------------------
(***************************************************************************)
(* Constants for TLC: two disputes, one of which is won and reopened, and  *)
(* a clock that passes into their windows and beyond their deadlines.      *)
(***************************************************************************)
EXTENDS Deadline, TLC

CONSTANTS d1, d2, h1, s1, s2

Webhook(d, id, phase, status, respondBy, stamp) ==
  [dispute |-> d, eventId |-> id, phase |-> phase, status |-> status,
   respondBy |-> respondBy, stamp |-> stamp, code |-> "fraud"]

Opened    == Webhook(d1, "opened", Chargeback, "open", 50, 1)
Won       == Webhook(d1, "won", Chargeback, "won", 50, 2)
Escalated == Webhook(d1, "escalated", PreArbitration, "open", 110, 3)
Extended  == Webhook(d1, "extended", Chargeback, "open", 110, 2)
Other     == Webhook(d2, "other", Retrieval, "under_review", 10, 1)
(* The same event as a sender has it who knows no deadline.               *)
Undated   == Webhook(d2, "other", Retrieval, "under_review", 0, 1)

OneDispute  == {d1}
TwoDisputes == {d1, d2}
TwoLives    == {Opened, Won, Escalated, Other, Undated}
Moving      == {Opened, Extended}

=============================================================================
