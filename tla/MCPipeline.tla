----------------------------- MODULE MCPipeline ------------------------------
(***************************************************************************)
(* Constants for TLC: one dispute whose reason code changes category with  *)
(* each phase, an external store that has every row or only some by the    *)
(* time it is read, and a language model that is silent or claims what may *)
(* not be there.                                                           *)
(***************************************************************************)
EXTENDS Pipeline, TLC

CONSTANTS d1, h1, w1, r1

MCDisputes == {d1}

Webhook(id, phase, status, stamp, code) ==
  [dispute |-> d1, eventId |-> id, phase |-> phase, status |-> status,
   respondBy |-> 10, stamp |-> stamp, code |-> code]

Inquiry   == Webhook("inquiry", Retrieval, "open", 1, "consumer_dispute")
Won       == Webhook("won", Chargeback, "won", 2, "fraud")
Escalated == Webhook("escalated", PreArbitration, "open", 3, "unlisted")

(* Opened, reclassified and won, reopened under a code nobody knows.       *)
Reclassified == {Inquiry, Won, Escalated}
JustOpened   == {Inquiry}

Everything == [available |-> SourceSlots, rows |-> Tables]
(* The availability row promises a shipment that is not there: nothing for *)
(* a consumer dispute, a part of what a fraud needs.                       *)
Something  == [available |-> {"shipping_proof", "activity_log"},
               rows |-> {"orders", "payments"}]
MCRecords  == {Everything, Something}

(* Its claim is true of everything and false of something.                 *)
Silent     == [given |-> FALSE, claims |-> {}]
Claiming   == [given |-> TRUE, claims |-> {"customer_communication"}]
MCAnswers  == {Silent, Claiming}

(* What the scorer may then find: all, a third or none of what is required, *)
(* or a bundle left to a human.                                            *)
View(completeness, pending) ==
  [completeness |-> completeness, pending |-> pending, manual |-> pending]
MCBundles == {View(100, FALSE), View(33, FALSE), View(0, FALSE),
              View(Unmeasured, TRUE)}

Submit == {[decision |-> "submit", outcome |-> "none"]}

=============================================================================
