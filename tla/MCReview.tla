------------------------------ MODULE MCReview -------------------------------
(***************************************************************************)
(* Constants for TLC: one dispute with a short life, a bundle that passes  *)
(* every gate and one that does not, one trusted account.                  *)
(***************************************************************************)
EXTENDS Review, TLC

CONSTANTS d1, h1, w1, w2, r1, r2

MCDisputes == {d1}

Webhook(id, phase, status, stamp) ==
  [dispute |-> d1, eventId |-> id, phase |-> phase, status |-> status,
   respondBy |-> 10, stamp |-> stamp, code |-> "fraud"]

(* The chargeback opens, is won, comes back at pre-arbitration and then    *)
(* goes to arbitration.                                                    *)
Opened     == Webhook("opened", Chargeback, "open", 1)
Won        == Webhook("won", Chargeback, "won", 2)
Escalated  == Webhook("escalated", PreArbitration, "open", 3)
Arbitrated == Webhook("arbitrated", Arbitration, "open", 4)

FullLife  == {Opened, Won, Escalated, Arbitrated}
(* The first contact may be a dispute already won.                         *)
Reopening  == {Won, Escalated}
LateLife   == {Won, Escalated, Arbitrated}
JustOpened == {Opened}

Complete == [completeness |-> 100, pending |-> FALSE, manual |-> FALSE]
Partial  == [completeness |-> 60, pending |-> FALSE, manual |-> FALSE]

OneBundle  == {Complete}
TwoBundles == {Complete, Partial}

Post(decision, outcome) == [decision |-> decision, outcome |-> outcome]
Plain    == {Post("submit", "none"), Post("decline", "none")}
Closing  == {Post("submit", "none"), Post("decline", "won")}
Careless == Closing \union {Post("request_changes", "unknown")}

WorkerSymmetry == Permutations({w1, w2})

=============================================================================
