---------------------------- MODULE DisputeTypes ----------------------------
(***************************************************************************)
(* The vocabulary every component of the dispute back office shares: the   *)
(* dispute phases and statuses (src/common/models_base.py), the reason-    *)
(* code categories (src/common/reason_codes.py), and what a commit of the  *)
(* object-relational session writes (src/common/db.py).                    *)
(***************************************************************************)
EXTENDS Integers, Sequences

(* A phase is its rank: fraud 0, retrieval 1, chargeback 2,                *)
(* pre_arbitration 3, arbitration 4.  phase and phase_rank are always      *)
(* assigned together, so one number stands for both columns.               *)
Fraud          == 0
Retrieval      == 1
Chargeback     == 2
PreArbitration == 3
Arbitration    == 4
Phases == Fraud..Arbitration

Unresolved == {"open", "under_review"}
Terminal   == {"won", "lost", "closed"}
Statuses   == Unresolved \union Terminal

(* A network reason code is abstracted to the category the shared table    *)
(* gives it; every code the table does not list, and a payload without a   *)
(* network, classify as "needs_manual_classification".                     *)
KnownCategories == {"fraud", "authorization", "processing_error",
                    "consumer_dispute"}
Manual     == "needs_manual_classification"
Categories == KnownCategories \union {Manual}
(* Variant a bug could give: the fallback for unlisted codes forgotten.    *)
ClassifyUnchecked(code) == code
Classify(code) == IF code \in KnownCategories THEN code ELSE Manual

(* What one column holds after a session that loaded `was` and left `new`  *)
(* commits over the stored value `now`: the UPDATE names only the columns  *)
(* whose value changed since they were loaded, so a column the session     *)
(* left alone keeps whatever another session put there meanwhile.          *)
Column(was, new, now) == IF new # was THEN new ELSE now

=============================================================================
