------------------------------ MODULE Evidence -------------------------------
(***************************************************************************)
(* The evidence assembler and the explanation letter (src/evidence) as     *)
(* functions: from a dispute's category, the records of the external       *)
(* store and the language model's answer to the bundle that is persisted.  *)
(***************************************************************************)
EXTENDS DisputeTypes, FiniteSets

(* The slots filled from records; the letter is generated from them.       *)
SourceSlots ==
  {"shipping_proof", "billing_proof", "cancellation_proof",
   "customer_communication", "proof_of_service", "refund_confirmation",
   "activity_log"}

RequiredSlots(category) ==
  [fraud |-> {"billing_proof", "activity_log", "customer_communication"},
   authorization |-> {"activity_log"},
   processing_error |-> {"activity_log", "refund_confirmation"},
   consumer_dispute |->
     {"shipping_proof", "proof_of_service", "customer_communication",
      "refund_confirmation", "cancellation_proof"},
   needs_manual_classification |-> {}][category]

(* What the external store holds for the payment: the slots its            *)
(* availability row names, and the tables with a row for it.  A shipment   *)
(* is reached through the order, an address through the account of either  *)
(* the order or the payment.                                               *)
Tables == {"orders", "payments", "shipments", "communications", "addresses"}
EvidenceRecords ==
  {r \in [available: SUBSET SourceSlots, rows: SUBSET Tables] :
     /\ "shipments" \in r.rows => "orders" \in r.rows
     /\ "addresses" \in r.rows => r.rows \cap {"orders", "payments"} # {}}

(* The tables a slot may be filled from; two slots have none, and the      *)
(* availability row is their record.                                       *)
BackingTables(slot) ==
  [shipping_proof |-> {"shipments"}, proof_of_service |-> {"orders"},
   customer_communication |-> {"communications"},
   billing_proof |-> {"addresses"}, activity_log |-> {"orders", "payments"},
   refund_confirmation |-> {}, cancellation_proof |-> {}][slot]

Extracted(slot, records) ==
  /\ slot \in records.available
  /\ BackingTables(slot) = {} \/ BackingTables(slot) \cap records.rows # {}

SlotStatuses == {"present", "missing", "not_applicable"}

SlotStatus(slot, category, records) ==
  IF slot \notin RequiredSlots(category) THEN "not_applicable"
  ELSE IF Extracted(slot, records) THEN "present" ELSE "missing"

PresentSlots(category, records) ==
  {s \in RequiredSlots(category) : Extracted(s, records)}

(* The letter, always present, is counted with the slots.                  *)
CompletenessOfMutant(category, records) ==
  IF RequiredSlots(category) = {} THEN -1
  ELSE (100 * (Cardinality(PresentSlots(category, records)) + 1))
         \div (Cardinality(RequiredSlots(category)) + 1)

(* Whatever has a record is counted, required or not.                      *)
CompletenessOfAllMutant(category, records) ==
  IF RequiredSlots(category) = {} THEN -1
  ELSE (100 * Cardinality({s \in SourceSlots : Extracted(s, records)}))
         \div Cardinality(RequiredSlots(category))

(* In percent of the required slots, rounded down; -1 when none is.        *)
CompletenessOf(category, records) ==
  IF RequiredSlots(category) = {} THEN -1
  ELSE (100 * Cardinality(PresentSlots(category, records)))
         \div Cardinality(RequiredSlots(category))

AssemblyStatus(category, records) ==
  IF RequiredSlots(category) = {} THEN "pending"
  ELSE IF PresentSlots(category, records) = RequiredSlots(category)
         THEN "complete" ELSE "partial"

-----------------------------------------------------------------------------
(* A letter is abstracted to the slots it makes a claim about: for a text  *)
(* of the model, those one of whose claim keywords it uses.                *)
Letter == [source: {"template", "llm", "none"}, tells: SUBSET SourceSlots]

(* What the language model may answer: nothing, or a text with claims.     *)
ModelAnswer == [given: BOOLEAN, claims: SUBSET SourceSlots]

NoLetter == [source |-> "none", tells |-> {}]

(* One paragraph per present slot that has a fact to tell; the fact of a   *)
(* cancellation proof is always empty.                                     *)
TemplateLetter(present) ==
  [source |-> "template", tells |-> present \ {"cancellation_proof"}]

(* The guard lets any text through.                                        *)
ExplanationLetterMutant(present, answer) ==
  IF answer.given THEN [source |-> "llm", tells |-> answer.claims]
                  ELSE TemplateLetter(present)

(* An answer that claims a slot which is not present is rejected.          *)
ExplanationLetter(present, answer) ==
  IF answer.given /\ answer.claims \subseteq present
    THEN [source |-> "llm", tells |-> answer.claims]
    ELSE TemplateLetter(present)

-----------------------------------------------------------------------------
(* One row of evidence_bundles.  content is the set of slot columns that   *)
(* are not NULL.                                                           *)
EvidenceBundle ==
  [category: Categories, manual: BOOLEAN,
   status: [SourceSlots -> SlotStatuses], content: SUBSET SourceSlots,
   completeness: -1..100, assembly: {"complete", "partial", "pending"},
   letter: Letter]

(* A dispute without a category is not assembled.                          *)
AssembledBundle(category, records, answer) ==
  [category     |-> category,
   manual       |-> RequiredSlots(category) = {},
   status       |-> [s \in SourceSlots |-> SlotStatus(s, category, records)],
   content      |-> PresentSlots(category, records),
   completeness |-> CompletenessOf(category, records),
   assembly     |-> AssemblyStatus(category, records),
   letter       |-> IF RequiredSlots(category) = {} THEN NoLetter
                    ELSE ExplanationLetter(PresentSlots(category, records),
                                           answer)]

(* A bundle after a session that loaded `was` and left `new` commits: each *)
(* slot is a column of its own.                                            *)
MergedBundle(was, new, stored) ==
  [category     |-> Column(was.category, new.category, stored.category),
   manual       |-> Column(was.manual, new.manual, stored.manual),
   status       |-> Column(was.status, new.status, stored.status),
   content      |-> {s \in SourceSlots :
                       Column(s \in was.content, s \in new.content,
                              s \in stored.content)},
   completeness |-> Column(was.completeness, new.completeness,
                           stored.completeness),
   assembly     |-> Column(was.assembly, new.assembly, stored.assembly),
   letter       |-> [source |-> Column(was.letter.source, new.letter.source,
                                       stored.letter.source),
                     tells  |-> Column(was.letter.tells, new.letter.tells,
                                       stored.letter.tells)]]

-----------------------------------------------------------------------------
(* What a bundle has to be, said of its columns alone                      *)
(* (evidence/models.py:58-123, evidence/letter.py:3-7): the content is     *)
(* that of the present slots, the measure and the status follow from the   *)
(* slots, the letter tells of nothing that is not present, and a dispute   *)
(* without a category has no letter and nothing in it.                     *)
Coherent(b) ==
  LET applicable == {s \in SourceSlots : b.status[s] # "not_applicable"} IN
  /\ b.content = {s \in SourceSlots : b.status[s] = "present"}
  /\ b.letter.tells \subseteq b.content
  /\ b.assembly = "complete" <=> b.completeness = 100
  /\ b.completeness = 100 <=> applicable # {} /\ b.content = applicable
  /\ b.completeness = 0 <=> applicable # {} /\ b.content = {}
  /\ b.manual => /\ b.assembly = "pending"
                 /\ b.completeness = -1
                 /\ b.letter.source = "none"
                 /\ applicable = {}
  /\ ~b.manual => b.assembly # "pending" /\ b.letter.source # "none"

=============================================================================
