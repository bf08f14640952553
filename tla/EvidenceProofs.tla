---------------------------- MODULE EvidenceProofs ----------------------------
(***************************************************************************)
(* Theorems about the evidence assembler and the explanation letter, for   *)
(* every category, every content of the external store and every answer of *)
(* the language model.                                                     *)
(***************************************************************************)
EXTENDS Evidence, FiniteSetTheorems, TLAPS

(* A bundle as one assembly builds it: coherent, and without a measure     *)
(* exactly when the category has no required slots.                        *)
WellAssembled(b) ==
  /\ b \in EvidenceBundle
  /\ Coherent(b)
  /\ b.manual <=> b.category = Manual
  /\ b.manual <=> b.completeness = -1

-----------------------------------------------------------------------------
(* There are few slots.                                                    *)
LEMMA SevenSlots ==
  IsFiniteSet(SourceSlots) /\ Cardinality(SourceSlots) <= 7
<1> DEFINE place == [s \in SourceSlots |->
                       CASE s = "shipping_proof" -> 1
                         [] s = "billing_proof" -> 2
                         [] s = "cancellation_proof" -> 3
                         [] s = "customer_communication" -> 4
                         [] s = "proof_of_service" -> 5
                         [] s = "refund_confirmation" -> 6
                         [] s = "activity_log" -> 7]
<1>1. place \in Injection(SourceSlots, 1..7)
  <2>1. place \in [SourceSlots -> 1..7]
    BY DEF SourceSlots
  <2>2. \A s, t \in SourceSlots : place[s] = place[t] => s = t
    BY DEF SourceSlots
  <2> HIDE DEF place
  <2>3. QED
    BY <2>1, <2>2 DEF Injection, IsInjective
<1>2. IsFiniteSet(1..7) /\ Cardinality(1..7) = 7
  <2>1. \A n \in Int : n > 1 => IsFiniteSet(1..n) /\ Cardinality(1..n) = n
    BY FS_Interval
  <2>2. 7 \in Int /\ 7 > 1
    OBVIOUS
  <2>3. QED
    BY <2>1, <2>2, Zenon
<1> HIDE DEF place
<1>3. QED
  BY <1>1, <1>2, FS_Injection

LEMMA RequiredAreSlots ==
  ASSUME NEW category \in Categories
  PROVE  /\ RequiredSlots(category) \subseteq SourceSlots
         /\ RequiredSlots(category) = {} <=> category = Manual
BY DEF Categories, KnownCategories, Manual, RequiredSlots, SourceSlots

(* How many of the required slots are present, and how many there are.     *)
LEMMA PresentCounted ==
  ASSUME NEW category \in Categories, NEW records
  PROVE  LET R == RequiredSlots(category)
             P == PresentSlots(category, records) IN
         /\ P \subseteq R
         /\ Cardinality(R) \in 0..7
         /\ Cardinality(P) \in 0..Cardinality(R)
         /\ Cardinality(R) = 0 <=> R = {}
         /\ Cardinality(P) = 0 <=> P = {}
         /\ Cardinality(P) = Cardinality(R) <=> P = R
<1> DEFINE R == RequiredSlots(category)
           P == PresentSlots(category, records)
<1>1. P \in SUBSET R
  BY DEF PresentSlots
<1>2. R \in SUBSET SourceSlots
  BY RequiredAreSlots
<1> HIDE DEF P, R
<1>3. IsFiniteSet(R) /\ Cardinality(R) <= Cardinality(SourceSlots)
  BY <1>2, SevenSlots, FS_Subset
<1>4. /\ IsFiniteSet(P) /\ Cardinality(P) <= Cardinality(R)
      /\ Cardinality(R) = Cardinality(P) => R = P
  BY <1>1, <1>3, FS_Subset
<1>5. /\ Cardinality(SourceSlots) \in Nat /\ Cardinality(R) \in Nat
      /\ Cardinality(P) \in Nat
  BY <1>3, <1>4, SevenSlots, FS_CardinalityType
<1>6. /\ Cardinality(R) = 0 <=> R = {}
      /\ Cardinality(P) = 0 <=> P = {}
  BY <1>3, <1>4, FS_EmptySet
<1>7. /\ Cardinality(R) \in 0..7 /\ Cardinality(P) \in 0..Cardinality(R)
  BY <1>3, <1>4, <1>5, SevenSlots
<1>8. QED
  BY <1>1, <1>4, <1>6, <1>7 DEF P, R

(* Rounded down, a share of few slots is 0 only for none of them and 100   *)
(* only for all.                                                           *)
LEMMA Percent ==
  ASSUME NEW r \in 1..7, NEW p \in 0..r
  PROVE  /\ (100 * p) \div r \in 0..100
         /\ (100 * p) \div r = 100 <=> p = r
         /\ (100 * p) \div r = 0 <=> p = 0
<1>1. CASE r = 1
  BY <1>1
<1>2. CASE r = 2
  BY <1>2
<1>3. CASE r = 3
  BY <1>3
<1>4. CASE r = 4
  BY <1>4
<1>5. CASE r = 5
  BY <1>5
<1>6. CASE r = 6
  BY <1>6
<1>7. CASE r = 7
  BY <1>7
<1>8. QED
  BY <1>1, <1>2, <1>3, <1>4, <1>5, <1>6, <1>7

LEMMA CompletenessMeasures ==
  ASSUME NEW category \in Categories, NEW records
  PROVE  LET R == RequiredSlots(category)
             P == PresentSlots(category, records)
             c == CompletenessOf(category, records) IN
         /\ c \in -1..100
         /\ c = -1 <=> R = {}
         /\ c = 100 <=> R # {} /\ P = R
         /\ c = 0 <=> R # {} /\ P = {}
<1> DEFINE R == RequiredSlots(category)
           P == PresentSlots(category, records)
           c == CompletenessOf(category, records)
<1>1. CASE R = {}
  BY <1>1 DEF CompletenessOf
<1>2. CASE R # {}
  <2>1. c = (100 * Cardinality(P)) \div Cardinality(R)
    BY <1>2 DEF CompletenessOf
  <2>2. /\ Cardinality(R) \in 1..7 /\ Cardinality(P) \in 0..Cardinality(R)
        /\ Cardinality(P) = 0 <=> P = {}
        /\ Cardinality(P) = Cardinality(R) <=> P = R
    BY <1>2, PresentCounted
  <2> HIDE DEF c, P, R
  <2>3. /\ c \in 0..100
        /\ c = 100 <=> P = R
        /\ c = 0 <=> P = {}
    BY <2>1, <2>2, Percent
  <2>4. QED
    BY <1>2, <2>3 DEF c, P, R
<1>3. QED
  BY <1>1, <1>2

-----------------------------------------------------------------------------
(* The guard on the model's answer: no letter claims what is not present.  *)
LEMMA LetterGuarded ==
  ASSUME NEW present \in SUBSET SourceSlots, NEW answer \in ModelAnswer
  PROVE  LET letter == ExplanationLetter(present, answer) IN
         /\ letter \in Letter
         /\ letter.tells \subseteq present
         /\ letter.source # "none"
BY DEF ExplanationLetter, TemplateLetter, Letter, ModelAnswer

(* Whatever the category of a dispute, whatever the store holds and        *)
(* whatever the language model answers, an assembly builds a coherent      *)
(* bundle: content and measures follow from the slots, and the letter      *)
(* tells of nothing that is not present (assembler.py:306-454,             *)
(* letter.py:212-271).                                                     *)
THEOREM AssemblyCoherent ==
  ASSUME NEW category \in Categories, NEW records \in EvidenceRecords,
         NEW answer \in ModelAnswer
  PROVE  /\ WellAssembled(AssembledBundle(category, records, answer))
         /\ AssembledBundle(category, records, answer).category = category
<1> DEFINE b == AssembledBundle(category, records, answer)
           R == RequiredSlots(category)
           P == PresentSlots(category, records)
<1>1. /\ b.category = category
      /\ b.manual = (R = {})
      /\ b.status = [s \in SourceSlots |-> SlotStatus(s, category, records)]
      /\ b.content = P
      /\ b.completeness = CompletenessOf(category, records)
      /\ b.assembly = AssemblyStatus(category, records)
      /\ b.letter = IF R = {} THEN NoLetter ELSE ExplanationLetter(P, answer)
  BY DEF AssembledBundle
<1>2. /\ R \subseteq SourceSlots /\ P \subseteq R
      /\ R = {} <=> category = Manual
  BY RequiredAreSlots DEF PresentSlots
<1>3. /\ b.completeness \in -1..100
      /\ b.completeness = -1 <=> R = {}
      /\ b.completeness = 100 <=> R # {} /\ P = R
      /\ b.completeness = 0 <=> R # {} /\ P = {}
  BY <1>1, CompletenessMeasures
<1>4. /\ b.letter \in Letter
      /\ b.letter.tells \subseteq P
      /\ b.letter.source = "none" <=> R = {}
  <2>1. CASE R = {}
    BY <1>1, <2>1 DEF NoLetter, Letter
  <2>2. CASE R # {}
    BY <1>1, <1>2, <2>2, LetterGuarded
  <2>3. QED
    BY <2>1, <2>2
<1>5. ASSUME NEW s \in SourceSlots
      PROVE  /\ b.status[s] \in SlotStatuses
             /\ b.status[s] # "not_applicable" <=> s \in R
             /\ b.status[s] = "present" <=> s \in P
  BY <1>1 DEF SlotStatus, SlotStatuses, PresentSlots
<1>6. /\ b.assembly \in {"complete", "partial", "pending"}
      /\ b.assembly = "pending" <=> R = {}
      /\ b.assembly = "complete" <=> R # {} /\ P = R
  BY <1>1 DEF AssemblyStatus
<1>7. b \in EvidenceBundle
  <2>1. b.status \in [SourceSlots -> SlotStatuses]
    BY <1>1, <1>5
  <2>2. b = [category |-> b.category, manual |-> b.manual,
             status |-> b.status, content |-> b.content,
             completeness |-> b.completeness, assembly |-> b.assembly,
             letter |-> b.letter]
    BY DEF AssembledBundle
  <2>3. b.category \in Categories /\ b.manual \in BOOLEAN
        /\ b.content \in SUBSET SourceSlots
    BY <1>1, <1>2
  <2> HIDE DEF b
  <2>4. QED
    BY <1>3, <1>4, <1>6, <2>1, <2>2, <2>3 DEF EvidenceBundle
<1> DEFINE applicable == {s \in SourceSlots : b.status[s] # "not_applicable"}
<1>8. applicable = R /\ b.content = {s \in SourceSlots : b.status[s] = "present"}
  <2> HIDE DEF b, R, P
  <2>1. QED
    BY <1>1, <1>2, <1>5
<1>9. Coherent(b)
  <2> HIDE DEF b, applicable
  <2>1. /\ b.content = {s \in SourceSlots : b.status[s] = "present"}
        /\ b.letter.tells \subseteq b.content
        /\ b.assembly = "complete" <=> b.completeness = 100
        /\ b.completeness = 100 <=> applicable # {} /\ b.content = applicable
        /\ b.completeness = 0 <=> applicable # {} /\ b.content = {}
    BY <1>1, <1>3, <1>4, <1>6, <1>8
  <2>2. b.manual => /\ b.assembly = "pending"
                    /\ b.completeness = -1
                    /\ b.letter.source = "none"
                    /\ applicable = {}
    BY <1>1, <1>3, <1>4, <1>6, <1>8
  <2>3. ~b.manual => b.assembly # "pending" /\ b.letter.source # "none"
    BY <1>1, <1>4, <1>6
  <2>4. QED
    BY <2>1, <2>2, <2>3 DEF Coherent, applicable
<1>10. (b.manual <=> b.category = Manual) /\ (b.manual <=> b.completeness = -1)
  BY <1>1, <1>2, <1>3
<1> HIDE DEF b
<1>11. QED
  BY <1>1, <1>7, <1>9, <1>10 DEF WellAssembled, b

(* A session that commits over the bundle it loaded leaves the one it      *)
(* built, each column of it.                                               *)
LEMMA MergedBundleIdentity ==
  ASSUME NEW was \in EvidenceBundle, NEW new \in EvidenceBundle
  PROVE  MergedBundle(was, new, was) = new
<1>1. \A a, b : Column(a, b, a) = b
  BY DEF Column
<1>2. {s \in SourceSlots : Column(s \in was.content, s \in new.content,
                                  s \in was.content)} = new.content
  <2>1. new.content \subseteq SourceSlots
    BY DEF EvidenceBundle
  <2>2. QED
    <3>1. ASSUME NEW s \in SourceSlots
          PROVE  Column(s \in was.content, s \in new.content,
                        s \in was.content) <=> s \in new.content
      BY DEF Column
    <3>2. QED
      BY <2>1, <3>1
<1>3. [source |-> new.letter.source, tells |-> new.letter.tells] = new.letter
  BY DEF EvidenceBundle, Letter
<1>4. new = [category |-> new.category, manual |-> new.manual,
             status |-> new.status, content |-> new.content,
             completeness |-> new.completeness, assembly |-> new.assembly,
             letter |-> new.letter]
  BY DEF EvidenceBundle
<1>5. MergedBundle(was, new, was) =
        [category |-> new.category, manual |-> new.manual,
         status |-> new.status, content |-> new.content,
         completeness |-> new.completeness, assembly |-> new.assembly,
         letter |-> new.letter]
  BY <1>1, <1>2, <1>3, Zenon DEF MergedBundle
<1>6. QED
  BY <1>4, <1>5

=============================================================================
