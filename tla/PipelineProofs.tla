---------------------------- MODULE PipelineProofs ----------------------------
(***************************************************************************)
(* Theorems about the pipeline, for every set of disputes, events and      *)
(* workers, every content of the external store and every answer of the    *)
(* language model, with failures between any two transactions.             *)
(***************************************************************************)
EXTENDS Pipeline, EvidenceProofs, ReviewSerialProofs

(* What a worker has in hand of an assembly or a run, however the requests *)
(* interleave.  A bundle once stored is never deleted, and the scorer of a *)
(* run is at work only in its second stage.                                *)
RunnerHolds(w) ==
  LET r == runners[w] IN
  r.stage # "idle" =>
    /\ r.dispute \in Disputes
    /\ cases[r.dispute] # NoRow
    /\ r.stage # "read" => r.result \in EvidenceBundle
    /\ r.found # NoRow => evidence[r.dispute] # NoRow
    /\ r.stage # "scoring" => scorers[w].pc = "idle"

(* Whoever assembles works alone.                                          *)
RunnersAlone ==
  \A w \in Scorers : runners[w].stage # "idle" =>
    /\ AllIdle
    /\ \A r \in Reviewers : reviewers[r].pc = "idle"
    /\ \A v \in Scorers : v # w => /\ runners[v].stage = "idle"
                                   /\ scorers[v].pc = "idle"

ScorersRest == \A w \in Scorers : scorers[w].pc = "idle" => scorers[w] = IdleScorer

PipelineTypeInv ==
  /\ evidence \in [Disputes -> EvidenceBundle \union {NoRow}]
  /\ summaries \in [Disputes -> Summary \union {NoRow}]
  /\ runners \in [Scorers -> RunnerState]
  /\ \A w \in Scorers : RunnerHolds(w)
  /\ ScorersRest
  /\ Overlap \/ RunnersAlone

(* A queue entry scored from a bundle, at the phase of the case.           *)
ScoredFrom(e, b, case) ==
  /\ e.phase = case.phase
  /\ e.confidence = -1 <=> b.assembly = "pending"
  /\ "needs_manual_classification" \in e.gates <=> b.manual
  /\ e.queue = "draft_for_submit" => 65 * b.completeness >= 3700

(* Served one at a time, what a worker has in hand is what is stored, and  *)
(* at the end of a run the newest entry is scored from its bundle.         *)
RunnerCurrent(w) ==
  LET r == runners[w]
      d == r.dispute IN
  r.stage # "idle" =>
    /\ r.category = cases[d].category
    /\ r.stage # "read" => WellAssembled(r.result) /\ r.result.category = r.category
    /\ r.stage = "storing" => r.found = evidence[d]
    /\ r.stage \in {"scoring", "summing"} => evidence[d] = r.result
    /\ scorers[w].pc # "idle" => scorers[w].dispute = d
    /\ r.stage = "summing" =>
         /\ queue[d] # <<>>
         /\ ScoredFrom(queue[d][Len(queue[d])], r.result, cases[d])

BundlesSeen ==
  bundles = [d \in Disputes |-> IF evidence[d] = NoRow THEN NoRow
                                ELSE ScoringView(evidence[d])]

PipelineSerialInv ==
  /\ \A d \in Disputes : evidence[d] # NoRow => WellAssembled(evidence[d])
  /\ BundlesSeen
  /\ \A w \in Scorers : RunnerCurrent(w)

PipelineInv == ReviewInv /\ PipelineTypeInv

-----------------------------------------------------------------------------
(* The rows that an assembly and a run build are rows of their tables.     *)
LEMMA MergedBundleType ==
  ASSUME NEW was \in EvidenceBundle, NEW new \in EvidenceBundle,
         NEW stored \in EvidenceBundle
  PROVE  MergedBundle(was, new, stored) \in EvidenceBundle
BY DEF MergedBundle, Column, EvidenceBundle, Letter

LEMMA ViewTypes ==
  ASSUME NEW b \in EvidenceBundle
  PROVE  ScoringView(b) \in Bundle /\ SummaryOf(b) \in Summary
<1>1. /\ b.completeness \in -1..100 /\ b.manual \in BOOLEAN
      /\ b.assembly \in {"complete", "partial", "pending"}
      /\ b.status \in [SourceSlots -> SlotStatuses]
      /\ b.letter.source \in {"template", "llm", "none"}
  BY DEF EvidenceBundle, Letter
<1>2. b.completeness \in 0..100 \union {Unmeasured}
  BY <1>1 DEF Unmeasured
<1>3. QED
  BY <1>1, <1>2 DEF ScoringView, Bundle, SummaryOf, Summary

(* An entry scored from what a well assembled bundle shows of itself.      *)
LEMMA ScoredFromBundle ==
  ASSUME NEW si \in ScoreInputs, NEW t \in Nat, NEW dispatched \in BOOLEAN,
         NEW superseded \in BOOLEAN, NEW b, NEW case,
         WellAssembled(b), si.bundle = ScoringView(b),
         si.phase = case.phase,
         si.manual <=> case.category = Manual,
         b.category = case.category
  PROVE  ScoredFrom(ScoredEntry(si, t, dispatched, superseded), b, case)
<1> DEFINE e == ScoredEntry(si, t, dispatched, superseded)
           view == ScoringView(b)
<1>1. /\ e.queue = QueueFor(HardGates(si, t), Confidence(si))
      /\ e.gates = HardGates(si, t)
      /\ e.confidence = Confidence(si)
      /\ e.phase = si.phase
  BY DEF ScoredEntry
<1> HIDE DEF e
<1>2. /\ b \in EvidenceBundle /\ b.manual \in BOOLEAN
      /\ b.completeness \in -1..100
      /\ b.manual <=> b.category = Manual
      /\ b.manual <=> b.completeness = -1
      /\ b.assembly = "pending" <=> b.manual
  BY DEF WellAssembled, Coherent, EvidenceBundle
<1>3. /\ view.completeness = b.completeness /\ view.manual = b.manual
      /\ view # NoRow
  <2>1. view \in Bundle
    BY <1>2, ViewTypes
  <2>2. QED
    BY <2>1, NoBundleAssumption DEF ScoringView
<1>4. Completeness(si) = b.completeness
  BY <1>3 DEF Completeness
<1>5. RiskFactor(si) \in 0..100
  BY NoBundleAssumption DEF RiskFactor, ScoreInputs
<1>6. /\ Confidence(si) = -1 <=> b.manual
      /\ Confidence(si) >= ConfidenceThreshold => 65 * b.completeness >= 3700
  BY <1>2, <1>4, <1>5 DEF Confidence, Unmeasured, ConfidenceThreshold
<1>7. "needs_manual_classification" \in HardGates(si, t) <=> b.manual
  <2>1. GateFires(si, t)["needs_manual_classification"] <=> b.manual
    <3>1. GateFires(si, t)["needs_manual_classification"] =
            (si.manual \/ (si.bundle # NoRow /\ si.bundle.manual))
      BY DEF GateFires
    <3>2. QED
      BY <1>2, <1>3, <3>1
  <2>2. QED
    BY <2>1 DEF HardGates, GateNames
<1>8. QED
  BY <1>1, <1>2, <1>6, <1>7 DEF ScoredFrom, QueueFor, e

-----------------------------------------------------------------------------
(* No step of Review deletes a case.                                       *)
LEMMA CasesKept ==
  ASSUME ReviewInv, [ReviewNext]_allVars, NEW d \in Disputes, cases[d] # NoRow
  PROVE  cases'[d] # NoRow
<1>1. CASE [Next]_ingestVars
  BY <1>1, TrailStep, NoRowAssumption DEF ReviewInv
<1>2. ASSUME NEW r \in Reviewers, CommitReview(r)
      PROVE  cases'[d] # NoRow
  <2> DEFINE v == reviewers[r]
             left == Column(v.case.status,
                            StatusAfter(v.decision, v.case.status),
                            cases[v.dispute].status)
             case == [cases[v.dispute] EXCEPT !.status = left]
  <2>1. v.dispute \in Disputes /\ v.case \in CaseRow /\ cases[v.dispute] # NoRow
    BY <1>2 DEF CommitReview, ReviewInv, WorkersHold, ReviewerHolds
  <2>2. cases[v.dispute] \in CaseRow
    BY <2>1 DEF ReviewInv, TypeInv, TypeOK
  <2>3. left \in Statuses
    BY <2>1, <2>2 DEF Column, StatusAfter, CaseRow, Statuses, Unresolved
  <2>4. cases' = [cases EXCEPT ![v.dispute] = case]
    BY <1>2 DEF CommitReview
  <2> HIDE DEF left
  <2>5. case \in CaseRow
    BY <2>2, <2>3 DEF CaseRow
  <2>6. cases \in [Disputes -> CaseRow \union {NoRow}]
    BY DEF ReviewInv, TypeInv, TypeOK
  <2> HIDE DEF case
  <2>7. QED
    BY <2>1, <2>4, <2>5, <2>6, NoRowAssumption
<1>3. \/ [Next]_ingestVars
      \/ \E r \in Reviewers : CommitReview(r)
  BY DEF ReviewNext, ScorerStep, ReviewerStep, StartScoring, FinishInputs,
     LoadActive, RouteFirst, RouteAgain, RouteReopened, CommitRoute,
     RouteConflict, ScoringAbort, OpenReview, LoadEntry, ReviewAbort,
     LoadOutcome, RefuseOutcome, LogOutcome, Assemble, MeasureRisk, Tick,
     Ingest, allVars, ingestVars
<1>4. QED
  BY <1>1, <1>2, <1>3

(* A step of a scorer moves that scorer alone, and to rest with nothing in *)
(* hand; while it is at work it stays with its dispute.                    *)
LEMMA ScorerStepMoves ==
  ASSUME ReviewInv, NEW w \in Scorers, ScorerStep(w)
  PROVE  /\ \A v \in Scorers : v # w => scorers'[v] = scorers[v]
         /\ scorers'[w].pc = "idle" => scorers'[w] = IdleScorer
         /\ UNCHANGED <<ingestVars, bundles, profiles, reviewers, now>>
<1>1. scorers \in [Scorers -> ScorerState] /\ scorers[w] \in ScorerState
  BY DEF ReviewInv, ReviewTypeOK
<1>2. ASSUME NEW state, ScorerMoves(w, state),
             state.pc = "idle" => state = IdleScorer
      PROVE  /\ \A v \in Scorers : v # w => scorers'[v] = scorers[v]
             /\ scorers'[w].pc = "idle" => scorers'[w] = IdleScorer
             /\ UNCHANGED <<reviewers, now>>
  BY <1>1, <1>2 DEF ScorerMoves
<1>3. UNCHANGED <<ingestVars, bundles, profiles>>
  BY DEF ScorerStep, StartScoring, FinishInputs, LoadActive, RouteFirst,
     RouteAgain, RouteReopened, CommitRoute, RouteConflict, ScoringAbort, tables
<1>4. PICK state : ScorerMoves(w, state) /\ (state.pc = "idle" => state = IdleScorer)
  <2>1. ASSUME NEW d \in Disputes, StartScoring(w, d)
        PROVE  \E state : /\ ScorerMoves(w, state)
                          /\ state.pc = "idle" => state = IdleScorer
    <3>1. PICK si : ScorerMoves(w, [IdleScorer EXCEPT !.pc = "loaded",
                      !.dispute = d, !.at = now, !.inputs = si])
      BY <2>1, Zenon DEF StartScoring
    <3>2. [IdleScorer EXCEPT !.pc = "loaded", !.dispute = d, !.at = now,
                             !.inputs = si].pc = "loaded"
      BY DEF IdleScorer
    <3>3. QED
      BY <3>1, <3>2
  <2>2. CASE FinishInputs(w)
    <3>1. PICK si : ScorerMoves(w, [scorers[w] EXCEPT !.pc = "scored",
                                                      !.inputs = si])
      BY <2>2 DEF FinishInputs
    <3>2. [scorers[w] EXCEPT !.pc = "scored", !.inputs = si].pc = "scored"
      BY <1>1 DEF ScorerState
    <3>3. QED
      BY <3>1, <3>2
  <2>3. CASE LoadActive(w)
    <3>1. PICK g, entry, reenters :
            ScorerMoves(w, [scorers[w] EXCEPT !.pc = "routing",
              !.generation = g, !.entry = entry, !.reenters = reenters])
      BY <2>3, Zenon DEF LoadActive
    <3>2. [scorers[w] EXCEPT !.pc = "routing", !.generation = g,
             !.entry = entry, !.reenters = reenters].pc = "routing"
      BY <1>1 DEF ScorerState
    <3>3. QED
      BY <3>1, <3>2
  <2>4. CASE ScorerMoves(w, IdleScorer)
    BY <2>4
  <2>5. QED
    BY <2>1, <2>2, <2>3, <2>4 DEF ScorerStep, RouteFirst, RouteAgain,
       RouteReopened, CommitRoute, RouteConflict, ScoringAbort
<1>5. QED
  BY <1>2, <1>3, <1>4

(* The scorer's part of a run is a scorer's step.                          *)
LEMMA ScoreForms ==
  ASSUME PipelineTypeInv, NEW w \in Scorers, Score(w)
  PROVE  /\ runners[w].stage = "scoring" /\ UNCHANGED <<evidence, summaries>>
         /\ ScorerStep(w)
         /\ \/ /\ scorers[w].pc = "idle"
               /\ StartScoring(w, runners[w].dispute)
               /\ UNCHANGED runners
            \/ (FinishInputs(w) \/ LoadActive(w)) /\ UNCHANGED runners
            \/ /\ RouteFirst(w) \/ RouteAgain(w) \/ RouteReopened(w)
               /\ runners' = [runners EXCEPT ![w].stage = "summing"]
<1>1. /\ runners[w].stage = "scoring" /\ UNCHANGED <<evidence, summaries>>
      /\ \/ /\ scorers[w].pc = "idle"
            /\ StartScoring(w, runners[w].dispute)
            /\ UNCHANGED runners
         \/ (FinishInputs(w) \/ LoadActive(w)) /\ UNCHANGED runners
         \/ /\ RouteFirst(w) \/ RouteAgain(w) \/ RouteReopened(w)
            /\ runners' = [runners EXCEPT ![w].stage = "summing"]
  BY DEF Score
<1>2. runners[w].dispute \in Disputes
  BY <1>1 DEF PipelineTypeInv, RunnerHolds
<1>3. QED
  BY <1>1, <1>2 DEF ScorerStep

-----------------------------------------------------------------------------
(* A worker's step on its assembly or run, given that what it has in hand  *)
(* then holds.                                                             *)
LEMMA RunnerActs ==
  ASSUME PipelineTypeInv, NEW w \in Scorers, NEW state \in RunnerState,
         runners' = [runners EXCEPT ![w] = state],
         UNCHANGED <<ingestVars, reviewers>>,
         \A v \in Scorers : v # w => scorers'[v] = scorers[v],
         scorers'[w].pc = "idle" => scorers'[w] = IdleScorer,
         evidence' \in [Disputes -> EvidenceBundle \union {NoRow}],
         \A d \in Disputes : evidence[d] # NoRow => evidence'[d] # NoRow,
         summaries' \in [Disputes -> Summary \union {NoRow}],
         \/ runners[w].stage # "idle"
         \/ MayStart /\ (Overlap \/ RunnersIdle),
         RunnerHolds(w)'
  PROVE  PipelineTypeInv'
<1>1. UNCHANGED <<cases, handlers, reviewers>>
  BY DEF ingestVars
<1>2. /\ runners \in [Scorers -> RunnerState]
      /\ runners' \in [Scorers -> RunnerState]
      /\ \A v \in Scorers : v # w => runners'[v] = runners[v]
  BY DEF PipelineTypeInv
<1>3. ASSUME NEW v \in Scorers, v # w
      PROVE  RunnerHolds(v)'
  BY <1>1, <1>2, <1>3 DEF PipelineTypeInv, RunnerHolds
<1>4. ScorersRest'
  BY DEF PipelineTypeInv, ScorersRest
<1>5. ASSUME ~Overlap
      PROVE  RunnersAlone'
  <2>1. /\ AllIdle
        /\ \A r \in Reviewers : reviewers[r].pc = "idle"
        /\ \A v \in Scorers : v # w => /\ runners[v].stage = "idle"
                                       /\ scorers[v].pc = "idle"
    BY <1>5 DEF PipelineTypeInv, RunnersAlone, MayStart, WorkersIdle,
                RunnersIdle
  <2>2. QED
    BY <1>1, <1>2, <2>1 DEF RunnersAlone, AllIdle
<1>6. QED
  BY <1>2, <1>3, <1>4, <1>5 DEF PipelineTypeInv

LEMMA IdleRunnerFacts ==
  /\ IdleRunner \in RunnerState /\ IdleRunner.stage = "idle"
  /\ IdleRunner.found = NoRow
BY DEF IdleRunner, RunnerState, Categories

LEMMA RunnerTypes ==
  ASSUME PipelineTypeInv, NEW w \in Scorers, runners[w].stage # "idle"
  PROVE  /\ runners[w] \in RunnerState
         /\ runners[w].dispute \in Disputes
         /\ cases[runners[w].dispute] # NoRow
         /\ runners[w].category \in Categories
         /\ evidence[runners[w].dispute] \in EvidenceBundle \union {NoRow}
BY DEF PipelineTypeInv, RunnerHolds, RunnerState

LEMMA StartAssemblyType ==
  ASSUME PipelineInv, NEW w \in Scorers, NEW d \in Disputes,
         NEW whole \in BOOLEAN, StartAssembly(w, d, whole)
  PROVE  PipelineTypeInv'
<1> DEFINE state == [IdleRunner EXCEPT
                       !.stage = "read", !.whole = whole, !.dispute = d,
                       !.category = cases[d].category]
<1>1. cases[d] \in CaseRow
  BY DEF StartAssembly, PipelineInv, ReviewInv, TypeInv, TypeOK
<1>2. /\ runners' = [runners EXCEPT ![w] = state]
      /\ scorers[w].pc = "idle" /\ MayStart /\ (Overlap \/ RunnersIdle)
      /\ UNCHANGED <<ingestVars, reviewers, scorers, evidence, summaries>>
      /\ state = [IdleRunner EXCEPT
                    !.stage = "read", !.whole = whole, !.dispute = d,
                    !.category = cases[d].category]
  BY DEF StartAssembly, RunnerMoves
<1> HIDE DEF state
<1>3. state = [stage |-> "read", whole |-> whole, dispute |-> d,
               category |-> cases[d].category, found |-> NoRow,
               result |-> NoRow]
  BY <1>2 DEF IdleRunner
<1>4. state \in RunnerState
  BY <1>1, <1>3 DEF RunnerState, CaseRow
<1>5. runners'[w] = state
  BY <1>2 DEF PipelineInv, PipelineTypeInv
<1>6. RunnerHolds(w)'
  <2>1. state.stage = "read" /\ state.dispute = d /\ state.found = NoRow
    BY <1>3
  <2>2. cases'[d] # NoRow /\ scorers'[w].pc = "idle"
    BY <1>1, <1>2, NoRowAssumption DEF ingestVars
  <2>3. QED
    BY <1>5, <2>1, <2>2 DEF RunnerHolds
<1>7. QED
  BY <1>2, <1>4, <1>6, RunnerActs DEF PipelineInv, PipelineTypeInv, ScorersRest

LEMMA BuildBundleType ==
  ASSUME PipelineInv, NEW w \in Scorers, BuildBundle(w)
  PROVE  PipelineTypeInv'
<1> DEFINE r == runners[w]
<1>1. PICK records \in Records, answer \in Answers :
        RunnerMoves(w, [r EXCEPT
          !.stage = "storing", !.found = evidence[r.dispute],
          !.result = AssembledBundle(r.category, records, answer)])
  BY DEF BuildBundle
<1>2. /\ r \in RunnerState /\ r.stage = "read" /\ r.dispute \in Disputes
      /\ cases[r.dispute] # NoRow /\ r.category \in Categories
      /\ evidence[r.dispute] \in EvidenceBundle \union {NoRow}
  BY RunnerTypes DEF BuildBundle, PipelineInv
<1> DEFINE result == AssembledBundle(r.category, records, answer)
           state == [r EXCEPT !.stage = "storing",
                              !.found = evidence[r.dispute],
                              !.result = result]
<1>3. result \in EvidenceBundle
  <2>1. records \in EvidenceRecords /\ answer \in ModelAnswer
    BY RecordsAssumption, AnswersAssumption
  <2>2. QED
    BY <1>2, <2>1, AssemblyCoherent DEF WellAssembled
<1>4. /\ runners' = [runners EXCEPT ![w] = state]
      /\ UNCHANGED <<ingestVars, reviewers, scorers, evidence, summaries>>
      /\ state = [r EXCEPT !.stage = "storing",
                           !.found = evidence[r.dispute], !.result = result]
  BY <1>1 DEF BuildBundle, RunnerMoves
<1> HIDE DEF result, state
<1>5. state = [stage |-> "storing", whole |-> r.whole, dispute |-> r.dispute,
               category |-> r.category, found |-> evidence[r.dispute],
               result |-> result]
  BY <1>2, <1>4 DEF RunnerState
<1>6. state \in RunnerState
  BY <1>2, <1>3, <1>5 DEF RunnerState
<1>7. runners'[w] = state
  BY <1>4 DEF PipelineInv, PipelineTypeInv
<1>8. scorers[w].pc = "idle"
  BY <1>2 DEF PipelineInv, PipelineTypeInv, RunnerHolds
<1>9. RunnerHolds(w)'
  BY <1>2, <1>3, <1>4, <1>5, <1>7, <1>8 DEF RunnerHolds, ingestVars
<1>10. QED
  BY <1>2, <1>4, <1>6, <1>9, RunnerActs
     DEF PipelineInv, PipelineTypeInv, ScorersRest

(* The upsert, seen from the scorer's side.                                *)
LEMMA StoreEffect ==
  ASSUME PipelineInv, NEW w \in Scorers, StoreBundle(w)
  PROVE  LET r == runners[w]
             stored == StoredBundle(r.found, r.result, evidence[r.dispute]) IN
         /\ r \in RunnerState /\ r.stage = "storing"
         /\ r.dispute \in Disputes /\ cases[r.dispute] # NoRow
         /\ r.result \in EvidenceBundle
         /\ stored \in EvidenceBundle
         /\ scorers[w].pc = "idle"
         /\ evidence' = [evidence EXCEPT ![r.dispute] = stored]
         /\ bundles' = [bundles EXCEPT ![r.dispute] = ScoringView(stored)]
         /\ runners' = [runners EXCEPT ![w] =
              IF r.whole THEN [r EXCEPT !.stage = "scoring"] ELSE IdleRunner]
         /\ UNCHANGED <<ingestVars, profiles, queue, advice, decisions,
                        outcomes, scorers, reviewers, now, summaries>>
<1> DEFINE r == runners[w]
           stored == StoredBundle(r.found, r.result, evidence[r.dispute])
<1>1. /\ r \in RunnerState /\ r.stage = "storing" /\ r.dispute \in Disputes
      /\ cases[r.dispute] # NoRow
      /\ evidence[r.dispute] \in EvidenceBundle \union {NoRow}
  BY RunnerTypes DEF StoreBundle, PipelineInv
<1>2. /\ r.result \in EvidenceBundle /\ scorers[w].pc = "idle"
      /\ r.found # NoRow => evidence[r.dispute] # NoRow
  BY <1>1 DEF PipelineInv, PipelineTypeInv, RunnerHolds
<1>3. stored \in EvidenceBundle
  <2>1. CASE r.found = NoRow
    BY <1>2, <2>1 DEF StoredBundle
  <2>2. CASE r.found # NoRow
    <3>1. r.found \in EvidenceBundle /\ evidence[r.dispute] \in EvidenceBundle
      BY <1>1, <1>2, <2>2 DEF RunnerState
    <3>2. QED
      BY <1>2, <2>2, <3>1, MergedBundleType DEF StoredBundle
  <2>3. QED
    BY <2>1, <2>2
<1>4. /\ evidence' = [evidence EXCEPT ![r.dispute] = stored]
      /\ bundles' = [bundles EXCEPT ![r.dispute] = ScoringView(stored)]
      /\ runners' = [runners EXCEPT ![w] =
           IF r.whole THEN [r EXCEPT !.stage = "scoring"] ELSE IdleRunner]
      /\ UNCHANGED <<ingestVars, profiles, queue, advice, decisions,
                     outcomes, scorers, reviewers, now, summaries>>
  BY DEF StoreBundle, RunnerMoves
<1>5. QED
  BY <1>1, <1>2, <1>3, <1>4

LEMMA StoreBundleType ==
  ASSUME PipelineInv, NEW w \in Scorers, StoreBundle(w)
  PROVE  PipelineTypeInv'
<1> DEFINE r == runners[w]
           stored == StoredBundle(r.found, r.result, evidence[r.dispute])
           state == IF r.whole THEN [r EXCEPT !.stage = "scoring"]
                    ELSE IdleRunner
<1>1. /\ r \in RunnerState /\ r.stage = "storing"
      /\ r.dispute \in Disputes /\ cases[r.dispute] # NoRow
      /\ r.result \in EvidenceBundle
      /\ stored \in EvidenceBundle
      /\ scorers[w].pc = "idle"
      /\ evidence' = [evidence EXCEPT ![r.dispute] = stored]
      /\ runners' = [runners EXCEPT ![w] = state]
      /\ UNCHANGED <<ingestVars, scorers, reviewers, summaries>>
  BY StoreEffect
<1> HIDE DEF stored
<1>2. /\ state \in RunnerState
      /\ state.stage # "idle" => state = [r EXCEPT !.stage = "scoring"]
  BY <1>1, IdleRunnerFacts DEF RunnerState
<1>3. [r EXCEPT !.stage = "scoring"].dispute = r.dispute
      /\ [r EXCEPT !.stage = "scoring"].result = r.result
      /\ [r EXCEPT !.stage = "scoring"].stage = "scoring"
  BY <1>1 DEF RunnerState
<1> HIDE DEF state
<1>4. runners'[w] = state
  BY <1>1 DEF PipelineInv, PipelineTypeInv
<1>5. /\ evidence' \in [Disputes -> EvidenceBundle \union {NoRow}]
      /\ evidence'[r.dispute] = stored
      /\ \A d \in Disputes : evidence[d] # NoRow => evidence'[d] # NoRow
  BY <1>1, NoEvidenceAssumption DEF PipelineInv, PipelineTypeInv
<1>6. evidence'[r.dispute] # NoRow
  BY <1>1, <1>5, NoEvidenceAssumption
<1>7. RunnerHolds(w)'
  BY <1>1, <1>2, <1>3, <1>4, <1>6 DEF RunnerHolds, ingestVars
<1>8. QED
  BY <1>1, <1>2, <1>5, <1>7, RunnerActs
     DEF PipelineInv, PipelineTypeInv, ScorersRest

LEMMA ScoreType ==
  ASSUME PipelineInv, NEW w \in Scorers, Score(w)
  PROVE  PipelineTypeInv'
<1> DEFINE r == runners[w]
           done == [r EXCEPT !.stage = "summing"]
<1>1. /\ r.stage = "scoring" /\ UNCHANGED <<evidence, summaries>>
      /\ ScorerStep(w)
  BY ScoreForms DEF PipelineInv
<1>2. /\ r \in RunnerState /\ r.dispute \in Disputes
      /\ cases[r.dispute] # NoRow /\ r.result \in EvidenceBundle
      /\ r.found # NoRow => evidence[r.dispute] # NoRow
  BY <1>1 DEF PipelineInv, PipelineTypeInv, RunnerHolds
<1>3. /\ \A v \in Scorers : v # w => scorers'[v] = scorers[v]
      /\ scorers'[w].pc = "idle" => scorers'[w] = IdleScorer
      /\ UNCHANGED <<ingestVars, reviewers>>
  BY <1>1, ScorerStepMoves DEF PipelineInv
<1>4. /\ done \in RunnerState /\ done.stage = "summing"
      /\ done.dispute = r.dispute /\ done.result = r.result
      /\ done.found = r.found
  BY <1>2 DEF RunnerState
<1> HIDE DEF done
<1>5. \/ runners' = [runners EXCEPT ![w] = r]
      \/ runners' = [runners EXCEPT ![w] = done] /\ scorers'[w].pc = "idle"
  <2>1. CASE UNCHANGED runners
    BY <2>1 DEF PipelineInv, PipelineTypeInv
  <2>2. CASE /\ RouteFirst(w) \/ RouteAgain(w) \/ RouteReopened(w)
             /\ runners' = [runners EXCEPT ![w].stage = "summing"]
    <3>1. ScorerMoves(w, IdleScorer)
      BY <2>2 DEF RouteFirst, RouteAgain, RouteReopened, CommitRoute
    <3>2. scorers'[w].pc = "idle"
      BY <3>1 DEF ScorerMoves, IdleScorer, PipelineInv, ReviewInv, ReviewTypeOK
    <3>3. QED
      BY <2>2, <3>2 DEF done
  <2>3. QED
    BY <2>1, <2>2, ScoreForms DEF PipelineInv
<1>6. ASSUME NEW state \in RunnerState,
             state.dispute = r.dispute, state.result = r.result,
             state.found = r.found,
             state.stage # "scoring" => scorers'[w].pc = "idle",
             runners' = [runners EXCEPT ![w] = state]
      PROVE  PipelineTypeInv'
  <2>1. runners'[w] = state
    BY <1>6 DEF PipelineInv, PipelineTypeInv
  <2>2. RunnerHolds(w)'
    BY <1>1, <1>2, <1>3, <1>6, <2>1 DEF RunnerHolds, ingestVars
  <2>3. QED
    BY <1>1, <1>2, <1>3, <1>6, <2>2, RunnerActs DEF PipelineInv, PipelineTypeInv
<1>7. QED
  BY <1>1, <1>2, <1>4, <1>5, <1>6

LEMMA SummariseType ==
  ASSUME PipelineInv, NEW w \in Scorers, Summarise(w)
  PROVE  PipelineTypeInv'
<1> DEFINE r == runners[w]
<1>1. /\ r.stage = "summing" /\ r.dispute \in Disputes
      /\ r.result \in EvidenceBundle
  BY DEF Summarise, PipelineInv, PipelineTypeInv, RunnerHolds
<1>2. /\ summaries' = [summaries EXCEPT ![r.dispute] = SummaryOf(r.result)]
      /\ runners' = [runners EXCEPT ![w] = IdleRunner]
      /\ UNCHANGED <<ingestVars, reviewers, evidence, scorers>>
  BY DEF Summarise, RunnerMoves
<1>3. summaries' \in [Disputes -> Summary \union {NoRow}]
  BY <1>1, <1>2, ViewTypes DEF PipelineInv, PipelineTypeInv
<1>4. runners'[w] = IdleRunner
  BY <1>2 DEF PipelineInv, PipelineTypeInv
<1>5. RunnerHolds(w)'
  BY <1>4, IdleRunnerFacts DEF RunnerHolds
<1>6. QED
  BY <1>1, <1>2, <1>3, <1>5, IdleRunnerFacts, RunnerActs
     DEF PipelineInv, PipelineTypeInv, ScorersRest

LEMMA FailType ==
  ASSUME PipelineInv, NEW w \in Scorers, Fail(w)
  PROVE  PipelineTypeInv'
<1>1. /\ runners[w].stage # "idle"
      /\ runners' = [runners EXCEPT ![w] = IdleRunner]
      /\ scorers' = [scorers EXCEPT ![w] = IdleScorer]
      /\ UNCHANGED <<ingestVars, reviewers, evidence, summaries>>
  BY DEF Fail, RunnerMoves
<1>2. runners'[w] = IdleRunner /\ scorers'[w] = IdleScorer
  BY <1>1 DEF PipelineInv, PipelineTypeInv, ReviewInv, ReviewTypeOK
<1>3. RunnerHolds(w)'
  BY <1>2, IdleRunnerFacts DEF RunnerHolds
<1>4. \A v \in Scorers : v # w => scorers'[v] = scorers[v]
  BY <1>1 DEF PipelineInv, ReviewInv, ReviewTypeOK
<1>5. QED
  BY <1>1, <1>2, <1>3, <1>4, IdleRunnerFacts, RunnerActs
     DEF PipelineInv, PipelineTypeInv

(* The requests of the other components, and the clock.                    *)
LEMMA ElsewhereType ==
  ASSUME PipelineInv, Elsewhere \/ (Tick /\ UNCHANGED pipelineVars)
                      \/ UNCHANGED systemVars
  PROVE  PipelineTypeInv'
<1>1. UNCHANGED <<evidence, summaries, runners>>
  BY DEF Elsewhere, systemVars, pipelineVars
<1>2. [ReviewNext]_allVars
  BY DEF Elsewhere, ReviewNext, systemVars
<1>3. \A d \in Disputes : cases[d] # NoRow => cases'[d] # NoRow
  BY <1>2, CasesKept DEF PipelineInv
<1>4. /\ \A v \in Scorers : runners[v].stage # "idle" =>
           scorers'[v] = scorers[v]
      /\ \A v \in Scorers :
           scorers'[v] = scorers[v]
             \/ (scorers'[v].pc = "idle" => scorers'[v] = IdleScorer)
  <2>1. CASE scorers' = scorers
    BY <2>1
  <2>2. ASSUME NEW w \in Scorers, runners[w].stage = "idle", ScorerStep(w)
        PROVE  /\ \A v \in Scorers : runners[v].stage # "idle" =>
                    scorers'[v] = scorers[v]
               /\ \A v \in Scorers :
                    scorers'[v] = scorers[v]
                      \/ (scorers'[v].pc = "idle" => scorers'[v] = IdleScorer)
    BY <2>2, ScorerStepMoves DEF PipelineInv
  <2>3. \/ scorers' = scorers
        \/ \E w \in Scorers : runners[w].stage = "idle" /\ ScorerStep(w)
    BY DEF Elsewhere, Ingest, ReviewerStep, OpenReview, LoadEntry, CommitReview,
       LoadOutcome, RefuseOutcome, LogOutcome, ReviewAbort, ReviewerMoves,
       MeasureRisk, Tick, systemVars, allVars, reviewVars
  <2>4. QED
    BY <2>1, <2>2, <2>3
<1>5. ASSUME NEW w \in Scorers
      PROVE  RunnerHolds(w)'
  BY <1>1, <1>3, <1>4 DEF PipelineInv, PipelineTypeInv, RunnerHolds
<1>6. ScorersRest'
  BY <1>4 DEF PipelineInv, PipelineTypeInv, ScorersRest
<1>7. ASSUME ~Overlap
      PROVE  RunnersAlone'
  <2>1. RunnersIdle \/ UNCHANGED <<handlers, scorers, reviewers, runners>>
    BY <1>7 DEF Elsewhere, Tick, systemVars, allVars, reviewVars, pipelineVars,
       ingestVars
  <2>2. QED
    BY <1>1, <1>7, <2>1
       DEF PipelineInv, PipelineTypeInv, RunnersAlone, RunnersIdle, AllIdle
<1>8. QED
  BY <1>1, <1>5, <1>6, <1>7 DEF PipelineInv, PipelineTypeInv

LEMMA PipelineTypeStep ==
  ASSUME PipelineInv, [PipelineNext]_systemVars
  PROVE  PipelineTypeInv'
BY ElsewhereType, StartAssemblyType, BuildBundleType, StoreBundleType,
   ScoreType, SummariseType, FailType DEF PipelineNext, RunnerStep

-----------------------------------------------------------------------------
(* Without the assembler's own state, each step is one of Review, but for  *)
(* the bundle that the upsert leaves.                                      *)
LEMMA SeenFromReview ==
  ASSUME PipelineInv, [PipelineNext]_systemVars
  PROVE  [ReviewNext]_allVars \/ \E w \in Scorers : StoreBundle(w)
<1>1. ASSUME NEW w \in Scorers, NEW d \in Disputes, NEW whole \in BOOLEAN,
             StartAssembly(w, d, whole)
      PROVE  UNCHANGED allVars
  BY <1>1 DEF StartAssembly, RunnerMoves, allVars, reviewVars, tables
<1>2. ASSUME NEW w \in Scorers, BuildBundle(w) \/ Summarise(w)
      PROVE  UNCHANGED allVars
  BY <1>2 DEF BuildBundle, Summarise, RunnerMoves, allVars, reviewVars, tables
<1>3. ASSUME NEW w \in Scorers, Score(w)
      PROVE  ReviewNext
  BY <1>3, ScoreForms DEF PipelineInv, ReviewNext
<1>4. ASSUME NEW w \in Scorers, Fail(w)
      PROVE  [ReviewNext]_allVars
  <2>1. /\ scorers' = [scorers EXCEPT ![w] = IdleScorer]
        /\ UNCHANGED <<ingestVars, tables, reviewers, now>>
    BY <1>4 DEF Fail, RunnerMoves, tables
  <2>2. CASE scorers[w].pc = "idle"
    <3>1. scorers' = scorers
      BY <2>1, <2>2 DEF PipelineInv, PipelineTypeInv, ScorersRest, ReviewInv,
                        ReviewTypeOK
    <3>2. QED
      BY <2>1, <3>1 DEF allVars, reviewVars
  <2>3. CASE scorers[w].pc # "idle"
    <3>1. ScoringAbort(w)
      BY <2>1, <2>3 DEF ScoringAbort, ScorerMoves
    <3>2. QED
      BY <3>1 DEF ReviewNext, ScorerStep
  <2>4. QED
    BY <2>2, <2>3
<1>5. CASE Elsewhere
  BY <1>5 DEF Elsewhere, ReviewNext
<1>6. CASE Tick \/ UNCHANGED systemVars
  BY <1>6 DEF ReviewNext, systemVars
<1>7. QED
  BY <1>1, <1>2, <1>3, <1>4, <1>5, <1>6 DEF PipelineNext, RunnerStep

LEMMA PipelineInvStep ==
  ASSUME PipelineInv, [PipelineNext]_systemVars
  PROVE  PipelineInv'
<1>1. ASSUME NEW w \in Scorers, StoreBundle(w)
      PROVE  ReviewInv'
  <2> DEFINE r == runners[w]
             stored == StoredBundle(r.found, r.result, evidence[r.dispute])
  <2>1. /\ r.dispute \in Disputes /\ stored \in EvidenceBundle
        /\ bundles' = [bundles EXCEPT ![r.dispute] = ScoringView(stored)]
        /\ UNCHANGED <<ingestVars, profiles, queue, advice, decisions,
                       outcomes, scorers, reviewers, now>>
    BY <1>1, StoreEffect
  <2> HIDE DEF stored
  <2>2. /\ bundles' \in [Disputes -> Bundle \union {NoRow}]
        /\ profiles' \in [Disputes -> 0..100 \union {NoRow}]
        /\ now' \in 0..MaxNow
    BY <2>1, ViewTypes DEF PipelineInv, ReviewInv, ReviewTypeOK
  <2>3. QED
    BY <2>1, <2>2, OtherStepInv DEF PipelineInv
<1>2. ReviewInv'
  BY <1>1, SeenFromReview, ReviewInvStep DEF PipelineInv
<1>3. QED
  BY <1>2, PipelineTypeStep DEF PipelineInv

LEMMA PipelineInvInit ==
  ASSUME PipelineInit
  PROVE  PipelineInv
<1>1. ReviewInv
  BY ReviewInvInit DEF PipelineInit
<1>2. /\ evidence = [d \in Disputes |-> NoRow]
      /\ summaries = [d \in Disputes |-> NoRow]
      /\ runners = [w \in Scorers |-> IdleRunner]
      /\ scorers = [w \in Scorers |-> IdleScorer]
  BY DEF PipelineInit, ReviewInit
<1>3. PipelineTypeInv
  BY <1>2, IdleRunnerFacts
     DEF PipelineTypeInv, RunnerHolds, RunnersAlone, ScorersRest
<1>4. QED
  BY <1>1, <1>3 DEF PipelineInv

LEMMA PipelineInvariant == PipelineSpec => []PipelineInv
BY PipelineInvInit, PipelineInvStep, PTL DEF PipelineSpec

(* Every reachable state of the evidence table, the case's summary and the *)
(* runs is well typed (src/evidence/models.py, pipeline.py:129-136).       *)
THEOREM PipelineTypeCorrect == PipelineSpec => []PipelineTypeOK
<1>1. PipelineInv => PipelineTypeOK
  BY DEF PipelineInv, PipelineTypeInv, ReviewInv, PipelineTypeOK
<1>2. QED
  BY <1>1, PipelineInvariant, PTL

(* The upsert of a bundle is the assembler's step of Review.               *)
LEMMA StoreIsAssemble ==
  ASSUME PipelineInv, Bundles = Bundle, NEW w \in Scorers, StoreBundle(w)
  PROVE  ReviewNext
<1> DEFINE r == runners[w]
           stored == StoredBundle(r.found, r.result, evidence[r.dispute])
<1>1. /\ r.stage = "storing" /\ r.dispute \in Disputes
      /\ cases[r.dispute] # NoRow
      /\ stored \in EvidenceBundle /\ scorers[w].pc = "idle"
      /\ bundles' = [bundles EXCEPT ![r.dispute] = ScoringView(stored)]
      /\ UNCHANGED <<ingestVars, profiles, queue, advice, decisions,
                     outcomes, scorers, reviewers, now>>
  BY StoreEffect
<1> HIDE DEF stored
<1>2. ScoringView(stored) \in Bundles
  BY <1>1, ViewTypes
<1>3. MayStart
  BY <1>1 DEF PipelineInv, PipelineTypeInv, RunnersAlone, MayStart, WorkersIdle
<1>4. Assemble(r.dispute)
  BY <1>1, <1>2, <1>3 DEF Assemble
<1>5. QED
  BY <1>1, <1>4 DEF ReviewNext

(* The pipeline implements Review: when Review's assembler may leave any   *)
(* bundle, each step of the pipeline, however its requests interleave, is  *)
(* the scorer's, an Assemble, another component's, or nothing at all       *)
(* (pipeline.py:68-81).  So the theorems about ReviewSpec hold of it.      *)
THEOREM RefinesReview == Bundles = Bundle /\ PipelineSpec => ImplementsReview
<1> SUFFICES ASSUME Bundles = Bundle
             PROVE  PipelineSpec => ImplementsReview
  OBVIOUS
<1>1. PipelineInit => ReviewInit
  BY DEF PipelineInit
<1>2. PipelineInv /\ [PipelineNext]_systemVars => [ReviewNext]_allVars
  BY SeenFromReview, StoreIsAssemble
<1>3. QED
  BY <1>1, <1>2, PipelineInvariant, PTL
     DEF PipelineSpec, ImplementsReview, ReviewSpec

-----------------------------------------------------------------------------
(* Served one at a time.  First, the invariant of scoring and review.      *)
LEMMA ReviewSerialHere ==
  ASSUME Overlap = FALSE, PipelineInv, ReviewSerialInv,
         [PipelineNext]_systemVars
  PROVE  ReviewSerialInv'
<1>1. ASSUME NEW w \in Scorers, StoreBundle(w)
      PROVE  ReviewSerialInv'
  <2>1. /\ runners[w].stage # "idle" /\ scorers[w].pc = "idle"
        /\ UNCHANGED <<ingestVars, queue, advice, decisions, outcomes,
                       scorers, reviewers>>
    BY <1>1, StoreEffect
  <2>2. WorkersIdle
    BY <2>1 DEF PipelineInv, PipelineTypeInv, RunnersAlone, WorkersIdle
  <2>3. QED
    BY <2>1, <2>2, OtherStepSerial DEF PipelineInv
<1>2. QED
  BY <1>1, SeenFromReview, ReviewSerialStep DEF PipelineInv

(* A worker's step, given that what it then has in hand is what is stored. *)
LEMMA RunnerActsAlone ==
  ASSUME Overlap = FALSE, PipelineInv, NEW w \in Scorers, NEW state,
         runners' = [runners EXCEPT ![w] = state],
         runners[w].stage # "idle" \/ RunnersIdle,
         RunnerCurrent(w)'
  PROVE  \A v \in Scorers : RunnerCurrent(v)'
<1>1. ASSUME NEW v \in Scorers, v # w
      PROVE  runners'[v].stage = "idle"
  BY <1>1 DEF PipelineInv, PipelineTypeInv, RunnersAlone, RunnersIdle
<1>2. ASSUME NEW v \in Scorers, v # w
      PROVE  RunnerCurrent(v)'
  BY <1>1, <1>2 DEF RunnerCurrent
<1>3. QED
  BY <1>2

LEMMA EvidenceQuiet ==
  ASSUME PipelineSerialInv, UNCHANGED <<evidence, bundles>>,
         \A w \in Scorers : RunnerCurrent(w)'
  PROVE  PipelineSerialInv'
BY DEF PipelineSerialInv, BundlesSeen

LEMMA StartAssemblySerial ==
  ASSUME Overlap = FALSE, PipelineInv, PipelineSerialInv, NEW w \in Scorers,
         NEW d \in Disputes, NEW whole \in BOOLEAN, StartAssembly(w, d, whole)
  PROVE  PipelineSerialInv'
<1> DEFINE state == [IdleRunner EXCEPT
                       !.stage = "read", !.whole = whole, !.dispute = d,
                       !.category = cases[d].category]
<1>1. /\ runners' = [runners EXCEPT ![w] = state]
      /\ scorers[w].pc = "idle" /\ RunnersIdle
      /\ UNCHANGED <<ingestVars, scorers, evidence, bundles>>
  BY DEF StartAssembly, RunnerMoves
<1>2. /\ state.stage = "read" /\ state.dispute = d
      /\ state.category = cases[d].category
  BY DEF IdleRunner
<1> HIDE DEF state
<1>3. runners'[w] = state
  BY <1>1 DEF PipelineInv, PipelineTypeInv
<1>4. RunnerCurrent(w)'
  BY <1>1, <1>2, <1>3 DEF RunnerCurrent, ingestVars
<1>5. QED
  BY <1>1, <1>4, RunnerActsAlone, EvidenceQuiet

LEMMA BuildBundleSerial ==
  ASSUME Overlap = FALSE, PipelineInv, PipelineSerialInv, NEW w \in Scorers,
         BuildBundle(w)
  PROVE  PipelineSerialInv'
<1> DEFINE r == runners[w]
<1>1. PICK records \in Records, answer \in Answers :
        RunnerMoves(w, [r EXCEPT
          !.stage = "storing", !.found = evidence[r.dispute],
          !.result = AssembledBundle(r.category, records, answer)])
  BY DEF BuildBundle
<1> DEFINE result == AssembledBundle(r.category, records, answer)
           state == [r EXCEPT !.stage = "storing",
                              !.found = evidence[r.dispute],
                              !.result = result]
<1>2. /\ r \in RunnerState /\ r.stage = "read" /\ r.category \in Categories
  BY RunnerTypes DEF BuildBundle, PipelineInv
<1>3. WellAssembled(result) /\ result.category = r.category
  <2>1. records \in EvidenceRecords /\ answer \in ModelAnswer
    BY RecordsAssumption, AnswersAssumption
  <2>2. QED
    BY <1>2, <2>1, AssemblyCoherent
<1>4. /\ runners' = [runners EXCEPT ![w] = state]
      /\ UNCHANGED <<ingestVars, scorers, evidence, bundles>>
  BY <1>1 DEF BuildBundle, RunnerMoves
<1> HIDE DEF result
<1>5. /\ state.stage = "storing" /\ state.dispute = r.dispute
      /\ state.category = r.category /\ state.result = result
      /\ state.found = evidence[r.dispute]
  BY <1>2 DEF RunnerState
<1> HIDE DEF state
<1>6. runners'[w] = state
  BY <1>4 DEF PipelineInv, PipelineTypeInv
<1>7. /\ r.category = cases[r.dispute].category
      /\ scorers[w].pc = "idle"
  BY <1>2 DEF PipelineSerialInv, RunnerCurrent, PipelineInv, PipelineTypeInv,
              RunnerHolds
<1>8. RunnerCurrent(w)'
  BY <1>3, <1>4, <1>5, <1>6, <1>7 DEF RunnerCurrent, ingestVars
<1>9. QED
  BY <1>2, <1>4, <1>8, RunnerActsAlone, EvidenceQuiet

LEMMA StoreBundleSerial ==
  ASSUME Overlap = FALSE, PipelineInv, PipelineSerialInv, NEW w \in Scorers,
         StoreBundle(w)
  PROVE  PipelineSerialInv'
<1> DEFINE r == runners[w]
           d == r.dispute
           stored == StoredBundle(r.found, r.result, evidence[d])
           state == IF r.whole THEN [r EXCEPT !.stage = "scoring"]
                    ELSE IdleRunner
<1>1. /\ r \in RunnerState /\ r.stage = "storing" /\ d \in Disputes
      /\ r.result \in EvidenceBundle
      /\ scorers[w].pc = "idle"
      /\ evidence' = [evidence EXCEPT ![d] = stored]
      /\ bundles' = [bundles EXCEPT ![d] = ScoringView(stored)]
      /\ runners' = [runners EXCEPT ![w] = state]
      /\ UNCHANGED <<ingestVars, scorers>>
  BY StoreEffect
<1>2. /\ r.category = cases[d].category /\ r.found = evidence[d]
      /\ WellAssembled(r.result) /\ r.result.category = r.category
  BY <1>1 DEF PipelineSerialInv, RunnerCurrent
<1>3. evidence \in [Disputes -> EvidenceBundle \union {NoRow}]
  BY DEF PipelineInv, PipelineTypeInv
<1>4. stored = r.result
  <2>1. CASE evidence[d] = NoRow
    BY <1>2, <2>1 DEF StoredBundle
  <2>2. CASE evidence[d] # NoRow
    <3>1. evidence[d] \in EvidenceBundle
      BY <1>1, <1>3, <2>2
    <3>2. MergedBundle(evidence[d], r.result, evidence[d]) = r.result
      BY <1>1, <3>1, MergedBundleIdentity
    <3>3. QED
      BY <1>2, <2>2, <3>2 DEF StoredBundle
  <2>3. QED
    BY <2>1, <2>2
<1> HIDE DEF stored
<1>5. /\ evidence'[d] = r.result
      /\ \A c \in Disputes : c # d => evidence'[c] = evidence[c]
  BY <1>1, <1>3, <1>4
<1>6. \A c \in Disputes : evidence'[c] # NoRow => WellAssembled(evidence'[c])
  BY <1>2, <1>5 DEF PipelineSerialInv
<1>7. BundlesSeen'
  <2>1. bundles = [c \in Disputes |-> IF evidence[c] = NoRow THEN NoRow
                                      ELSE ScoringView(evidence[c])]
    BY DEF PipelineSerialInv, BundlesSeen
  <2>2. r.result # NoRow
    BY <1>1, NoEvidenceAssumption
  <2>3. bundles' = [c \in Disputes |-> IF evidence'[c] = NoRow THEN NoRow
                                       ELSE ScoringView(evidence'[c])]
    BY <1>1, <1>4, <1>5, <2>1, <2>2
  <2>4. QED
    BY <2>3 DEF BundlesSeen
<1>8. /\ state.stage \in {"idle", "scoring"}
      /\ state.stage # "idle" => /\ state.dispute = d
                                 /\ state.category = r.category
                                 /\ state.result = r.result
  BY <1>1, IdleRunnerFacts DEF RunnerState
<1> HIDE DEF state
<1>9. runners'[w] = state
  BY <1>1 DEF PipelineInv, PipelineTypeInv
<1>10. RunnerCurrent(w)'
  BY <1>1, <1>2, <1>5, <1>8, <1>9 DEF RunnerCurrent, ingestVars
<1>11. \A v \in Scorers : RunnerCurrent(v)'
  BY <1>1, <1>10, RunnerActsAlone
<1>12. QED
  BY <1>6, <1>7, <1>11 DEF PipelineSerialInv

(* A route's commit leaves, as the newest entry of the dispute, one scored *)
(* from what the scorer had read.                                          *)
LEMMA RouteLeaves ==
  ASSUME ReviewInv, ReviewSerialInv, NEW w \in Scorers,
         RouteFirst(w) \/ RouteAgain(w) \/ RouteReopened(w)
  PROVE  LET s == scorers[w]
             q == queue'[s.dispute] IN
         /\ s.pc = "routing" /\ s.dispute \in Disputes
         /\ s.inputs \in ScoreInputs /\ s.at \in Nat
         /\ q # <<>>
         /\ \E dispatched, superseded \in BOOLEAN :
              q[Len(q)] = ScoredEntry(s.inputs, s.at, dispatched, superseded)
         /\ scorers'[w] = IdleScorer
         /\ UNCHANGED <<ingestVars, bundles>>
<1> DEFINE s == scorers[w]
           d == s.dispute
           n == s.generation
           q == queue[d]
<1>1. s \in ScorerState /\ s.pc = "routing"
  BY DEF RouteFirst, RouteAgain, RouteReopened, ReviewInv, ReviewTypeOK
<1>2. /\ d \in Disputes /\ s.inputs \in ScoreInputs /\ s.at \in Nat
      /\ n # 0 => n \in DOMAIN q /\ s.entry \in Entry
  BY <1>1, ReviewBoundsAssumption
     DEF ReviewInv, WorkersHold, ScorerHolds, ScorerState
<1>3. n # 0 => n = Len(q) /\ s.entry = q[n]
  BY <1>1 DEF ReviewSerialInv, WorkersCurrent, ScorerCurrent
<1>4. q \in Seq(Entry)
  BY <1>2 DEF ReviewInv, ReviewTypeOK
<1>5. ASSUME NEW entries \in Seq(Entry), CommitRoute(w, entries),
             entries # <<>>, NEW x \in BOOLEAN, NEW y \in BOOLEAN,
             entries[Len(entries)] = ScoredEntry(s.inputs, s.at, x, y)
      PROVE  /\ queue'[d] # <<>>
             /\ \E dispatched, superseded \in BOOLEAN :
                  queue'[d][Len(queue'[d])] =
                    ScoredEntry(s.inputs, s.at, dispatched, superseded)
             /\ scorers'[w] = IdleScorer
             /\ UNCHANGED <<ingestVars, bundles>>
  <2>1. /\ queue' = [queue EXCEPT ![d] = entries]
        /\ scorers' = [scorers EXCEPT ![w] = IdleScorer]
        /\ UNCHANGED <<ingestVars, bundles>>
    BY <1>5 DEF CommitRoute, ScorerMoves
  <2>2. queue'[d] = entries /\ scorers'[w] = IdleScorer
    BY <1>2, <2>1 DEF ReviewInv, ReviewTypeOK
  <2>3. QED
    BY <1>5, <2>1, <2>2, Zenon
<1>6. CASE RouteFirst(w)
  <2> DEFINE e == ScoredEntry(s.inputs, s.at, FALSE, FALSE)
  <2>1. CommitRoute(w, <<e>>)
    BY <1>6 DEF RouteFirst
  <2>2. e \in Entry
    BY <1>2, ScoredEntryType, Zenon
  <2>3. e = ScoredEntry(s.inputs, s.at, FALSE, FALSE)
    OBVIOUS
  <2> HIDE DEF e
  <2>4. <<e>> \in Seq(Entry) /\ <<e>> # <<>> /\ <<e>>[Len(<<e>>)] = e
    BY <2>2
  <2>5. QED
    BY <1>1, <1>2, <1>5, <2>1, <2>3, <2>4
<1>7. CASE RouteAgain(w)
  <2> DEFINE e == ScoredEntry(s.inputs, s.at, s.entry.dispatched,
                              s.entry.superseded)
  <2>1. n # 0 /\ CommitRoute(w, [q EXCEPT ![n] = MergedEntry(s.entry, e, q[n])])
    BY <1>7 DEF RouteAgain
  <2>2. s.entry.dispatched \in BOOLEAN /\ s.entry.superseded \in BOOLEAN
    BY <1>2, <2>1 DEF Entry
  <2>3. e \in Entry
    BY <1>2, <2>2, ScoredEntryType, Zenon
  <2>4. e = ScoredEntry(s.inputs, s.at, s.entry.dispatched,
                        s.entry.superseded)
    OBVIOUS
  <2> HIDE DEF e
  <2>5. MergedEntry(s.entry, e, q[n]) = e
    BY <1>2, <1>3, <2>1, <2>3, MergedEntryIdentity
  <2> DEFINE entries == [q EXCEPT ![n] = e]
  <2>6. /\ entries \in Seq(Entry) /\ Len(entries) = Len(q)
        /\ entries[n] = e
    BY <1>2, <1>4, <2>1, <2>3, ExceptSeq
  <2>7. CommitRoute(w, entries)
    BY <2>1, <2>5
  <2> HIDE DEF entries
  <2>8. entries # <<>> /\ entries[Len(entries)] = e
    BY <1>3, <2>1, <2>6
  <2>9. QED
    BY <1>1, <1>2, <1>5, <2>2, <2>4, <2>6, <2>7, <2>8
<1>8. CASE RouteReopened(w)
  <2> DEFINE e == ScoredEntry(s.inputs, s.at, FALSE, FALSE)
             last == [q[n] EXCEPT !.superseded = TRUE]
             closed == [q EXCEPT ![n] = last]
  <2>1. n # 0 /\ CommitRoute(w, Append(closed, e))
    BY <1>8 DEF RouteReopened
  <2>2. e \in Entry
    BY <1>2, ScoredEntryType, Zenon
  <2>3. e = ScoredEntry(s.inputs, s.at, FALSE, FALSE)
    OBVIOUS
  <2>4. last \in Entry
    BY <1>2, <1>3, <2>1 DEF Entry
  <2> HIDE DEF e, last
  <2>5. closed \in Seq(Entry)
    BY <1>2, <1>4, <2>1, <2>4, ExceptSeq
  <2> HIDE DEF closed
  <2> DEFINE entries == Append(closed, e)
  <2>6. /\ entries \in Seq(Entry) /\ Len(entries) = Len(closed) + 1
        /\ Len(closed) \in Nat /\ entries[Len(closed) + 1] = e
    BY <2>2, <2>5, AppendFacts
  <2> HIDE DEF entries
  <2>7. entries # <<>> /\ entries[Len(entries)] = e
    BY <2>6
  <2>8. QED
    BY <1>1, <1>2, <1>5, <2>1, <2>3, <2>6, <2>7 DEF entries
<1>9. QED
  BY <1>1, <1>2, <1>6, <1>7, <1>8

(* The scorer of a run reads the bundle that the run has just stored, and  *)
(* what it leaves at the end is scored from it.                            *)
LEMMA RouteScores ==
  ASSUME Overlap = FALSE, PipelineInv, ReviewSerialInv, PipelineSerialInv,
         NEW w \in Scorers, runners[w].stage = "scoring",
         RouteFirst(w) \/ RouteAgain(w) \/ RouteReopened(w)
  PROVE  LET d == runners[w].dispute
             q == queue'[d] IN
         /\ q # <<>>
         /\ ScoredFrom(q[Len(q)], runners[w].result, cases[d])
<1> DEFINE r == runners[w]
           d == r.dispute
           s == scorers[w]
           q == queue'[d]
<1>1. /\ r.stage = "scoring" /\ d \in Disputes
      /\ r.category = cases[d].category
      /\ WellAssembled(r.result) /\ r.result.category = r.category
      /\ evidence[d] = r.result
      /\ r.result \in EvidenceBundle
  BY DEF PipelineInv, PipelineTypeInv, RunnerHolds, PipelineSerialInv,
         RunnerCurrent
<1>2. s.pc = "routing" /\ s.inputs \in ScoreInputs /\ s.at \in Nat
  BY RouteLeaves DEF PipelineInv
<1>3. s.dispute = d
  BY <1>1, <1>2 DEF PipelineSerialInv, RunnerCurrent
<1>4. q # <<>> /\ \E x, y \in BOOLEAN :
        q[Len(q)] = ScoredEntry(s.inputs, s.at, x, y)
  BY <1>3, RouteLeaves DEF PipelineInv
<1>5. PICK x \in BOOLEAN, y \in BOOLEAN :
        q[Len(q)] = ScoredEntry(s.inputs, s.at, x, y)
  BY <1>4
<1>6. /\ s.inputs.phase = cases[d].phase
      /\ s.inputs.manual <=> cases[d].category = Manual
      /\ s.inputs.bundle = bundles[d]
  BY <1>2, <1>3 DEF ReviewSerialInv, WorkersCurrent, ScorerCurrent
<1>7. bundles[d] = ScoringView(r.result)
  BY <1>1, NoEvidenceAssumption DEF PipelineSerialInv, BundlesSeen
<1>8. ScoredFrom(ScoredEntry(s.inputs, s.at, x, y), r.result, cases[d])
  <2>1. s.inputs.bundle = ScoringView(r.result)
    BY <1>6, <1>7
  <2>2. r.result.category = cases[d].category
    BY <1>1
  <2> HIDE DEF r, s, d
  <2>3. QED
    BY <1>1, <1>2, <1>6, <2>1, <2>2, ScoredFromBundle
<1>9. QED
  BY <1>4, <1>5, <1>8

LEMMA ScoreSerial ==
  ASSUME Overlap = FALSE, PipelineInv, ReviewSerialInv, PipelineSerialInv,
         NEW w \in Scorers, Score(w)
  PROVE  PipelineSerialInv'
<1> DEFINE r == runners[w]
           d == r.dispute
           done == [r EXCEPT !.stage = "summing"]
<1>1. /\ r.stage = "scoring" /\ UNCHANGED <<evidence, summaries>>
      /\ ScorerStep(w)
  BY ScoreForms DEF PipelineInv
<1>2. UNCHANGED <<cases, evidence, bundles>>
  BY <1>1, ScorerStepMoves DEF PipelineInv, ingestVars
<1>3. /\ r \in RunnerState /\ runners \in [Scorers -> RunnerState]
      /\ scorers \in [Scorers -> ScorerState] /\ scorers[w] \in ScorerState
  BY DEF PipelineInv, PipelineTypeInv, ReviewInv, ReviewTypeOK
<1>4. /\ r.category = cases[d].category
      /\ WellAssembled(r.result) /\ r.result.category = r.category
      /\ evidence[d] = r.result
      /\ scorers[w].pc # "idle" => scorers[w].dispute = d
  BY <1>1 DEF PipelineSerialInv, RunnerCurrent
<1>5. CASE UNCHANGED runners /\ scorers'[w].dispute = d
  <2>1. RunnerCurrent(w)'
    BY <1>1, <1>2, <1>4, <1>5 DEF RunnerCurrent
  <2>2. runners' = [runners EXCEPT ![w] = r]
    BY <1>3, <1>5
  <2>3. QED
    BY <1>1, <1>2, <2>1, <2>2, RunnerActsAlone, EvidenceQuiet
<1>6. CASE StartScoring(w, d) /\ UNCHANGED runners
  <2>1. scorers'[w].dispute = d
    <3>1. PICK si : scorers' = [scorers EXCEPT ![w] =
            [IdleScorer EXCEPT !.pc = "loaded", !.dispute = d, !.at = now,
                               !.inputs = si]]
      BY <1>6, Zenon DEF StartScoring, ScorerMoves
    <3>2. scorers'[w] = [IdleScorer EXCEPT !.pc = "loaded", !.dispute = d,
                                           !.at = now, !.inputs = si]
      BY <1>3, <3>1
    <3>3. QED
      BY <3>2 DEF IdleScorer
  <2>2. QED
    BY <1>5, <1>6, <2>1
<1>7. CASE FinishInputs(w) /\ UNCHANGED runners
  <2>1. scorers'[w].dispute = d
    <3>1. PICK si : scorers' = [scorers EXCEPT ![w] =
            [scorers[w] EXCEPT !.pc = "scored", !.inputs = si]]
      BY <1>7, Zenon DEF FinishInputs, ScorerMoves
    <3>2. scorers'[w].dispute = scorers[w].dispute
      BY <1>3, <3>1 DEF ScorerState
    <3>3. scorers[w].pc # "idle"
      BY <1>7 DEF FinishInputs
    <3>4. QED
      BY <1>4, <3>2, <3>3
  <2>2. QED
    BY <1>5, <1>7, <2>1
<1>8. CASE LoadActive(w) /\ UNCHANGED runners
  <2>1. scorers'[w].dispute = d
    <3>1. PICK g, entry, reenters : scorers' = [scorers EXCEPT ![w] =
            [scorers[w] EXCEPT !.pc = "routing", !.generation = g,
                               !.entry = entry, !.reenters = reenters]]
      BY <1>8, Zenon DEF LoadActive, ScorerMoves
    <3>2. scorers'[w].dispute = scorers[w].dispute
      BY <1>3, <3>1 DEF ScorerState
    <3>3. scorers[w].pc # "idle"
      BY <1>8 DEF LoadActive
    <3>4. QED
      BY <1>4, <3>2, <3>3
  <2>2. QED
    BY <1>5, <1>8, <2>1
<1>9. CASE /\ RouteFirst(w) \/ RouteAgain(w) \/ RouteReopened(w)
           /\ runners' = [runners EXCEPT ![w].stage = "summing"]
  <2>1. /\ queue'[d] # <<>>
        /\ ScoredFrom(queue'[d][Len(queue'[d])], r.result, cases[d])
    BY <1>1, <1>9, RouteScores, Zenon
  <2>2. runners' = [runners EXCEPT ![w] = done]
    BY <1>9
  <2>3. /\ done.stage = "summing" /\ done.dispute = d
        /\ done.category = r.category /\ done.result = r.result
    BY <1>3 DEF RunnerState
  <2> HIDE DEF done
  <2>4. runners'[w] = done
    BY <1>3, <2>2
  <2>5. scorers'[w].pc = "idle"
    BY <1>9, RouteLeaves DEF PipelineInv, IdleScorer
  <2>6. RunnerCurrent(w)'
    BY <1>2, <1>4, <2>1, <2>3, <2>4, <2>5 DEF RunnerCurrent
  <2>7. QED
    BY <1>1, <1>2, <2>2, <2>6, RunnerActsAlone, EvidenceQuiet
<1>10. QED
  BY <1>6, <1>7, <1>8, <1>9, ScoreForms DEF PipelineInv

(* A worker's last step, or its failure, leaves it with nothing in hand.   *)
LEMMA RestSerial ==
  ASSUME Overlap = FALSE, PipelineInv, PipelineSerialInv, NEW w \in Scorers,
         Summarise(w) \/ Fail(w)
  PROVE  PipelineSerialInv'
<1>1. /\ runners[w].stage # "idle"
      /\ runners' = [runners EXCEPT ![w] = IdleRunner]
      /\ UNCHANGED <<evidence, bundles>>
  BY DEF Summarise, Fail, RunnerMoves
<1>2. runners'[w] = IdleRunner
  BY <1>1 DEF PipelineInv, PipelineTypeInv
<1>3. RunnerCurrent(w)'
  BY <1>2, IdleRunnerFacts DEF RunnerCurrent
<1>4. QED
  BY <1>1, <1>3, RunnerActsAlone, EvidenceQuiet

(* The other components' requests are served while no worker has anything  *)
(* in hand.                                                                *)
LEMMA ElsewhereSerial ==
  ASSUME Overlap = FALSE, PipelineInv, PipelineSerialInv,
         Elsewhere \/ (Tick /\ UNCHANGED pipelineVars)
                   \/ UNCHANGED systemVars
  PROVE  PipelineSerialInv'
<1>1. UNCHANGED <<evidence, runners>>
  BY DEF Elsewhere, systemVars, pipelineVars
<1>2. UNCHANGED bundles
  <2>1. ASSUME NEW w \in Scorers, ScorerStep(w)
        PROVE  UNCHANGED bundles
    BY <2>1, ScorerStepMoves DEF PipelineInv
  <2>2. ASSUME NEW r \in Reviewers, ReviewerStep(r)
        PROVE  UNCHANGED bundles
    BY <2>2 DEF ReviewerStep, OpenReview, LoadEntry, CommitReview, LoadOutcome,
       RefuseOutcome, LogOutcome, ReviewAbort, tables
  <2>3. QED
    BY <2>1, <2>2 DEF Elsewhere, Ingest, MeasureRisk, Tick, systemVars,
       allVars, reviewVars, tables
<1>3. ASSUME NEW w \in Scorers
      PROVE  RunnerCurrent(w)'
  <2>1. CASE RunnersIdle
    BY <1>1, <2>1 DEF RunnersIdle, RunnerCurrent
  <2>2. CASE UNCHANGED <<cases, queue, scorers>>
    BY <1>1, <2>2 DEF PipelineSerialInv, RunnerCurrent
  <2>3. RunnersIdle \/ UNCHANGED <<cases, queue, scorers>>
    BY DEF Elsewhere, Tick, systemVars, allVars, reviewVars, ingestVars, tables
  <2>4. QED
    BY <2>1, <2>2, <2>3
<1>4. QED
  BY <1>1, <1>2, <1>3, EvidenceQuiet

LEMMA PipelineSerialStep ==
  ASSUME Overlap = FALSE, PipelineInv, ReviewSerialInv, PipelineSerialInv,
         [PipelineNext]_systemVars
  PROVE  ReviewSerialInv' /\ PipelineSerialInv'
<1>1. PipelineSerialInv'
  BY ElsewhereSerial, StartAssemblySerial, BuildBundleSerial,
     StoreBundleSerial, ScoreSerial, RestSerial DEF PipelineNext, RunnerStep
<1>2. QED
  BY <1>1, ReviewSerialHere

LEMMA PipelineSerialInit ==
  ASSUME PipelineInit
  PROVE  ReviewSerialInv /\ PipelineSerialInv
<1>1. ReviewSerialInv
  BY ReviewSerialInit DEF PipelineInit
<1>2. /\ evidence = [d \in Disputes |-> NoRow]
      /\ bundles = [d \in Disputes |-> NoRow]
      /\ runners = [w \in Scorers |-> IdleRunner]
  BY DEF PipelineInit, ReviewInit
<1>3. PipelineSerialInv
  BY <1>2, IdleRunnerFacts DEF PipelineSerialInv, BundlesSeen, RunnerCurrent
<1>4. QED
  BY <1>1, <1>3

LEMMA PipelineSerialInvariant ==
  Overlap = FALSE /\ PipelineSpec => [](ReviewSerialInv /\ PipelineSerialInv)
<1> SUFFICES ASSUME Overlap = FALSE
             PROVE  PipelineSpec => [](ReviewSerialInv /\ PipelineSerialInv)
  OBVIOUS
<1>1. /\ PipelineInv /\ ReviewSerialInv /\ PipelineSerialInv
      /\ [PipelineNext]_systemVars
      => ReviewSerialInv' /\ PipelineSerialInv'
  BY PipelineSerialStep
<1>2. QED
  BY <1>1, PipelineSerialInit, PipelineInvariant, PTL DEF PipelineSpec

-----------------------------------------------------------------------------
(* No content, claim or measure of an earlier assembly remains in a stored *)
(* bundle, under whatever categories the dispute has had and whatever the  *)
(* language model answers (assembler.py:462-504).                          *)
THEOREM EvidenceSound == Overlap = FALSE /\ PipelineSpec => []EvidenceCoherent
<1>1. PipelineSerialInv => EvidenceCoherent
  BY DEF PipelineSerialInv, EvidenceCoherent, WellAssembled
<1>2. QED
  BY <1>1, PipelineSerialInvariant, PTL

(* The live entry of a dispute is the newest one.                          *)
LEMMA LiveEntry ==
  ASSUME ReviewInv, NEW d \in Disputes
  PROVE  /\ ActiveGeneration(d) = Len(queue[d])
         /\ queue[d] # <<>> => Len(queue[d]) \in DOMAIN queue[d]
         /\ LiveGenerations(d) # {} => queue[d] # <<>>
<1>1. ActiveGeneration(d) = Len(queue[d])
  BY ActiveIsNewest DEF ReviewInv, TablesInv
<1>2. queue[d] \in Seq(Entry)
  BY DEF ReviewInv, ReviewTypeOK
<1>3. queue[d] # <<>> => Len(queue[d]) \in DOMAIN queue[d]
  BY <1>2
<1>4. LiveGenerations(d) # {} => queue[d] # <<>>
  BY <1>2 DEF LiveGenerations
<1>5. QED
  BY <1>1, <1>3, <1>4

(* The advisory columns of the case are those of its live queue entry,     *)
(* whichever request scored it last and whatever failed since              *)
(* (routing.py:236-260).                                                   *)
THEOREM AdviceSound == Overlap = FALSE /\ PipelineSpec => []AdviceMatchesEntry
<1>1. ASSUME ReviewInv, ReviewSerialInv, NEW d \in Disputes,
             LiveGenerations(d) # {}
      PROVE  /\ advice[d].confidence = queue[d][ActiveGeneration(d)].confidence
             /\ advice[d].action = queue[d][ActiveGeneration(d)].action
  <2>1. /\ ActiveGeneration(d) = Len(queue[d])
        /\ Len(queue[d]) \in DOMAIN queue[d]
    BY <1>1, LiveEntry
  <2>2. QED
    BY <1>1, <2>1, QueuesOf
<1>2. ReviewInv /\ ReviewSerialInv => AdviceMatchesEntry
  BY <1>1 DEF AdviceMatchesEntry
<1>3. PipelineInv => ReviewInv
  BY DEF PipelineInv
<1>4. QED
  BY <1>2, <1>3, PipelineInvariant, PipelineSerialInvariant, PTL

(* A run that gets to its end leaves the bundle, the queue entry and the   *)
(* summary in agreement with each other and with the case, whatever failed *)
(* or was reclassified before it (pipeline.py:68-81).                      *)
THEOREM RunsAgree == Overlap = FALSE /\ PipelineSpec => FinishedRunAgrees
<1> DEFINE Agrees(w) ==
      LET d == runners[w].dispute
          b == evidence[d]
          e == queue[d][ActiveGeneration(d)] IN
      /\ b.category = cases[d].category
      /\ e.phase = cases[d].phase
      /\ e.confidence = -1 <=> b.assembly = "pending"
      /\ "needs_manual_classification" \in e.gates <=> b.manual
      /\ e.queue = "draft_for_submit" => 65 * b.completeness >= 3700
      /\ summaries'[d].assembly = b.assembly
      /\ summaries'[d].status = b.status
<1>1. ASSUME PipelineInv, PipelineSerialInv, NEW w \in Scorers, Summarise(w)
      PROVE  Agrees(w)
  <2> DEFINE r == runners[w]
             d == r.dispute
  <2>1. /\ r.stage = "summing" /\ d \in Disputes
        /\ r.category = cases[d].category /\ r.result.category = r.category
        /\ evidence[d] = r.result /\ queue[d] # <<>>
        /\ ScoredFrom(queue[d][Len(queue[d])], r.result, cases[d])
    BY <1>1 DEF Summarise, PipelineInv, PipelineTypeInv, RunnerHolds,
                PipelineSerialInv, RunnerCurrent
  <2>2. ActiveGeneration(d) = Len(queue[d])
    BY <1>1, <2>1, LiveEntry DEF PipelineInv
  <2>3. summaries'[d] = SummaryOf(r.result)
    BY <1>1, <2>1 DEF Summarise, PipelineInv, PipelineTypeInv
  <2>4. /\ summaries'[d].assembly = r.result.assembly
        /\ summaries'[d].status = r.result.status
    BY <2>3 DEF SummaryOf
  <2>5. QED
    BY <2>1, <2>2, <2>4 DEF ScoredFrom
<1>2. PipelineInv /\ PipelineSerialInv =>
        [\A w \in Scorers : Summarise(w) => Agrees(w)]_systemVars
  BY <1>1
<1>3. QED
  BY <1>2, PipelineInvariant, PipelineSerialInvariant, PTL
     DEF FinishedRunAgrees

=============================================================================
