------------------------------- MODULE Review --------------------------------
(***************************************************************************)
(* Confidence scoring, queue routing, the human review gate and the        *)
(* outcome log (src/scoring), working on the case rows that the ingestion  *)
(* router keeps changing underneath them.                                  *)
(*                                                                         *)
(* Scorers serve GET /disputes/{id}/recommendation and the pipeline's      *)
(* scoring stage; reviewers serve POST /disputes/{id}/review.  Each reads  *)
(* in autocommit and writes in one commit, so what it decides on may be    *)
(* stale by the time it writes (Overlap = TRUE); with Overlap = FALSE one  *)
(* request is served at a time.                                            *)
(***************************************************************************)
EXTENDS Ingestion

CONSTANTS
  Bundles,       \* the evidence bundles the assembler may leave
  RiskFactors,   \* risk factors, in percent, that the nightly batch may leave
  Scorers, Reviewers,
  Requests,      \* the review bodies a human may post
  MaxDecisions,  \* bound: no review starts once a dispute has this many
  MaxNow         \* bound: the clock, in hours, stops here

(* Percentages stand for the fractions of the code; Unmeasured for None.   *)
Unmeasured == -1
Bundle == [completeness: 0..100 \union {Unmeasured}, pending: BOOLEAN,
           manual: BOOLEAN]

Queues    == {"draft_for_submit", "human_review"}
Actions   == Queues \union {"needs_manual_classification"}
GateNames == {"needs_manual_classification", "no_evidence_bundle",
              "assembly_status_pending", "risk_profile_unknown",
              "reopened_dispute_re_entered_review", "late_phase_escalation",
              "urgent_deadline_with_imperfect_evidence"}
Decisions == {"submit", "decline", "request_changes"}
Outcomes  == {"won", "lost"}
(* The outcome of a body is optional, and nothing validates it.            *)
ReviewRequest == [decision: Decisions,
                  outcome: Outcomes \union {"none", "unknown"}]

ConfidenceThreshold   == 7200   \* 0.72, in ten-thousandths
EscalationPhase       == PreArbitration
DeadlinePressureHours == 48

ASSUME BundlesAssumption == Bundles \subseteq Bundle
ASSUME RiskAssumption == RiskFactors \subseteq 0..100
ASSUME RequestsAssumption == Requests \subseteq ReviewRequest
ASSUME ReviewBoundsAssumption == MaxDecisions \in Nat /\ MaxNow \in Nat
ASSUME NoBundleAssumption == NoRow \notin Bundle /\ NoRow \notin 0..100

(* One row of review_queue_entries; its queue_generation is its place in   *)
(* the dispute's sequence, which the unique constraint keeps without gaps. *)
Confidences == -1..10000
Entry ==
  [queue: Queues, action: Actions, confidence: Confidences,
   gates: SUBSET GateNames, phase: Phases, wasReopened: BOOLEAN,
   dispatched: BOOLEAN, superseded: BOOLEAN]

Decision ==
  [generation: Nat, decision: Decisions, decidedAt: Nat, phase: Phases,
   confidence: Confidences, queue: Queues]

OutcomeRow ==
  [generation: Nat, outcome: Outcomes, dispatched: BOOLEAN,
   confidence: Confidences]

ASSUME NoEntryAssumption == NoRow \notin Entry

VARIABLES
  bundles,    \* evidence_bundles: dispute id -> bundle
  profiles,   \* account_risk_profiles: risk factor of the dispute's account
  queue,      \* review_queue_entries: dispute id -> entries by generation
  advice,     \* the advisory columns of the case row
  decisions,  \* human_review_decisions, append-only
  outcomes,   \* outcome_log, append-only
  scorers, reviewers,
  now         \* wall clock, in hours

tables     == <<bundles, profiles, queue, advice, decisions, outcomes>>
reviewVars == <<tables, scorers, reviewers, now>>
allVars    == <<ingestVars, reviewVars>>

-----------------------------------------------------------------------------
(* score_dispute: what a scorer read, and the score and gates it computes. *)

ScoreInputs ==
  [phase: Phases, respondBy: Nat, manual: BOOLEAN, wasReopened: BOOLEAN,
   bundle: Bundle \union {NoRow}, profile: 0..100 \union {NoRow}]

Completeness(si) == IF si.bundle = NoRow THEN Unmeasured
                                         ELSE si.bundle.completeness

RiskFactor(si) == IF si.profile = NoRow THEN 0 ELSE si.profile

(* Each definition named "...Mutant" is a variant of the one after it, as a *)
(* plausible bug would have it; no action uses it.  This one scores a      *)
(* bundle that is not there.                                               *)
ConfidenceMutant(si) == 65 * Completeness(si) + 35 * RiskFactor(si)

Confidence(si) ==
  IF Completeness(si) = Unmeasured THEN Unmeasured
  ELSE 65 * Completeness(si) + 35 * RiskFactor(si)

GateFires(si, t) ==
  [needs_manual_classification |->
     si.manual \/ (si.bundle # NoRow /\ si.bundle.manual),
   no_evidence_bundle |-> si.bundle = NoRow,
   assembly_status_pending |-> si.bundle # NoRow /\ si.bundle.pending,
   risk_profile_unknown |-> si.profile = NoRow,
   reopened_dispute_re_entered_review |-> si.wasReopened,
   late_phase_escalation |-> si.phase >= EscalationPhase,
   urgent_deadline_with_imperfect_evidence |->
     /\ si.respondBy # 0
     /\ si.respondBy - t <= DeadlinePressureHours
     /\ Completeness(si) \in 0..99]

HardGates(si, t) == {g \in GateNames : GateFires(si, t)[g]}

(* The score alone decides.                                                *)
QueueForMutant(gates, confidence) ==
  IF confidence >= ConfidenceThreshold
    THEN "draft_for_submit" ELSE "human_review"

QueueFor(gates, confidence) ==
  IF gates = {} /\ confidence >= ConfidenceThreshold
    THEN "draft_for_submit" ELSE "human_review"

ActionFor(gates, confidence) ==
  IF "needs_manual_classification" \in gates
    THEN "needs_manual_classification" ELSE QueueFor(gates, confidence)

(* The scored columns of an entry, over what it says of dispatch.          *)
ScoredEntry(si, t, dispatched, superseded) ==
  LET gates == HardGates(si, t) IN
  [queue       |-> QueueFor(gates, Confidence(si)),
   action      |-> ActionFor(gates, Confidence(si)),
   confidence  |-> Confidence(si),
   gates       |-> gates,
   phase       |-> si.phase,
   wasReopened |-> si.wasReopened,
   dispatched  |-> dispatched,
   superseded  |-> superseded]

(* An entry after a session that loaded `was` and left `new` commits.      *)
MergedEntry(was, new, stored) ==
  [queue       |-> Column(was.queue, new.queue, stored.queue),
   action      |-> Column(was.action, new.action, stored.action),
   confidence  |-> Column(was.confidence, new.confidence, stored.confidence),
   gates       |-> Column(was.gates, new.gates, stored.gates),
   phase       |-> Column(was.phase, new.phase, stored.phase),
   wasReopened |-> Column(was.wasReopened, new.wasReopened,
                          stored.wasReopened),
   dispatched  |-> Column(was.dispatched, new.dispatched, stored.dispatched),
   superseded  |-> Column(was.superseded, new.superseded, stored.superseded)]

-----------------------------------------------------------------------------
(* The queries the components share.                                       *)

(* was_reopened: the counter, or any flagged row of the trail.             *)
WasReopened(d) == cases[d].reopenCount > 0 \/ ReopenRows(d) # {}

(* The newest entry that is not superseded; 0 when there is none.          *)
LiveGenerations(d) == {g \in DOMAIN queue[d] : ~queue[d][g].superseded}

ActiveGeneration(d) ==
  IF LiveGenerations(d) = {} THEN 0
  ELSE CHOOSE g \in LiveGenerations(d) : \A l \in LiveGenerations(d) : l <= g

HasOutcome(d, g) == \E i \in DOMAIN outcomes[d] : outcomes[d][i].generation = g

(* The decisions of a generation that ORDER BY decided_at DESC may put     *)
(* first: the clock has whole seconds and the query no tie-break.          *)
(* ... of whatever generation.                                             *)
LatestDecisionsMutant(d, g) ==
  {i \in DOMAIN decisions[d] : \A j \in DOMAIN decisions[d] :
     decisions[d][j].decidedAt <= decisions[d][i].decidedAt}

LatestDecisions(d, g) ==
  LET own == {i \in DOMAIN decisions[d] : decisions[d][i].generation = g} IN
  {i \in own : \A j \in own :
     decisions[d][j].decidedAt <= decisions[d][i].decidedAt}

-----------------------------------------------------------------------------
IdleScorer ==
  [pc |-> "idle", dispute |-> NoRow, at |-> 0, inputs |-> NoRow,
   generation |-> 0, entry |-> NoRow, reenters |-> FALSE]

IdleReviewer ==
  [pc |-> "idle", dispute |-> NoRow, decision |-> "none", outcome |-> "none",
   at |-> 0, case |-> NoRow, generation |-> 0, entry |-> NoRow,
   row |-> NoRow]

ScorerState ==
  [pc: {"idle", "loaded", "scored", "routing"},
   dispute: Disputes \union {NoRow}, at: 0..MaxNow,
   inputs: ScoreInputs \union {NoRow}, generation: Nat,
   entry: Entry \union {NoRow}, reenters: BOOLEAN]

ReviewerState ==
  [pc: {"idle", "loaded", "deciding", "outcome", "logging"},
   dispute: Disputes \union {NoRow}, decision: Decisions \union {"none"},
   outcome: Outcomes \union {"none", "unknown"}, at: 0..MaxNow,
   case: CaseRow \union {NoRow}, generation: Nat,
   entry: Entry \union {NoRow}, row: OutcomeRow \union {NoRow}]

ReviewTypeOK ==
  /\ TypeOK
  /\ bundles \in [Disputes -> Bundle \union {NoRow}]
  /\ profiles \in [Disputes -> 0..100 \union {NoRow}]
  /\ queue \in [Disputes -> Seq(Entry)]
  /\ advice \in [Disputes ->
       [confidence: Confidences, action: Actions \union {"none"}]]
  /\ decisions \in [Disputes -> Seq(Decision)]
  /\ outcomes \in [Disputes -> Seq(OutcomeRow)]
  /\ scorers \in [Scorers -> ScorerState]
  /\ reviewers \in [Reviewers -> ReviewerState]
  /\ now \in 0..MaxNow

ReviewInit ==
  /\ Init
  /\ bundles = [d \in Disputes |-> NoRow]
  /\ profiles = [d \in Disputes |-> NoRow]
  /\ queue = [d \in Disputes |-> <<>>]
  /\ advice = [d \in Disputes |->
       [confidence |-> Unmeasured, action |-> "none"]]
  /\ decisions = [d \in Disputes |-> <<>>]
  /\ outcomes = [d \in Disputes |-> <<>>]
  /\ scorers = [w \in Scorers |-> IdleScorer]
  /\ reviewers = [r \in Reviewers |-> IdleReviewer]
  /\ now = 0

WorkersIdle ==
  /\ \A w \in Scorers : scorers[w].pc = "idle"
  /\ \A r \in Reviewers : reviewers[r].pc = "idle"

MayStart == Overlap \/ (AllIdle /\ WorkersIdle)

-----------------------------------------------------------------------------
(* score_and_route.                                                        *)

ScorerMoves(w, state) ==
  /\ scorers' = [scorers EXCEPT ![w] = state]
  /\ UNCHANGED <<reviewers, now>>

(* The first transaction: the case row and the evidence bundle.            *)
StartScoring(w, d) ==
  /\ scorers[w].pc = "idle"
  /\ MayStart
  /\ cases[d] # NoRow
  /\ ScorerMoves(w, [IdleScorer EXCEPT
       !.pc = "loaded", !.dispute = d, !.at = now,
       !.inputs = [phase |-> cases[d].phase,
                   respondBy |-> cases[d].respondBy,
                   manual |-> cases[d].category = Manual,
                   wasReopened |-> FALSE,
                   bundle |-> bundles[d],
                   profile |-> NoRow]])
  /\ UNCHANGED <<ingestVars, tables>>

(* The second and third: was_reopened, then the account's risk profile.    *)
(* One step, for no other action writes the tables of both.                *)
FinishInputs(w) ==
  LET d == scorers[w].dispute IN
  /\ scorers[w].pc = "loaded"
  /\ ScorerMoves(w, [scorers[w] EXCEPT
       !.pc = "scored",
       !.inputs = [@ EXCEPT !.wasReopened = WasReopened(d),
                            !.profile = profiles[d]]])
  /\ UNCHANGED <<ingestVars, tables>>

(* A reopened dispute leaves the generation it was dispatched or resolved  *)
(* in, once it has moved past the phase that generation was scored at.     *)
(* Without the phase; or without the dispatch.                             *)
ReopenedForwardMutant(si, d, g) ==
  si.wasReopened /\ (queue[d][g].dispatched \/ HasOutcome(d, g))

ReopenedForwardUndispatchedMutant(si, d, g) ==
  si.wasReopened /\ si.phase > queue[d][g].phase /\ HasOutcome(d, g)

ReopenedForward(si, d, g) ==
  /\ si.wasReopened
  /\ si.phase > queue[d][g].phase
  /\ queue[d][g].dispatched \/ HasOutcome(d, g)

(* The last transaction loads the active entry and decides on it.          *)
LoadActive(w) ==
  LET d == scorers[w].dispute
      g == ActiveGeneration(d) IN
  /\ scorers[w].pc = "scored"
  /\ ScorerMoves(w, [scorers[w] EXCEPT
       !.pc = "routing",
       !.generation = g,
       !.entry = IF g = 0 THEN NoRow ELSE queue[d][g],
       !.reenters = g # 0 /\ ReopenedForward(scorers[w].inputs, d, g)])
  /\ UNCHANGED <<ingestVars, tables>>

(* Advice once given stays.                                                *)
CommitRouteMutant(w, entries) ==
  LET d == scorers[w].dispute
      scored == ScoredEntry(scorers[w].inputs, scorers[w].at, FALSE, FALSE) IN
  /\ queue' = [queue EXCEPT ![d] = entries]
  /\ advice' = [advice EXCEPT ![d] =
       IF @.action # "none" THEN @
       ELSE [confidence |-> scored.confidence, action |-> scored.action]]
  /\ ScorerMoves(w, IdleScorer)
  /\ UNCHANGED <<ingestVars, bundles, profiles, decisions, outcomes>>

(* Its commit: the entries, and the advisory columns of the case.          *)
CommitRoute(w, entries) ==
  LET d == scorers[w].dispute
      scored == ScoredEntry(scorers[w].inputs, scorers[w].at, FALSE, FALSE) IN
  /\ queue' = [queue EXCEPT ![d] = entries]
  /\ advice' = [advice EXCEPT ![d] =
       [confidence |-> scored.confidence, action |-> scored.action]]
  /\ ScorerMoves(w, IdleScorer)
  /\ UNCHANGED <<ingestVars, bundles, profiles, decisions, outcomes>>

RouteFirst(w) ==
  LET s == scorers[w] IN
  /\ s.pc = "routing"
  /\ s.generation = 0
  /\ queue[s.dispute] = <<>>
  /\ CommitRoute(w, <<ScoredEntry(s.inputs, s.at, FALSE, FALSE)>>)

(* Scoring an entry again takes its dispatch back.                         *)
RouteAgainMutant(w) ==
  LET s == scorers[w]
      new == ScoredEntry(s.inputs, s.at, FALSE, s.entry.superseded) IN
  /\ s.pc = "routing"
  /\ s.generation # 0
  /\ ~s.reenters
  /\ CommitRoute(w, [queue[s.dispute] EXCEPT
       ![s.generation] = MergedEntry(s.entry, new, @)])

RouteAgain(w) ==
  LET s == scorers[w]
      new == ScoredEntry(s.inputs, s.at, s.entry.dispatched,
                         s.entry.superseded) IN
  /\ s.pc = "routing"
  /\ s.generation # 0
  /\ ~s.reenters
  /\ CommitRoute(w, [queue[s.dispute] EXCEPT
       ![s.generation] = MergedEntry(s.entry, new, @)])

(* The generation before stays live.                                       *)
RouteReopenedMutant(w) ==
  LET s == scorers[w] IN
  /\ s.pc = "routing"
  /\ s.generation # 0
  /\ s.reenters
  /\ Len(queue[s.dispute]) = s.generation
  /\ CommitRoute(w, Append(queue[s.dispute],
       ScoredEntry(s.inputs, s.at, FALSE, FALSE)))

RouteReopened(w) ==
  LET s == scorers[w] IN
  /\ s.pc = "routing"
  /\ s.generation # 0
  /\ s.reenters
  /\ Len(queue[s.dispute]) = s.generation
  /\ CommitRoute(w, Append(
       [queue[s.dispute] EXCEPT ![s.generation].superseded = TRUE],
       ScoredEntry(s.inputs, s.at, FALSE, FALSE)))

(* The generation to insert is there already: the unique constraint        *)
(* refuses the commit, and everything in it is rolled back.                *)
RouteConflict(w) ==
  LET s == scorers[w] IN
  /\ s.pc = "routing"
  /\ s.generation = 0 \/ s.reenters
  /\ Len(queue[s.dispute]) > s.generation
  /\ ScorerMoves(w, IdleScorer)
  /\ UNCHANGED <<ingestVars, tables>>

(* The process dies, or the write lock times out, before the commit.       *)
ScoringAbort(w) ==
  /\ scorers[w].pc # "idle"
  /\ ScorerMoves(w, IdleScorer)
  /\ UNCHANGED <<ingestVars, tables>>

ScorerStep(w) ==
  \/ \E d \in Disputes : StartScoring(w, d)
  \/ FinishInputs(w) \/ LoadActive(w)
  \/ RouteFirst(w) \/ RouteAgain(w) \/ RouteReopened(w) \/ RouteConflict(w)
  \/ ScoringAbort(w)

-----------------------------------------------------------------------------
(* post_review and record_outcome.                                         *)

ReviewerMoves(r, state) ==
  /\ reviewers' = [reviewers EXCEPT ![r] = state]
  /\ UNCHANGED <<scorers, now>>

(* A human posts a decision; the handler loads the case.                   *)
OpenReview(r, d, body) ==
  /\ reviewers[r].pc = "idle"
  /\ MayStart
  /\ Len(decisions[d]) < MaxDecisions
  /\ cases[d] # NoRow
  /\ ReviewerMoves(r, [IdleReviewer EXCEPT
       !.pc = "loaded", !.dispute = d, !.decision = body.decision,
       !.outcome = body.outcome, !.at = now, !.case = cases[d]])
  /\ UNCHANGED <<ingestVars, tables>>

LoadEntry(r) ==
  LET d == reviewers[r].dispute
      g == ActiveGeneration(d) IN
  /\ reviewers[r].pc = "loaded"
  /\ g # 0
  /\ ReviewerMoves(r, [reviewers[r] EXCEPT
       !.pc = "deciding", !.generation = g, !.entry = queue[d][g]])
  /\ UNCHANGED <<ingestVars, tables>>

(* No recommendation yet (409), or the request fails before its commit.    *)
ReviewAbort(r) ==
  /\ reviewers[r].pc # "idle"
  /\ ReviewerMoves(r, IdleReviewer)
  /\ UNCHANGED <<ingestVars, tables>>

(* A submit puts the dispute under review, whatever its status.            *)
StatusAfterMutant(decision, status) ==
  IF decision = "submit" THEN "under_review" ELSE status

StatusAfter(decision, status) ==
  IF decision = "submit" /\ status = "open" THEN "under_review" ELSE status

(* The gate: only here is an entry dispatched, and only by a submit.       *)
CommitReview(r) ==
  LET v == reviewers[r]
      d == v.dispute
      g == v.generation
      left == StatusAfter(v.decision, v.case.status) IN
  /\ v.pc = "deciding"
  /\ queue' = [queue EXCEPT ![d][g].dispatched =
       Column(v.entry.dispatched,
              v.entry.dispatched \/ v.decision = "submit", @)]
  /\ cases' = [cases EXCEPT ![d].status = Column(v.case.status, left, @)]
  /\ decisions' = [decisions EXCEPT ![d] = Append(@,
       [generation |-> g, decision |-> v.decision, decidedAt |-> v.at,
        phase |-> v.case.phase, confidence |-> v.entry.confidence,
        queue |-> v.entry.queue])]
  /\ ReviewerMoves(r, IF v.outcome = "none" THEN IdleReviewer
                      ELSE [v EXCEPT !.pc = "outcome"])
  /\ UNCHANGED <<history, handlers, acked, bundles, profiles, advice,
                 outcomes>>

(* record_outcome reads the active entry and the decision it pairs with    *)
(* the outcome; an outcome it does not know has been refused by then,      *)
(* after the decision was committed.                                       *)
LoadOutcome(r) ==
  LET v == reviewers[r]
      d == v.dispute
      g == ActiveGeneration(d)
      generation == IF g = 0 THEN 1 ELSE g IN
  /\ v.pc = "outcome"
  /\ v.outcome \in Outcomes
  /\ \/ \E i \in LatestDecisions(d, generation) :
          ReviewerMoves(r, [v EXCEPT !.pc = "logging", !.row =
            [generation |-> generation, outcome |-> v.outcome,
             dispatched |-> decisions[d][i].decision = "submit",
             confidence |-> decisions[d][i].confidence]])
     \/ /\ LatestDecisions(d, generation) = {}
        /\ ReviewerMoves(r, [v EXCEPT !.pc = "logging", !.row =
             [generation |-> generation, outcome |-> v.outcome,
              dispatched |-> g # 0 /\ queue[d][g].dispatched,
              confidence |-> IF g = 0 THEN Unmeasured
                                      ELSE queue[d][g].confidence]])
  /\ UNCHANGED <<ingestVars, tables>>

RefuseOutcome(r) ==
  /\ reviewers[r].pc = "outcome"
  /\ reviewers[r].outcome \notin Outcomes
  /\ ReviewerMoves(r, IdleReviewer)
  /\ UNCHANGED <<ingestVars, tables>>

LogOutcome(r) ==
  LET v == reviewers[r] IN
  /\ v.pc = "logging"
  /\ outcomes' = [outcomes EXCEPT ![v.dispute] = Append(@, v.row)]
  /\ ReviewerMoves(r, IdleReviewer)
  /\ UNCHANGED <<ingestVars, bundles, profiles, queue, advice, decisions>>

ReviewerStep(r) ==
  \/ \E d \in Disputes, body \in Requests : OpenReview(r, d, body)
  \/ LoadEntry(r) \/ CommitReview(r)
  \/ LoadOutcome(r) \/ RefuseOutcome(r) \/ LogOutcome(r)
  \/ ReviewAbort(r)

-----------------------------------------------------------------------------
(* What the rest of the back office does meanwhile.                        *)

(* The evidence assembler upserts the bundle of a case.                    *)
Assemble(d) ==
  /\ MayStart
  /\ cases[d] # NoRow
  /\ \E b \in Bundles : bundles' = [bundles EXCEPT ![d] = b]
  /\ UNCHANGED <<ingestVars, profiles, queue, advice, decisions, outcomes,
                 scorers, reviewers, now>>

(* The nightly batch upserts the risk profile of an account.               *)
MeasureRisk(d) ==
  /\ MayStart
  /\ \E f \in RiskFactors : profiles' = [profiles EXCEPT ![d] = f]
  /\ UNCHANGED <<ingestVars, bundles, queue, advice, decisions, outcomes,
                 scorers, reviewers, now>>

Tick ==
  /\ now < MaxNow
  /\ now' = now + 1
  /\ UNCHANGED <<ingestVars, tables, scorers, reviewers>>

Ingest ==
  /\ Overlap \/ WorkersIdle
  /\ Next
  /\ UNCHANGED reviewVars

ReviewNext ==
  \/ Ingest
  \/ \E w \in Scorers : ScorerStep(w)
  \/ \E r \in Reviewers : ReviewerStep(r)
  \/ \E d \in Disputes : Assemble(d) \/ MeasureRisk(d)
  \/ Tick

ReviewSpec == ReviewInit /\ [][ReviewNext]_allVars

-----------------------------------------------------------------------------
(* Properties that hold however the requests interleave.                   *)

(* Nothing is dispatched but by a human's submit, of that very generation, *)
(* and a submit is never lost: whatever scorers and reviewers write over   *)
(* each other from stale rows, a generation is dispatched exactly when a   *)
(* submit of it is on record (scoring/api.py:133-148, routing.py:254).     *)
DispatchedIffSubmitted ==
  \A d \in Disputes : \A g \in DOMAIN queue[d] :
    queue[d][g].dispatched <=>
      \E i \in DOMAIN decisions[d] :
        decisions[d][i].generation = g /\ decisions[d][i].decision = "submit"

(* A dispute rests in one queue place: only its newest generation is live, *)
(* and each one before it was closed by a dispatch or an outcome, although *)
(* two scorers may both see the reopen (routing.py:210-233).               *)
OneLiveGeneration ==
  \A d \in Disputes : \A g \in DOMAIN queue[d] :
    /\ queue[d][g].superseded <=> g < Len(queue[d])
    /\ queue[d][g].superseded => queue[d][g].dispatched \/ HasOutcome(d, g)

(* The outcome log never claims a dispatch that no human made              *)
(* (outcome.py:114-137).                                                   *)
OutcomesBacked ==
  \A d \in Disputes : \A i \in DOMAIN outcomes[d] :
    LET o == outcomes[d][i] IN
    /\ o.generation \in DOMAIN queue[d]
    /\ o.dispatched => \E j \in DOMAIN decisions[d] :
         /\ decisions[d][j].generation = o.generation
         /\ decisions[d][j].decision = "submit"

-----------------------------------------------------------------------------
(* Properties of requests served one at a time (Overlap = FALSE).          *)

(* What waits as a draft has passed every gate and the threshold: hard     *)
(* gates "bypass the score and route straight to a human"                  *)
(* (docs/failure-taxonomy.md:657, routing.py:166-176).  With Overlap two   *)
(* scorers can leave an entry with the queue of one beside the gates of    *)
(* the other (routing.py:236-254).                                         *)
DraftsUngated ==
  \A d \in Disputes : \A g \in DOMAIN queue[d] :
    queue[d][g].queue = "draft_for_submit" =>
      /\ queue[d][g].gates = {}
      /\ queue[d][g].confidence >= ConfidenceThreshold

(* A submit never takes a dispute out of a terminal status, and only ever  *)
(* moves one from open to under_review (scoring/api.py:141-142).           *)
ReviewKeepsVerdicts ==
  [][\A d \in Disputes :
       decisions'[d] # decisions[d] =>
         \/ cases'[d] = cases[d]
         \/ /\ cases[d].status = "open"
            /\ cases'[d] = [cases[d] EXCEPT !.status = "under_review"]
    ]_<<cases, decisions>>

(* Along the generations of a dispute the phase strictly advances, and     *)
(* only a reopened dispute has a second one (routing.py:213-230).          *)
GenerationsAdvance ==
  \A d \in Disputes : \A g \in DOMAIN queue[d] : g > 1 =>
    /\ queue[d][g].phase > queue[d][g - 1].phase
    /\ queue[d][g].wasReopened

(* A dispatch is current when some submit of the generation was made at    *)
(* the phase the entry was last scored at, or later.                       *)
DispatchCurrent(d, g) ==
  queue[d][g].dispatched =>
    \E i \in DOMAIN decisions[d] :
      /\ decisions[d][i].generation = g
      /\ decisions[d][i].decision = "submit"
      /\ decisions[d][i].phase >= queue[d][g].phase

(* A reopened dispute never rests on the submit of an earlier phase: the   *)
(* entry scored after the reopen waits for a decision of its own           *)
(* (routing.py:21-28).                                                     *)
ReopenedDispatchCurrent ==
  \A d \in Disputes : \A g \in LiveGenerations(d) :
    queue[d][g].wasReopened => DispatchCurrent(d, g)

(* "A dispute at pre_arbitration or later always goes to a human"          *)
(* (scorer.py:27): it is not left out of the review queue because an       *)
(* earlier phase was dispatched.  A dispute that escalates without being   *)
(* reopened keeps its dispatched entry, so this one is refuted.            *)
EscalatedDispatchCurrent ==
  \A d \in Disputes : \A g \in LiveGenerations(d) :
    queue[d][g].phase >= EscalationPhase => DispatchCurrent(d, g)

=============================================================================
