------------------------------ MODULE Pipeline -------------------------------
(***************************************************************************)
(* The end-to-end pipeline (src/pipeline.py): assemble the evidence of a   *)
(* dispute, score and route it, write the summary on the case, in three    *)
(* transactions of one request; and the endpoint that only assembles.      *)
(*                                                                         *)
(* A worker of Scorers serves either of them, or a bare recommendation.    *)
(* The assembler here takes the place of Review's Assemble: what the       *)
(* scorer reads of a bundle, bundles, is kept equal to that part of the    *)
(* detailed row, evidence.                                                 *)
(***************************************************************************)
EXTENDS Review, Evidence

CONSTANTS
  Records,  \* what the external store may hold when it is read
  Answers   \* what the language model may answer

ASSUME RecordsAssumption == Records \subseteq EvidenceRecords
ASSUME AnswersAssumption == Answers \subseteq ModelAnswer
ASSUME NoEvidenceAssumption == NoRow \notin EvidenceBundle

VARIABLES
  evidence,   \* evidence_bundles, in detail
  summaries,  \* the assembled_evidence column of the case
  runners     \* what each worker has in hand of an assembly or a run

pipelineVars == <<evidence, summaries, runners>>
systemVars   == <<allVars, pipelineVars>>

Summary ==
  [assembly: {"complete", "partial", "pending"}, completeness: -1..100,
   status: [SourceSlots -> SlotStatuses], source: {"template", "llm", "none"}]

IdleRunner ==
  [stage |-> "idle", whole |-> FALSE, dispute |-> NoRow, category |-> Manual,
   found |-> NoRow, result |-> NoRow]

RunnerState ==
  [stage: {"idle", "read", "storing", "scoring", "summing"}, whole: BOOLEAN,
   dispute: Disputes \union {NoRow}, category: Categories,
   found: EvidenceBundle \union {NoRow},
   result: EvidenceBundle \union {NoRow}]

PipelineTypeOK ==
  /\ ReviewTypeOK
  /\ \A d \in Disputes :
       /\ evidence[d] \in EvidenceBundle \union {NoRow}
       /\ summaries[d] \in Summary \union {NoRow}
  /\ \A w \in Scorers : runners[w] \in RunnerState

PipelineInit ==
  /\ ReviewInit
  /\ evidence = [d \in Disputes |-> NoRow]
  /\ summaries = [d \in Disputes |-> NoRow]
  /\ runners = [w \in Scorers |-> IdleRunner]

-----------------------------------------------------------------------------
RunnersIdle == \A w \in Scorers : runners[w].stage = "idle"

RunnerMoves(w, state) ==
  /\ runners' = [runners EXCEPT ![w] = state]
  /\ UNCHANGED <<ingestVars, profiles, queue, advice, decisions, outcomes,
                 reviewers, now>>

(* What the scorer reads of a bundle.                                      *)
ScoringView(b) ==
  [completeness |-> b.completeness, pending |-> b.assembly = "pending",
   manual |-> b.manual]

SummaryOf(b) ==
  [assembly |-> b.assembly, completeness |-> b.completeness,
   status |-> b.status, source |-> b.letter.source]

(* assemble_evidence reads the case; whole says that a run goes on after.  *)
StartAssembly(w, d, whole) ==
  /\ runners[w].stage = "idle"
  /\ scorers[w].pc = "idle"
  /\ MayStart
  /\ Overlap \/ RunnersIdle
  /\ cases[d] # NoRow
  /\ RunnerMoves(w, [IdleRunner EXCEPT
       !.stage = "read", !.whole = whole, !.dispute = d,
       !.category = cases[d].category])
  /\ UNCHANGED <<evidence, summaries, bundles, scorers>>

(* It fetches the records, has the letter written, and loads the row.      *)
BuildBundle(w) ==
  /\ runners[w].stage = "read"
  /\ \E records \in Records, answer \in Answers :
       RunnerMoves(w, [runners[w] EXCEPT
         !.stage = "storing",
         !.found = evidence[runners[w].dispute],
         !.result = AssembledBundle(runners[w].category, records, answer)])
  /\ UNCHANGED <<evidence, summaries, bundles, scorers>>

(* A bundle that is there already is left as it is.                        *)
StoredBundleMutant(found, result, stored) ==
  IF found = NoRow THEN result ELSE stored

StoredBundle(found, result, stored) ==
  IF found = NoRow THEN result ELSE MergedBundle(found, result, stored)

(* The upsert; an insert that finds a row there fails (Fail).              *)
StoreBundle(w) ==
  LET r == runners[w]
      stored == StoredBundle(r.found, r.result, evidence[r.dispute]) IN
  /\ r.stage = "storing"
  /\ r.found = NoRow => evidence[r.dispute] = NoRow
  /\ evidence' = [evidence EXCEPT ![r.dispute] = stored]
  /\ bundles' = [bundles EXCEPT ![r.dispute] = ScoringView(stored)]
  /\ RunnerMoves(w, IF r.whole THEN [r EXCEPT !.stage = "scoring"]
                               ELSE IdleRunner)
  /\ UNCHANGED <<summaries, scorers>>

(* score_and_route, in the same thread.                                    *)
Score(w) ==
  /\ runners[w].stage = "scoring"
  /\ \/ /\ scorers[w].pc = "idle"
        /\ StartScoring(w, runners[w].dispute)
        /\ UNCHANGED runners
     \/ /\ FinishInputs(w) \/ LoadActive(w)
        /\ UNCHANGED runners
     \/ /\ RouteFirst(w) \/ RouteAgain(w) \/ RouteReopened(w)
        /\ runners' = [runners EXCEPT ![w].stage = "summing"]
  /\ UNCHANGED <<evidence, summaries>>

(* The summary is that of the bundle this run assembled, not of the stored *)
(* one.                                                                    *)
Summarise(w) ==
  LET r == runners[w] IN
  /\ r.stage = "summing"
  /\ summaries' = [summaries EXCEPT ![r.dispute] = SummaryOf(r.result)]
  /\ RunnerMoves(w, IdleRunner)
  /\ UNCHANGED <<evidence, bundles, scorers>>

(* The process dies, or a transaction fails or conflicts: what has been    *)
(* committed stays.                                                        *)
Fail(w) ==
  /\ runners[w].stage # "idle"
  /\ RunnerMoves(w, IdleRunner)
  /\ scorers' = [scorers EXCEPT ![w] = IdleScorer]
  /\ UNCHANGED <<evidence, summaries, bundles>>

RunnerStep(w) ==
  \/ \E d \in Disputes, whole \in BOOLEAN : StartAssembly(w, d, whole)
  \/ BuildBundle(w) \/ StoreBundle(w) \/ Score(w) \/ Summarise(w) \/ Fail(w)

(* The requests of the other components.                                   *)
Elsewhere ==
  /\ Overlap \/ RunnersIdle
  /\ \/ Ingest
     \/ \E w \in Scorers : runners[w].stage = "idle" /\ ScorerStep(w)
     \/ \E r \in Reviewers : ReviewerStep(r)
     \/ \E d \in Disputes : MeasureRisk(d)
  /\ UNCHANGED pipelineVars

PipelineNext ==
  \/ \E w \in Scorers : RunnerStep(w)
  \/ Elsewhere
  \/ Tick /\ UNCHANGED pipelineVars

PipelineSpec == PipelineInit /\ [][PipelineNext]_systemVars

-----------------------------------------------------------------------------
(* Properties of requests served one at a time (Overlap = FALSE), with     *)
(* failures between any two transactions.                                  *)

(* However often a dispute is assembled, under whatever categories it has  *)
(* had and whatever the language model answers, the stored bundle is       *)
(* coherent: no content, claim or measure of an earlier assembly remains   *)
(* (assembler.py:462-504).                                                 *)
EvidenceCoherent ==
  \A d \in Disputes : evidence[d] # NoRow => Coherent(evidence[d])

(* The advisory columns of the case are those of its live queue entry,     *)
(* whichever request scored it last and whatever failed since              *)
(* (routing.py:236-260).                                                   *)
AdviceMatchesEntry ==
  \A d \in Disputes : LiveGenerations(d) # {} =>
    LET e == queue[d][ActiveGeneration(d)] IN
    /\ advice[d].confidence = e.confidence
    /\ advice[d].action = e.action

(* A run that gets to its end leaves the tables in agreement: the bundle   *)
(* is of the category the case has now, the queue entry was scored from    *)
(* that bundle at the present phase, and the summary describes it          *)
(* (pipeline.py:68-81).                                                    *)
FinishedRunAgrees ==
  [][\A w \in Scorers : Summarise(w) =>
       LET d == runners[w].dispute
           b == evidence[d]
           e == queue[d][ActiveGeneration(d)] IN
       /\ b.category = cases[d].category
       /\ e.phase = cases[d].phase
       /\ e.confidence = -1 <=> b.assembly = "pending"
       /\ "needs_manual_classification" \in e.gates <=> b.manual
       /\ e.queue = "draft_for_submit" => 65 * b.completeness >= 3700
       /\ summaries'[d].assembly = b.assembly
       /\ summaries'[d].status = b.status]_systemVars

(* The pipeline adds nothing to Review but the bundles it leaves: seen     *)
(* without the assembler's own state, each of its steps is one of the      *)
(* scorer's, an Assemble that leaves one of Bundles, or nothing at all     *)
(* (pipeline.py:68-81).  What is checked and proved of Review holds of it. *)
ImplementsReview == ReviewSpec

-----------------------------------------------------------------------------
(* The template letter has "one short, factual paragraph per present slot" *)
(* (letter.py:11-12).  A present cancellation proof never gets one, so     *)
(* this one is refuted.                                                    *)
TemplateTellsAll ==
  \A d \in Disputes :
    evidence[d] # NoRow /\ evidence[d].letter.source = "template" =>
      evidence[d].letter.tells = evidence[d].content

=============================================================================
