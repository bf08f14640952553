# A TLA+ model of the dispute back office

The program receives chargeback webhooks, keeps one case row per dispute with a
trail of phase history behind it, assembles evidence, scores the case, puts it
in one of two queues, lets a human dispatch it, logs outcomes, and flags
disputes whose deadline is near. It is a FastAPI application over one SQLite
store that it writes and one that it only reads. This directory models its
stateful core in TLA+, checks it with TLC on small instances, and proves with
TLAPS, for every value of the constants, all that is checked of it but liveness.

## 1. Inventory

| component | source | state it keeps | operations | modelled by |
|---|---|---|---|---|
| shared vocabulary, sessions | `common/` , `ingestion/classification.py` | none | phase order, classification, session commit | `DisputeTypes` |
| ingestion router | `ingestion/service.py` | `dispute_cases`, `dispute_phase_history` | `ingest_dispute_event`, `was_reopened` | `Ingestion`, `CaseLedger` |
| scoring and routing | `scoring/scorer.py`, `scoring/routing.py` | `review_queue_entries`, two advisory columns of the case | `score_dispute`, `score_and_route` | `Review` |
| human review gate, outcome log | `scoring/api.py`, `scoring/outcome.py` | `human_review_decisions`, `outcome_log`, the `dispatched` column, the case's status | `post_review`, `record_outcome` | `Review` |
| deadline monitor | `scoring/deadline.py` | `deadline_flags` | `run_deadline_scan` | `Deadline` |
| evidence assembler, letter | `evidence/` | `evidence_bundles` | `assemble_evidence`, `build_explanation_letter` | `Evidence`, `Pipeline` |
| risk batch | `risk/` | `account_risk_profile` | `run_nightly_batch`, `ensure_risk_profiles` | `RiskGraph`, `RiskBatch`; an input of `Review` |
| pipeline | `pipeline.py`, `main.py` | `assembled_evidence` of the case | `run_pipeline` | `Pipeline` |
| external store, as built | `synthetic/build.py`, `synthetic/schema.py` | the file `external.db` | a build and a rebuild | `RiskBatch` |
| language model client | `common/llm.py` | none | `generate` | an arbitrary answer in `Evidence` |
| compliance graph, generation of the data, QA harness | `compliance/`, the rest of `synthetic/`, `qa/` | none that the system decides on | | not modelled |

**How they interact.** Everything meets in the tables. The webhook changes a
case; the scorer reads the case, the trail, the bundle and the risk profile and
writes the queue; a reviewer reads the case and the queue entry and writes both;
the outcome log reads the entry and the decisions, and the scorer reads the
outcome log to tell whether a generation is over; the monitor reads all cases.
The risk batch reads four tables of the external store, which a build replaces as
a file, and writes the one row per account that the scorer reads.

**What is hard about it.** The endpoints are plain `def` functions, which
FastAPI runs in a thread pool, so any two requests may overlap. A session
(`common/db.py`) is opened on SQLite with the driver's default isolation: a
`SELECT` takes no transaction, so each read sees what is committed at that
moment, and nothing it read is still true by the time the session commits. The
ORM then writes only the columns whose value differs from what it loaded.
Hence stale decisions, lost increments, and rows that mix two writers. Webhooks
may be lost, repeated and reordered. A process may die between any two
transactions. Timestamps are whole seconds and may be missing.

**What makes each component correct.** *Router*: one row per dispute; the phase
never goes back; the trail is append-only and explains the row; an event takes
effect once; a reopen is counted exactly when a terminal dispute moves to a later
phase. *Scoring*: a draft passed every gate; one live generation, of strictly
later phase than the ones before. *Review gate*: dispatched exactly when a human
submitted; a verdict is never overwritten; no stale submit covers a reopened
dispute. *Outcome log*: no dispatch claimed that nobody made. *Monitor*: every
urgent case ends up flagged, no resolved one stays flagged, the first flag time
stands. *Assembler*: a bundle's content, statuses, measure and letter agree, and
the letter claims nothing that is not present, whatever the language model
answers. *Pipeline*: a run that gets to its end leaves bundle, queue, case advice
and summary in agreement, whatever failed before it. *Risk batch*: every account
gets the profile that the present store gives it, in one piece; what an account
does among its own does not make it risky; no transfer falls between two windows.

## 2. The modules

```
DisputeTypes            phases, statuses, categories, what a commit writes
  CaseLedger            abstract: one atomic standing per dispute
  Ingestion             the webhook router; INSTANCEs CaseLedger
    IngestionProofs     TLAPS: type, append-only trail, sound reopens, counters
      IngestionSerialProofs   TLAPS: no rollback, ids once, the trail, refinement
    Review              scoring, routing, review, outcomes over the router
      ReviewProofs      TLAPS: type, dispatches, generations, outcomes
        ReviewSerialProofs    TLAPS: drafts, order, reopens, verdicts
    Deadline            the deadline scan over the router
      DeadlineProofs    TLAPS: type, causes, first flags, complete scans
  Evidence              assembler and letter, as functions
    EvidenceProofs      TLAPS: every assembly is coherent
    Pipeline            assemble, score, summarise: extends Review and Evidence
      PipelineProofs    TLAPS: type, refinement of Review, agreement after a run
  RiskGraph             windows, deviations, profiles, returns score, as functions
    RiskBatch           builds of the external store, and batches over it
      RiskProofs        TLAPS: type, windows, scores, batches that land
MCIngestion, MCReview, MCDeadline, MCPipeline, MCRisk     constants for TLC
```

### Ingestion

`cases` and `history` are the two tables; `handlers` is what each worker thread
has in hand. One webhook is three steps, because the code has three points where
others can get in: load the case row (`Receive`, `service.py:237`), load its
history (`LoadHistory`, 270), and the commit. The commit is one action per path:
`Create`/`CreateConflict` (239-268), `Noop` (steps 1 and 2), `Advance` (step 3),
`RecordStale` (step 4), `Amend` (step 5). `Abort` is a crash, or a lock timeout,
before the commit; with no 200 the sender may deliver again, and `Receive` lets
it deliver any event at any time anyway. `MergedRow` writes a column only if the
session changed it (`Column` in `DisputeTypes`), which is what an ORM commit
does. `acked` belongs to the sender, not to the program: it is what "replay"
means, and only the run that needs it watches any event.

`Overlap = FALSE` serves one webhook at a time; with `TRUE` handlers interleave
freely. Properties are stated under the discipline they need, and the ones the
code only keeps without overlap are stated without it (see 4).

Abstracted: a phase and its rank are one number; a reason code is the category
the table gives it, any other string being one it does not list; amounts, texts
and the network name are left out, as nothing decides on them. An absent event
id or timestamp is `""` or 0, which the code treats alike.

### Review

Extends `Ingestion`, so the router keeps changing cases underneath. A scorer
has one step per transaction of the code: the case and the bundle
(`StartScoring`), `was_reopened` and the risk profile (`FinishInputs`), the
active entry (`LoadActive`), and the commit (`RouteFirst`, `RouteAgain`,
`RouteReopened`, or `RouteConflict` when the unique constraint refuses it). A
reviewer loads the case (`OpenReview`), the entry (`LoadEntry`), commits
(`CommitReview`), and, if an outcome came along, reads what to pair it with
(`LoadOutcome`) and appends it (`LogOutcome`); an unknown outcome fails only
then (`RefuseOutcome`). `ScoringAbort` and `ReviewAbort` are failures at any
step, including those between two commits. `Assemble`, `MeasureRisk`, `Tick` and
`Ingest` are the rest of the system.

A queue entry's generation is its index: the code only ever inserts generation
1, or the active one plus one, under a unique constraint. Scores are integers:
completeness and risk factor in percent, confidence in ten-thousandths, so
`65 * completeness + 35 * risk` against 7200. Two reads that no other action can
tell apart are one step: no action writes the tables of both. Priority, rationale
and citations are left out. The latest decision is any with the greatest
`decided_at`, because the query has no tie-break.

### Deadline

Extends `Ingestion`. A scan loads all cases (`StartScan`), then all flags
(`LoadFlags`), and commits the flags of all cases at once (`CommitScan`) or
none (`ScanConflict`, `ScanAbort`). `ScannedFlag` is the loop body as a function
of one case, one flag and one time.

### Evidence

No state: from a category, the external records and the model's answer to a
bundle. `Extracted` is `_extract_slot`: the availability row must name the slot
and a backing row must be there. A letter is the set of slots it makes a claim
about; for a text of the language model those are the slots whose claim keywords
occur in it, which is all the guard (`_violates_grounding`) sees. That a text may
claim something in other words is beyond the code and beyond the model.
Completeness is in percent, rounded down (the code keeps the fraction): the only
values that differ are thirds, and with the run's risk factor of 100 percent the
scorer's threshold does not lie between 33 and a third, nor between 66 and two
thirds.

### Pipeline

Extends `Review` and `Evidence`. A worker that is assembling or running has a
runner state over its scorer state: the case read (`StartAssembly`), the records,
the model's answer and the stored row read (`BuildBundle`), the upsert
(`StoreBundle`), the steps of `Review`'s scorer (`Score`), the summary
(`Summarise`). `Fail` is a crash, a refused insert or a lock timeout anywhere
between; what is committed stays, and nothing resumes a run. `Elsewhere` is
everything of `Review` except its `Assemble`, which the assembler here replaces;
`ImplementsReview` checks that the replacement is sound.

### RiskGraph

No state: from a log of transfers and the account table to one profile per
account. `RollingWindows` is `rolling_windows`; `WindowSignals` is what one window
says of each account; `Profile` is the loop body of
`compute_graph_profiles`, with the emergence term (`EmergenceAt`) and the windowed
one (`DeviationAt`), each at the window where it peaks; `ReturnsScore` is
`compute_returns_signal`. Betweenness is computed exactly, by counting shortest
paths. PageRank is a parameter of the module: it is a float iteration, and TLC
gets its first iterate. Deviations are in hundredths and centralities in
ten-thousandths, rounded down, where the code has floats. Timestamps are days, and a
log spans as many windows as it likes. `RobustZ` takes a baseline of any length, as a
function on its windows: `Middle` is twice its median, so that the mean of two middle
values stays whole, `Spread` is twice its standard deviation, a whole root.

### RiskBatch

`files` is the external store as the succession of its files: a build unlinks the
old one and creates another with empty tables (`BeginBuild`), which one commit
fills (`CommitBuild`); a build that dies is followed by another. A process that has
opened a file keeps reading that one, as an open SQLite connection does where a
file in use can be unlinked. `rows` is `account_risk_profile`. A batch is started by the
scheduler (`RunNightly`) or by a start of the application that finds the table
empty (`EnsureProfiles`), reads the four tables in four sessions (`LoadEdges`, which
opens the file, to `LoadDense`), loads all rows (`LoadRows`) and commits all of
them (`CommitBatch`), or none if another batch has inserted one meanwhile
(`CommitConflict`) or it dies (`BatchAbort`). A commit writes the columns that differ
from what was loaded, so rows can mix two batches until the next one.

Each batch is a process of its own, `python -m src.risk.batch` or a starting
application, so it opens the file afresh. A scheduler inside a long-lived
process would keep its pooled connection to a file since removed, and
`ProfilesSettle` would not hold of it.

The tables of a store go by a name (`Stored`), and `ProfilesOf` tabulates the
profiles for every log and account table a batch may put together, the mixed
ones included. Columns that are only displayed (velocity, recency, fan-out,
baseline means, provenance) are left out, and of the raw columns of the return
history one stands for all.

### CaseLedger

What the docstring of the router promises, without handlers or events: a dispute
is opened once, escalates to a later phase (a reopen exactly out of a terminal
status) or is noted, and its trail grows by one each time. `ImplementsLedger`
maps a dispute's case row and trail length to its standing.

## 3. Runs that pass

| run | question | properties |
|---|---|---|
| `ingest_serial` | are the router's guarantees kept whatever the sender does? | `TypeOK`, `TrailExplainsCase`, `EventIdAppliedOnce`, `NeverRollsBack`, `ImplementsLedger` |
| `ingest_overlap` | what survives two webhooks at once? | `CountersBacked`, `ReopenHasTerminalPast`, `TrailOnlyGrows` |
| `review_serial` | do gates, generations and verdicts hold over a whole life? | `ReviewTypeOK`, `DraftsUngated`, `GenerationsAdvance`, `ReopenedDispatchCurrent`, `ReviewKeepsVerdicts` |
| `review_overlap` | what survives two scorers, a reviewer and the router at once? | `DispatchedIffSubmitted`, `OneLiveGeneration`, `OutcomesBacked` |
| `deadline_scan` | are flags right after a scan, and in the end? | `DeadlineTypeOK`, `RetiredWithCause`, `FirstFlagStands`, `ScanComplete`, `FlagsSettle` |
| `pipeline_serial` | do the tables agree after a run, whatever failed before? | `PipelineTypeOK`, `EvidenceCoherent`, `AdviceMatchesEntry`, `FinishedRunAgrees`, `ImplementsReview` |
| `risk_batch` | are the profiles what they promise to be, and does the table catch up with the store? | `RiskTypeOK`, `TransfersWindowed`, `BurstsStayLow`, `ReturnsMonotone`, `UnracedBatchLands`, `ProfilesSettle` |

Each module's type invariant is checked in one run; that it holds with overlap too is
what `TypeCorrect` and `ReviewTypeCorrect` prove.

**Bounds.** `MaxHistory` stops deliveries once a trail is that long (with overlap
it can grow a little beyond, by the handlers in flight); the event sets are a
handful of deliveries that reach each path of the router: open, won, reopened
at pre-arbitration, arbitration, a second id for the same state, an event with
neither id nor timestamp and an unlisted code. One dispute is enough for the
router and the queue because every decision reads rows of one dispute only; the
deadline scan has two, because its commit is all or nothing across disputes.
Two handlers, scorers or scanners are the least that can race; the code takes no
decision that needs a third. `MaxDecisions = 2` allows a submit in one
generation and a decision in the next or a repeated one; `MaxNow = 1` lets two
decisions tie or not; `Times` puts the clock outside a window, inside it and
past the deadline, and the second dispute may have no deadline at all. In `pipeline_serial` the dispute is a consumer dispute, then a
fraud, then under a code nobody lists, so that each assembly needs other slots
than the one before; the store has every row, or an availability row that
promises a shipment that is not there; the model is silent or makes a claim that
is true of only one of the two. In `risk_batch` a regular account, two shops of its
cluster, a payroll and a fringe account have fourteen logs between them. In ten of
them, of at most five windows, the account starts at once or late, then is quiet,
bursts among its own, is paid a lot or turns to the fringe, in either of the last two
weeks; one of them has a single instant and one four days. The other four are of
thirteen windows, as the data the repository generates is: the account is
steady, jolted once, wavering or absent at first, which makes baselines of three to five
windows in which each of the three scales (floor, median absolute deviation,
standard deviation) is the greatest in turn. Deviations come out in all three bands. One store is
rebuilt into another that has lost an account and a return history, under two
batches. `CHECK_DEADLOCK FALSE`, as the bounds make the environment stop in the
end, except in `risk_batch`, where batches never do.

**Fairness.** Only `FlagsSettle` and `ProfilesSettle` need any. *Scans*: a scan is started again and again
(weak fairness of `StartScan`), and a scan that could load its flags or commit
infinitely often at last does (strong fairness of `LoadFlags` and `CommitScan`,
since an abort or a conflict may disable them in between). Nothing in the program
schedules a scan: `deadline.py:3-6` leaves that to an external trigger, and the
assumption is on that trigger and on its calls not failing for ever. Webhooks
and the clock are under no fairness. *Batches*: only the scheduler's process is under
fairness, strong for each of its steps, since an abort may come before any of
them: it is called again and again (`batch.py:9-10` leaves that to a trigger) and
not every call dies. The other batches, the builds and the starts of the application may
stop anywhere for ever; a rebuild that never commits leaves an empty store, of
which nothing has to be in the table.

## 4. Runs that end in a violation

Each states what a text of the repository says, and TLC finds the code doing
otherwise.

| run | text | what happens |
|---|---|---|
| `ingest_replay` | `service.py:5` replaying the same event id never mutates the case | An event answered as a step-2 no-op is not recorded. After another event has changed the status, its replay is neither a known id nor the same state, and with equal timestamps it amends the case. |
| `review_escalated` | `scorer.py:27` a dispute at pre-arbitration or later always goes to a human | A dispatched dispute escalates without ever being terminal: no reopen, no new generation, and the rescored entry stays dispatched, which the queue listing leaves out. |
| `deadline_window` | `scoring/models.py:227` a flag means within 48h and unresolved | The deadline of a flagged dispute moves out of the window; each later scan skips the case before it looks at the flag. |
| `pipeline_letter` | `letter.py:11` one paragraph per present slot | The fact handed over for a present cancellation proof is always empty, and the template skips empty facts: the letter leaves the evidence out and then says that what it does not mention is not relied on. |
| `risk_unmeasured` | `scorer.py:19` we never assume low risk for an unmeasured account | The batch writes a row for every account it knows. One without a transfer in any window, in a log that measures the others, gets deviation 0 and no window; the scorer finds a profile, so its factor is the best there is and the gate for missing profiles does not fire. |

The serial runs state what the code keeps of requests served one at a time. Two of
their properties contradict a text once requests overlap, as TLC shows when `Overlap`
is `TRUE`. `NeverRollsBack` (`service.py:12`, "Out-of-order delivery never rolls a case
backwards"): `MCIngestion_overlap.cfg` with this property ends with two handlers that
load the case at chargeback; one commits arbitration, the other its advance to
pre-arbitration over it. `DraftsUngated` (`routing.py:3`, "High confidence and no hard
gate"): `MCReview_overlap.cfg` with this property, `JustOpened`, `TwoBundles` and a risk
factor ends with two scorers that load an entry of the human queue; one finds a
bundle and moves it to the drafts, the other, which found none, writes its gates and
leaves the queue it loaded alone. Two more contradict no text: a review may
overwrite a verdict that a webhook brings between its load and its commit
(`ReviewKeepsVerdicts`), and a batch lands whole only when no other commits there
(`UnracedBatchLands`).

## 5. Proofs

The theorems are about `Spec` of `Ingestion`, `ReviewSpec`, `DeadlineSpec`,
`PipelineSpec` and `RiskSpec`, for any sets of disputes, events, handlers,
scorers, reviewers, scanners and batches, any external store and any bound. They
assume what these modules assume of their constants, which TLC evaluates for its
instances: events have the type `extract_dispute_fields` returns; bundles, risk
factors, review bodies, records and answers that of their tables and schema;
`NoRow` is no row and no event; there are finitely many accounts; a store is a
finite log; a rank of PageRank is not negative.
A theorem about requests served one at a time says `Overlap = FALSE`, for the same
reason as its run (see 4).

Each theorem states a property that TLC checks, and rests on an invariant that
TLC checked first. Hardly any is inductive alone, because commits act on what an
earlier transaction read; what has to be added is, each time, why a stale read
does no harm.

**The router.**

* `TypeCorrect`: `Spec => []TypeOK`, strengthened by `HandlersHold`: a busy
  handler holds an event, one that is ready holds a case row, and a loaded row
  is of a case that still exists. The commits need it to be typed.
* `AppendOnly`: `Spec => TrailOnlyGrows`. By cases on the action: only the
  commits touch `history`, and each appends.
* `ReopenSound`: `Spec => []ReopenHasTerminalPast`, under overlap. A handler flags
  a reopen on the status it loaded, which may no longer be the stored one. The
  strengthening says that a terminal status in a handler's hand, and in a case
  row, has a row of that status in the trail; trails only grow, so the loaded
  one's witness never goes away.
* `CountersSound`: `Spec => []CountersBacked`, under overlap. Two handlers may
  write the same counter over each other. `CountersInv` says of a loaded row too
  that the trail has a row for each thing it counts: what is copied from a stale
  row only falls behind. The lemmas on what an append does to the number of such
  rows come from those on finite sets.
* `NoRollback`, `AppliedOnce`, `TrailExplains`, `RefinesLedger`: under
  `Overlap = FALSE`. The invariant is `SerialInv`: at most one handler is busy,
  and what it has in hand is what the tables hold. From it a commit's merge is
  the plain assignment, the id check sees the whole trail, and each commit is a
  step of `CaseLedger` while all other steps stutter.

**Scoring and review**, with every overlap allowed: `ReviewTypeCorrect`,
`DispatchSound` (`DispatchedIffSubmitted`), `OneLive` (`OneLiveGeneration`) and
`OutcomesSound` (`OutcomesBacked`). `ReviewInv` adds what a worker has in hand. A
reviewer about to decide (`ReviewerHolds`): the generation exists, and an entry
it saw dispatched is dispatched still, so that leaving the column alone is right;
about to log: a row that claims a dispatch has a submit on record. A scorer about
to route (`ScorerHolds`): its generation exists, and one it means to leave was
dispatched or has an outcome. It also adds that a decision is about a generation
that exists (`DecisionsPlaced`), so a new generation is born without a submit. All
of this is stable (`TablesGrow`): generations, dispatches, submits and outcomes
are never taken back, by any step of anyone. Each action then needs only its own
worker's part. That the router runs underneath is covered by `TypeInvStep` and
`TrailStep` of `IngestionProofs`: its steps create cases and never remove one. A
reviewer's commit, which writes the status of a case behind the router's back, is
shown to keep the router's `TypeInv`.

Under `Overlap = FALSE`: `DraftsSound` (`DraftsUngated`), `GenerationsOrdered`
(`GenerationsAdvance`), `ReopenedDecidedAnew` (`ReopenedDispatchCurrent`) and
`VerdictsKept` (`ReviewKeepsVerdicts`). `ReviewSerialInv` says that one request is
at work in the whole system (`OneAtWork`), so that what it has read is what is
stored (`WorkersCurrent`), and what relates a queue to its case, its decisions and
its advice (`QueuesFine`). The least obvious
part is `EntrySeen`: an entry not marked as reopened, of a case that is, was scored at an
earlier phase than the case has now; without it a rescore after a reopen could
keep a dispatched generation.

**The deadline monitor**, however scans and webhooks interleave:
`DeadlineTypeCorrect`, `RetiredSound` (`RetiredWithCause`), `FirstFlagKept`
(`FirstFlagStands`) and `ScansComplete` (`ScanComplete`). A scan decides by tables
that may be arbitrarily old. `ScanHolds` says what remains true of them: a case
or flag that was there is there, and a status loaded as terminal has a row in the
trail, which never goes away. A complete scan flags what is urgent, an overdue case
included, and nothing else anew, a case without a deadline included.

**Evidence.** `AssemblyCoherent`: whatever the category, the records and the
model's answer, a bundle is `Coherent`, measured exactly when its category has
required slots. Slots are few (`SevenSlots`), so that rounding down takes no
incomplete bundle to 100 percent and no started one to 0.

**The pipeline.** `PipelineTypeCorrect`, with every overlap allowed. `RefinesReview`
(`ImplementsReview`), also under overlap: a bundle stored is an `Assemble` of
`Review`, the scorer's steps are the scorer's, which a run takes in its second
stage only (`ScorersRest`), and the rest stutters. The theorem has the hypothesis
`Bundles = Bundle`: `Review`'s assembler may leave any bundle of its type, which no
action of `PipelineSpec` depends on. What is proved of `ReviewSpec` thereby holds of
the pipeline. Under `Overlap = FALSE`: `EvidenceSound` (`EvidenceCoherent`),
`AdviceSound` (`AdviceMatchesEntry`) and `RunsAgree` (`FinishedRunAgrees`), from
`PipelineSerialInv`: what a worker has in hand of a run is what is stored
(`RunnerCurrent`), the newest entry at the end of a run is scored from its
bundle (`ScoredFrom`), and what the scorer sees of a bundle is the stored one
(`BundlesSeen`).

**The risk batch**, however batches and builds overlap. `RiskInv` says that the
rows a batch loaded are rows still, as none is ever deleted, so that a commit
merges the columns of two rows (`MergedTyped`), and that a batch past its first
read has a file. From it:

* `RiskTypeCorrect` (`RiskTypeOK`). Nearly all of the work is in that what a batch
  computes is a row: sums, walks, betweenness, and the medians, roots and spreads of
  a baseline of any length are naturals (`MedianInteger`, `RootNatural`,
  `SpreadNatural`), no divisor is zero, deviations are at most 3200 and returns
  scores 10000.
* `EveryTransferWindowed` (`TransfersWindowed`), for a log over any number of days:
  `NoGap` gives the window of a day, and an account with a counterparty in it is
  active there.
* `BurstsNotTrusted` (`BurstsStayLow`), for a baseline of any length: an account that
  keeps to its own has no risky counterparty in any window, so of the terms of its
  score only the gated one remains, 15 percent of at most 2000, below the 400 of the
  next band.
* `ReturnsNeverReward` (`ReturnsMonotone`): term by term (`ReturnsWorse`).
* `BatchesLand` (`UnracedBatchLands`): what is merged over the row that was loaded is
  what was assigned (`MergedAlone`), assigning it again changes nothing
  (`AssignedTyped`), and the band is high where the factor is 0 (`BandsAgree`).

The sums are `MapThenSumSet`, a fold whose definition is recursive over the
subsets of a set; `Walks` recurs over lengths. That these have a solution
(`SumExists`, `WalksExist`), only one (`SumUnique`) and a natural one is induction, which
the library's theorems state over an operator. It is done instead by the least
counterexample: a set of bad sizes or lengths has a least member, and a set of bad
subsets one that contains no other (`SmallestSubset`), which is shown not to be bad.

**Model-checked only.** `FlagsSettle` and `ProfilesSettle`: liveness under
fairness is out of the prover's reach. That the numbers are the right ones
(that `Median` is the middle value, that `Walks` counts walks) is not stated
as a theorem; that they are in range is. The five runs of section 4 refute what
they check, so there is nothing to prove there.

## 6. Plan

1. What the functions compute, not only its range: that half of the values of a
   function lie on either side of its `Median`, and that a transfer lies in at most two
   windows.
2. `FlagsSettle` and `ProfilesSettle` reduced to what fairness gives: the safety
   half (once a scan or batch has seen everything, nothing it does is undone) as
   action properties, which can be proved.
3. An abstract specification for the monitor, a set of urgent disputes with the hour
   each was first seen, and the scan as its refinement when nothing overlaps.

## 7. Not modelled

The compliance graph (constants that decorate rows), the HTTP call of the LLM
client (its answer is arbitrary in `Evidence`), the generation of the synthetic
data (a pure function of a seed; what a reader sees of a build is in `RiskBatch`)
and the QA harness (it replays held-out cases through the pipeline and counts):
none has state that the system decides on. PageRank over floating point is a
parameter. Rows'
display columns, and payloads that fail to parse: those are refused before any
state is read.
