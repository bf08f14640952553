----------------------------- MODULE RiskBatch -------------------------------
(***************************************************************************)
(* The nightly risk batch (src/risk/batch.py: run_nightly_batch) over the  *)
(* external store and the account_risk_profile table.                      *)
(*                                                                         *)
(* A batch opens the external store, reads its tables one by one, computes,*)
(* loads the profile rows and commits them all in one transaction.  It has *)
(* no lock and no record of being started: the scheduler's batch, one that *)
(* a start of the application runs because the table is empty, and a       *)
(* rebuild of the store may overlap.                                       *)
(***************************************************************************)
EXTENDS RiskGraph, DisputeTypes

CONSTANTS
  Corpora,    \* names of what a build may put in the external store
  Stored(_),  \* the tables that go by a name
  Revisions,  \* <<old, new>>: the builds that may come after another
  Batches,    \* the processes that may run a batch
  Nightly,    \* the one that the scheduler runs
  Nothing,    \* the name of empty tables
  NoRow

(* The four tables that the batch reads of the external store: transfers,  *)
(* accounts, return histories, accounts with a flagged address.            *)
EmptyStore == [edges |-> {}, nodes |-> <<>>, history |-> <<>>, dense |-> {}]

IsStore(s) ==
  /\ DOMAIN s = {"edges", "nodes", "history", "dense"}
  /\ s.edges \subseteq Transfer /\ IsFiniteSet(s.edges)
  /\ DOMAIN s.nodes \subseteq Accounts
  /\ \A a \in DOMAIN s.nodes : s.nodes[a] \in Node
  /\ DOMAIN s.history \subseteq Accounts
  /\ \A a \in DOMAIN s.history : s.history[a] \in History
  /\ s.dense \subseteq Accounts

(* What the terms of DeviationAt, and those of ReturnsScore, add up to.     *)
MaxDeviation == 3200
MaxReturns   == 10000

Deviations    == 0..MaxDeviation
ReturnsScores == 0..MaxReturns

(* One row of account_risk_profile.  The raw columns of the return history *)
(* are always assigned together, and one, return_rate_pct, stands for all. *)
Row ==
  [deviation: Deviations, band: Bands, fraction: Percents,
   peak: Nat, windows: Nat, baseline: Nat,
   insufficient: BOOLEAN, rate: Percents, dense: BOOLEAN,
   returns: ReturnsScores, returnsBand: Bands]

ASSUME CorporaAssumption ==
  /\ \A c \in Corpora : IsStore(Stored(c))
  /\ Nothing \notin Corpora /\ Stored(Nothing) = EmptyStore
(* A rank is not negative.                                                 *)
ASSUME PageRankAssumption ==
  \A c \in Corpora : \A i \in DOMAIN RollingWindows(Stored(c).edges) :
    \A a \in Accounts :
      PageRank(EdgesInWindow(Stored(c).edges,
                             RollingWindows(Stored(c).edges)[i]), a) \in Nat
ASSUME RevisionsAssumption == Revisions \subseteq Corpora \X Corpora
ASSUME NightlyAssumption == Nightly \in Batches
ASSUME NoProfileAssumption == NoRow \notin Row

VARIABLES
  files,   \* the files the external store has been, the present one last
  rows,    \* account_risk_profile: account -> row
  batches  \* what each batch has in hand

riskVars == <<files, rows, batches>>

(* A build removes the file and creates another, with empty tables, which  *)
(* its one commit fills.  Who has opened a file keeps reading that one.    *)
File == [corpus: Corpora, built: BOOLEAN]
Present == files[Len(files)]
Content(i) == IF files[i].built THEN files[i].corpus ELSE Nothing

(* What a batch is about to do next; read names what each table that it    *)
(* has read held, and loaded is the rows it computes over.                 *)
Stages == {"idle", "edges", "nodes", "history", "dense", "rows", "commit"}
Tables == {"edges", "nodes", "history", "dense"}
IdleBatch == [stage |-> "idle", file |-> 0, read |-> [t \in Tables |-> Nothing],
              loaded |-> <<>>]

RiskTypeOK ==
  /\ files \in Seq(File)
  /\ rows \in [Accounts -> Row \union {NoRow}]
  /\ \A b \in Batches :
       /\ batches[b].stage \in Stages
       /\ batches[b].file \in 0..Len(files)
       /\ batches[b].read \in [Tables -> Corpora \union {Nothing}]

RiskInit ==
  /\ files = <<>>
  /\ rows = [a \in Accounts |-> NoRow]
  /\ batches = [b \in Batches |-> IdleBatch]

-----------------------------------------------------------------------------
(* Also the retry of a build that died.                                    *)
BeginBuild ==
  /\ \E c \in Corpora :
       /\ files # <<>> => <<Present.corpus, c>> \in Revisions
       /\ files' = Append(files, [corpus |-> c, built |-> FALSE])
  /\ UNCHANGED <<rows, batches>>

CommitBuild ==
  /\ files # <<>> /\ ~Present.built
  /\ files' = [files EXCEPT ![Len(files)].built = TRUE]
  /\ UNCHANGED <<rows, batches>>

-----------------------------------------------------------------------------
BatchMoves(b, state) ==
  /\ batches' = [batches EXCEPT ![b] = state]
  /\ UNCHANGED files

(* The scheduler's trigger.                                                *)
RunNightly(b) ==
  /\ batches[b].stage = "idle"
  /\ BatchMoves(b, [IdleBatch EXCEPT !.stage = "edges"])
  /\ UNCHANGED rows

(* A start of the application.                                             *)
EnsureProfiles(b) ==
  /\ batches[b].stage = "idle"
  /\ \A a \in Accounts : rows[a] = NoRow
  /\ BatchMoves(b, [IdleBatch EXCEPT !.stage = "edges"])
  /\ UNCHANGED rows

(* Fails without a file (BatchAbort).                                      *)
LoadEdges(b) ==
  /\ batches[b].stage = "edges"
  /\ files # <<>>
  /\ BatchMoves(b, [batches[b] EXCEPT !.stage = "nodes",
                                      !.file = Len(files),
                                      !.read.edges = Content(Len(files))])
  /\ UNCHANGED rows

Reading(b, table, next) ==
  /\ batches[b].stage = table
  /\ BatchMoves(b, [batches[b] EXCEPT
                      !.stage = next,
                      !.read[table] = Content(batches[b].file)])
  /\ UNCHANGED rows

LoadNodes(b)   == Reading(b, "nodes", "history")
LoadHistory(b) == Reading(b, "history", "dense")
LoadDense(b)   == Reading(b, "dense", "rows")

LoadRows(b) ==
  /\ batches[b].stage = "rows"
  /\ BatchMoves(b, [batches[b] EXCEPT !.stage = "commit", !.loaded = rows])
  /\ UNCHANGED rows

-----------------------------------------------------------------------------
(* The rows of a batch.                                                    *)

EdgesOf(read)   == Stored(read.edges).edges
NodesOf(read)   == Stored(read.nodes).nodes
HistoryOf(read) == Stored(read.history).history
DenseOf(read)   == Stored(read.dense).dense

(* Tabulated, as it depends on no state: what each log and account table   *)
(* that a batch may put together give.                                     *)
ProfilesOf ==
  [edges \in Corpora \union {Nothing} |->
     LET log == Stored(edges).edges
         windows == RollingWindows(log)
         m == MeasuredIn(windows, [i \in DOMAIN windows |->
                                     WindowSignals(log, windows[i])]) IN
     [nodes \in {Stored(c).nodes : c \in Corpora \union {Nothing}} |->
        GraphProfiles(windows, m, nodes)]]

ProfileIn(read, a) == ProfilesOf[read.edges][NodesOf(read)][a]

Scored(read) == DOMAIN NodesOf(read) \union DOMAIN HistoryOf(read)

(* An account outside the account table has the default profile.           *)
GraphProfileOf(read, a) ==
  IF a \in DOMAIN NodesOf(read) THEN ProfileIn(read, a) ELSE UnmeasuredProfile

(* One without a return history has a low score.                           *)
ReturnsOf(read, a) ==
  IF a \in DOMAIN HistoryOf(read)
    THEN ReturnsScore(HistoryOf(read)[a], a \in DenseOf(read)) ELSE 0

(* ... and keeps the raw columns it had.                                   *)
RateOf(read, a, old) ==
  IF a \in DOMAIN HistoryOf(read) THEN HistoryOf(read)[a].rate
  ELSE IF old = NoRow THEN 0 ELSE old.rate

RowOf(g, rate, dense, score) ==
  [deviation    |-> g.deviation,
   band         |-> DeviationBand(g.deviation),
   fraction     |-> g.fraction,
   peak         |-> g.peak,
   windows      |-> g.windows,
   baseline     |-> g.baseline,
   insufficient |-> g.insufficient,
   rate         |-> rate,
   dense        |-> dense,
   returns      |-> score,
   returnsBand  |-> ReturnsBand(score)]

(* Each definition named "...Mutant" is a variant of the one after it, as a *)
(* plausible bug would have it; no action uses it.  This one averages a    *)
(* deviation with that of the night before.                                *)
BlendedMutant(g, old) ==
  IF old = NoRow THEN g
  ELSE [g EXCEPT !.deviation = (@ + old.deviation) \div 2]

AssignedMutant(read, a, old) ==
  RowOf(BlendedMutant(GraphProfileOf(read, a), old), RateOf(read, a, old),
        a \in DenseOf(read), ReturnsOf(read, a))

(* What is assigned to the row of an account that held old before.         *)
Assigned(read, a, old) ==
  RowOf(GraphProfileOf(read, a), RateOf(read, a, old), a \in DenseOf(read),
        ReturnsOf(read, a))

MergedColumns(was, new, now) ==
  [c \in DOMAIN new |-> Column(was[c], new[c], now[c])]

(* Adds rows, and leaves those that are there.                             *)
CommittedMutant(batch, a) ==
  IF a \in Scored(batch.read) /\ rows[a] = NoRow
    THEN Assigned(batch.read, a, NoRow) ELSE rows[a]

(* The session inserts what it did not load and updates the columns that   *)
(* differ from what it loaded.                                             *)
Committed(batch, a) ==
  LET was == batch.loaded[a]
      new == Assigned(batch.read, a, was) IN
  IF a \notin Scored(batch.read) THEN rows[a]
  ELSE IF was = NoRow THEN new
  ELSE MergedColumns(was, new, rows[a])

(* An insert of a row that another batch has inserted meanwhile.           *)
Collides(b) ==
  \E a \in Scored(batches[b].read) :
    batches[b].loaded[a] = NoRow /\ rows[a] # NoRow

CommitBatch(b) ==
  /\ batches[b].stage = "commit"
  /\ ~Collides(b)
  /\ rows' = [a \in Accounts |-> Committed(batches[b], a)]
  /\ BatchMoves(b, IdleBatch)

(* The commit fails and takes every row of the batch with it.              *)
CommitConflict(b) ==
  /\ batches[b].stage = "commit"
  /\ Collides(b)
  /\ BatchMoves(b, IdleBatch)
  /\ UNCHANGED rows

(* The process dies, the store cannot be read, a lock times out.           *)
BatchAbort(b) ==
  /\ batches[b].stage # "idle"
  /\ BatchMoves(b, IdleBatch)
  /\ UNCHANGED rows

BatchStep(b) ==
  \/ RunNightly(b) \/ EnsureProfiles(b)
  \/ LoadEdges(b) \/ LoadNodes(b) \/ LoadHistory(b) \/ LoadDense(b)
  \/ LoadRows(b) \/ CommitBatch(b) \/ CommitConflict(b) \/ BatchAbort(b)

RiskNext ==
  \/ BeginBuild \/ CommitBuild
  \/ \E b \in Batches : BatchStep(b)

RiskSpec == RiskInit /\ [][RiskNext]_riskVars

(* The scheduler keeps calling, and its batches do not all fail for ever.  *)
(* Nothing is assumed of the other batches, nor of the builds.             *)
BatchFairness ==
  /\ SF_riskVars(RunNightly(Nightly))
  /\ SF_riskVars(LoadEdges(Nightly))
  /\ SF_riskVars(LoadNodes(Nightly))
  /\ SF_riskVars(LoadHistory(Nightly))
  /\ SF_riskVars(LoadDense(Nightly))
  /\ SF_riskVars(LoadRows(Nightly))
  /\ SF_riskVars(CommitBatch(Nightly))
  /\ SF_riskVars(CommitConflict(Nightly))

FairRiskSpec == RiskSpec /\ BatchFairness

-----------------------------------------------------------------------------
(* Properties of what a batch is about to commit.                          *)

Ready == {b \in Batches : batches[b].stage \in {"rows", "commit"}}

(* Overlapping windows leave no gap: of a log that spans any time at all,  *)
(* each transfer is in a window, and an account that made one is measured  *)
(* (graph.py:136-160, batch.py:191-197).                                   *)
TransfersWindowed ==
  \A b \in Ready :
    LET read == batches[b].read
        log == EdgesOf(read)
        windows == RollingWindows(log) IN
    log # {} /\ FirstDay(log) < LastDay(log) =>
      \A t \in log :
        /\ \E i \in DOMAIN windows : t \in EdgesInWindow(log, windows[i])
        /\ \A a \in {t.src, t.dst} \intersect DOMAIN NodesOf(read) :
             ProfileIn(read, a).windows > 0

(* "A pure volume spike among the same counterparties barely moves the     *)
(* score": an account that deals only with its own cluster and with core   *)
(* ones is "low", however its centrality and its volume move               *)
(* (batch.py:18-26, 117-136, 259-264).                                     *)
KeepsToItsOwn(log, nodes, a) ==
  \A cp \in Counterparties(log, a) \intersect DOMAIN nodes :
    /\ nodes[cp].type # "fringe"
    /\ nodes[cp].cluster \in {nodes[a].cluster, "core"} \ {"fringe"}

BurstsStayLow ==
  \A b \in Ready :
    LET read == batches[b].read IN
    \A a \in DOMAIN NodesOf(read) :
      KeepsToItsOwn(EdgesOf(read), NodesOf(read), a) =>
        DeviationBand(ProfileIn(read, a).deviation) = "low"

(* A worse return history never scores lower, although the caps and the    *)
(* surcharge for a young account are applied in turn (batch.py:315-335).   *)
Worse(h, g) ==
  /\ h.rate >= g.rate /\ h.ratio >= g.ratio
  /\ h.refusals >= g.refusals /\ h.disputes >= g.disputes
  /\ g.multi => h.multi
  /\ g.other => h.other
  /\ g.young => h.young

ReturnsMonotone ==
  \A b \in Ready :
    LET history == HistoryOf(batches[b].read)
        dense == DenseOf(batches[b].read)
        score(a) == ReturnsScore(history[a], a \in dense) IN
    \A a, c \in DOMAIN history :
      Worse(history[a], history[c]) /\ (c \in dense => a \in dense)
        => score(a) >= score(c)

-----------------------------------------------------------------------------
(* Properties of the table.                                                *)

(* The scorer's factor for a row, in percent (scorer.py: _risk_factor).    *)
RiskFactorOf(deviation) ==
  100 - (100 * AtMost(deviation, HighDeviation)) \div HighDeviation

(* What a batch over read alone makes of some rows.                        *)
Landing(read, was) ==
  [a \in Accounts |-> IF a \in Scored(read) THEN Assigned(read, a, was[a])
                      ELSE was[a]]

(* A batch that no other overtook leaves exactly its own results, in one   *)
(* piece and for the accounts it read only; band and scorer agree on what  *)
(* high deviation means; and a second run over unchanged data would change *)
(* nothing (batch.py:352-355, 397-438; scorer.py:58-61).                   *)
UnracedBatchLands ==
  [][\A b \in Batches :
       CommitBatch(b) /\ batches[b].loaded = rows =>
         LET read == batches[b].read IN
         /\ rows' = Landing(read, rows)
         /\ Landing(read, rows') = rows'
         /\ \A a \in Scored(read) :
              (rows'[a].band = "high") <=> (RiskFactorOf(rows'[a].deviation) = 0)
    ]_riskVars

(* The table catches up: whatever batches overlapped, died, collided or    *)
(* read a file since removed, every account of the store at last has the   *)
(* row that the present store gives it (batch.py:349-356; pipeline.py:50). *)
ProfilesCurrent ==
  files # <<>> =>
    Landing([t \in Tables |-> Content(Len(files))], rows) = rows

ProfilesSettle == <>[]ProfilesCurrent

-----------------------------------------------------------------------------
(* "We never assume low risk for an unmeasured account" (scorer.py:19-20). *)
(* In a table that did measure some accounts, a batch still gives one that *)
(* it observed in no window a row of deviation 0, and the scorer then      *)
(* takes it for the safest there is, so this one is refuted.               *)
UnmeasuredNotTrusted ==
  LET written == {a \in Accounts : rows[a] # NoRow}
      measured == {a \in written : rows[a].windows > 0} IN
  measured # {} =>
    \A a \in written \ measured : RiskFactorOf(rows[a].deviation) < 100

=============================================================================
