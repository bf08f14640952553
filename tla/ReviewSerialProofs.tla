--------------------------- MODULE ReviewSerialProofs --------------------------
(***************************************************************************)
(* Theorems about scoring and review when requests are served one at a     *)
(* time (Overlap = FALSE), for every set of disputes, events, handlers,    *)
(* scorers and reviewers, with failures at every step of a request.        *)
(***************************************************************************)
EXTENDS ReviewProofs, IngestionSerialProofs

(* One request is at work: a handler, a scorer or a reviewer.              *)
OneAtWork ==
  /\ AllIdle \/ WorkersIdle
  /\ \A v, w \in Scorers :
       scorers[v].pc # "idle" /\ scorers[w].pc # "idle" => v = w
  /\ \A q, r \in Reviewers :
       reviewers[q].pc # "idle" /\ reviewers[r].pc # "idle" => q = r
  /\ \A w \in Scorers, r \in Reviewers :
       scorers[w].pc = "idle" \/ reviewers[r].pc = "idle"

(* So what it has read is what is stored.                                  *)
ScorerCurrent(s) ==
  s.pc # "idle" =>
    LET d == s.dispute
        g == s.generation IN
    /\ cases[d] # NoRow
    /\ s.inputs.phase = cases[d].phase
    /\ s.inputs.manual <=> cases[d].category = Manual
    /\ s.inputs.bundle = bundles[d]
    /\ s.pc # "loaded" => (s.inputs.wasReopened <=> WasReopened(d))
    /\ s.pc = "routing" =>
         /\ g = Len(queue[d])
         /\ g # 0 => s.entry = queue[d][g]
         /\ s.reenters <=> g # 0 /\ ReopenedForward(s.inputs, d, g)

ReviewerCurrent(v) ==
  v.pc \in {"loaded", "deciding"} =>
    /\ v.case = cases[v.dispute]
    /\ v.pc = "deciding" => /\ v.generation = Len(queue[v.dispute])
                            /\ v.entry = queue[v.dispute][v.generation]

WorkersCurrent ==
  /\ \A w \in Scorers : ScorerCurrent(scorers[w])
  /\ \A r \in Reviewers : ReviewerCurrent(reviewers[r])

(* An entry of the queue against its case: scored at its phase or before,  *)
(* and, if it was not then known to be reopened and now is, before.        *)
Ungated(e) ==
  e.queue = "draft_for_submit" =>
    e.gates = {} /\ e.confidence >= ConfidenceThreshold

EntrySeen(e, case, reopened) ==
  /\ e.phase <= case.phase
  /\ e.wasReopened => reopened
  /\ reopened /\ ~e.wasReopened => e.phase < case.phase

SentAt(log, g, phase) ==
  \E i \in DOMAIN log : /\ log[i].generation = g
                        /\ log[i].decision = "submit"
                        /\ log[i].phase >= phase

(* The queue of one dispute, against its case, decisions and advice.       *)
QueueFine(q, case, reopened, log, adv) ==
  \A g \in DOMAIN q :
    /\ Ungated(q[g])
    /\ EntrySeen(q[g], case, reopened)
    /\ g > 1 => q[g].phase > q[g - 1].phase /\ q[g].wasReopened
    /\ g = Len(q) =>
         /\ q[g].wasReopened /\ q[g].dispatched => SentAt(log, g, q[g].phase)
         /\ adv.confidence = q[g].confidence
         /\ adv.action = q[g].action

DisputeFine(d) ==
  queue[d] # <<>> =>
    /\ cases[d] # NoRow
    /\ QueueFine(queue[d], cases[d], WasReopened(d), decisions[d], advice[d])

QueuesFine == \A d \in Disputes : DisputeFine(d)

ReviewSerialInv == SerialInv /\ OneAtWork /\ WorkersCurrent /\ QueuesFine

-----------------------------------------------------------------------------
(* A session that commits over the entry it loaded leaves the one it built. *)
LEMMA MergedEntryIdentity ==
  ASSUME NEW was \in Entry, NEW new \in Entry
  PROVE  MergedEntry(was, new, was) = new
BY DEF MergedEntry, Column, Entry

(* A scored entry is a draft only past every gate and the threshold, and   *)
(* carries what it was scored from.                                        *)
LEMMA ScoredEntryFine ==
  ASSUME NEW si \in ScoreInputs, NEW t \in Nat, NEW dispatched \in BOOLEAN,
         NEW superseded \in BOOLEAN
  PROVE  LET e == ScoredEntry(si, t, dispatched, superseded) IN
         /\ Ungated(e)
         /\ e.phase = si.phase
         /\ e.wasReopened = si.wasReopened
         /\ e.confidence = Confidence(si)
         /\ e.action = ActionFor(HardGates(si, t), Confidence(si))
<1> DEFINE e == ScoredEntry(si, t, dispatched, superseded)
<1>1. /\ e.queue = QueueFor(HardGates(si, t), Confidence(si))
      /\ e.gates = HardGates(si, t)
      /\ e.confidence = Confidence(si)
      /\ e.action = ActionFor(HardGates(si, t), Confidence(si))
      /\ e.phase = si.phase
      /\ e.wasReopened = si.wasReopened
  BY DEF ScoredEntry
<1> HIDE DEF e
<1>2. Ungated(e)
  BY <1>1 DEF Ungated, QueueFor
<1>3. QED
  BY <1>1, <1>2 DEF e

-----------------------------------------------------------------------------
(* The queue of a dispute through everything that can happen to it.        *)
LEMMA FineEntries ==
  ASSUME NEW q \in Seq(Entry), NEW g \in DOMAIN q
  PROVE  /\ q[g] \in Entry /\ q[g].phase \in Int
         /\ Len(q) \in Nat /\ g \in 1..Len(q)
<1>1. q[g] \in Entry /\ Len(q) \in Nat /\ g \in 1..Len(q)
  OBVIOUS
<1>2. QED
  BY <1>1 DEF Entry, Phases, Fraud, Arbitration

LEMMA CasePhase ==
  ASSUME NEW case \in CaseRow
  PROVE  case.phase \in Int
BY DEF CaseRow, Phases, Fraud, Arbitration

LEMMA FineFirst ==
  ASSUME NEW e \in Entry, NEW case \in CaseRow, NEW reopened \in BOOLEAN,
         NEW log, NEW adv,
         Ungated(e), e.phase = case.phase, e.wasReopened <=> reopened,
         ~e.dispatched,
         adv.confidence = e.confidence, adv.action = e.action
  PROVE  QueueFine(<<e>>, case, reopened, log, adv)
<1> DEFINE q == <<e>>
<1>1. DOMAIN q = {1} /\ q[1] = e
  OBVIOUS
<1>2. EntrySeen(e, case, reopened)
  BY CasePhase DEF EntrySeen
<1> HIDE DEF q
<1>3. QED
  BY <1>1, <1>2 DEF QueueFine, q

(* Scored again: an entry dispatched at an earlier phase of a reopened     *)
(* dispute is never scored again, for that one leaves its generation.      *)
LEMMA FineRescored ==
  ASSUME NEW q \in Seq(Entry), NEW e \in Entry, NEW case \in CaseRow,
         NEW reopened \in BOOLEAN, NEW log, NEW was, NEW adv,
         NEW n, n = Len(q), n # 0,
         QueueFine(q, case, reopened, log, was),
         Ungated(e), e.phase = case.phase, e.wasReopened <=> reopened,
         e.dispatched = q[n].dispatched,
         ~(reopened /\ case.phase > q[n].phase /\ q[n].dispatched),
         adv.confidence = e.confidence, adv.action = e.action
  PROVE  QueueFine([q EXCEPT ![n] = e], case, reopened, log, adv)
<1> DEFINE r == [q EXCEPT ![n] = e]
<1>1. n \in Nat /\ n \in DOMAIN q /\ n \in 1..Len(q) /\ DOMAIN q = 1..n
  OBVIOUS
<1>2. /\ r \in Seq(Entry) /\ Len(r) = n /\ DOMAIN r = 1..n /\ r[n] = e
      /\ \A g \in 1..n : g # n => r[g] = q[g]
  BY <1>1, ExceptSeq
<1>3. case.phase \in Int
  BY CasePhase
<1>4. \A g \in 1..n : q[g] \in Entry /\ q[g].phase \in Int
  BY <1>1, FineEntries
<1> HIDE DEF r
<1>5. ASSUME NEW g \in 1..n, g # n
      PROVE  /\ Ungated(r[g]) /\ EntrySeen(r[g], case, reopened)
             /\ g > 1 => r[g].phase > r[g - 1].phase /\ r[g].wasReopened
  <2>1. g > 1 => g - 1 \in 1..n /\ g - 1 # n
    BY <1>1, <1>5
  <2>2. r[g] = q[g] /\ (g > 1 => r[g - 1] = q[g - 1])
    BY <1>2, <1>5, <2>1
  <2>3. QED
    BY <1>1, <2>2 DEF QueueFine
<1>6. EntrySeen(q[n], case, reopened)
  BY <1>1 DEF QueueFine
<1>7. /\ Ungated(r[n]) /\ EntrySeen(r[n], case, reopened)
      /\ n > 1 => r[n].phase > r[n - 1].phase /\ r[n].wasReopened
  <2>1. EntrySeen(e, case, reopened)
    BY <1>3 DEF EntrySeen
  <2>2. ASSUME n > 1
        PROVE  e.phase > q[n - 1].phase /\ e.wasReopened
    <3>1. n - 1 \in 1..n
      BY <1>1, <2>2
    <3>2. q[n].phase > q[n - 1].phase /\ q[n].wasReopened
      BY <1>1, <2>2 DEF QueueFine
    <3>3. QED
      BY <1>1, <1>3, <1>4, <1>6, <3>1, <3>2 DEF EntrySeen
  <2>3. n > 1 => r[n - 1] = q[n - 1]
    BY <1>1, <1>2
  <2>4. QED
    BY <1>2, <2>1, <2>2, <2>3
<1>8. ASSUME e.wasReopened, e.dispatched
      PROVE  SentAt(log, n, e.phase)
  <2>1. q[n].phase <= case.phase /\ ~(case.phase > q[n].phase) /\ q[n].wasReopened
    BY <1>1, <1>3, <1>4, <1>6, <1>8 DEF EntrySeen
  <2>2. q[n].phase = e.phase
    BY <1>1, <1>3, <1>4, <2>1
  <2>3. SentAt(log, n, q[n].phase)
    BY <1>1, <1>8, <2>1 DEF QueueFine
  <2>4. QED
    BY <2>2, <2>3
<1>9. QED
  BY <1>2, <1>5, <1>7, <1>8 DEF QueueFine, r

(* Reopened at a later phase: the last entry is closed, a new one follows. *)
LEMMA FineReentered ==
  ASSUME NEW q \in Seq(Entry), NEW closed \in Seq(Entry), NEW e \in Entry,
         NEW case \in CaseRow, NEW log, NEW was, NEW adv,
         NEW n, n = Len(q), n # 0, Len(closed) = n,
         \A g \in 1..n : /\ Ungated(q[g]) => Ungated(closed[g])
                         /\ closed[g].phase = q[g].phase
                         /\ closed[g].wasReopened = q[g].wasReopened,
         QueueFine(q, case, TRUE, log, was),
         case.phase > q[n].phase,
         Ungated(e), e.phase = case.phase, e.wasReopened, ~e.dispatched,
         adv.confidence = e.confidence, adv.action = e.action
  PROVE  QueueFine(Append(closed, e), case, TRUE, log, adv)
<1> DEFINE r == Append(closed, e)
<1>1. n \in Nat /\ n \in 1..n /\ DOMAIN q = 1..n /\ DOMAIN closed = 1..n
  OBVIOUS
<1>2. /\ Len(r) = n + 1 /\ DOMAIN r = 1..(n + 1) /\ r[n + 1] = e
      /\ \A g \in 1..n : r[g] = closed[g]
  BY <1>1, AppendFacts
<1>3. case.phase \in Int
  BY CasePhase
<1> HIDE DEF r
<1>4. ASSUME NEW g \in 1..n
      PROVE  /\ Ungated(r[g]) /\ EntrySeen(r[g], case, TRUE)
             /\ g > 1 => r[g].phase > r[g - 1].phase /\ r[g].wasReopened
             /\ g # Len(r)
  <2>1. g > 1 => g - 1 \in 1..n
    BY <1>1
  <2>2. /\ Ungated(q[g]) /\ EntrySeen(q[g], case, TRUE)
        /\ g > 1 => q[g].phase > q[g - 1].phase /\ q[g].wasReopened
    BY <1>1 DEF QueueFine
  <2>3. g # n + 1
    BY <1>1
  <2>4. QED
    BY <1>2, <2>1, <2>2, <2>3 DEF EntrySeen
<1>5. /\ Ungated(e) /\ EntrySeen(e, case, TRUE)
      /\ e.phase > r[n].phase /\ e.wasReopened
  BY <1>1, <1>2, <1>3 DEF EntrySeen
<1>6. \A g \in 1..(n + 1) : g \in 1..n \/ g = n + 1
  BY <1>1
<1>7. (n + 1) - 1 = n
  BY <1>1
<1>8. QED
  BY <1>2, <1>4, <1>5, <1>6, <1>7 DEF QueueFine, r

(* A decision: a submit of the last entry is made at the phase of the case. *)
LEMMA FineDecided ==
  ASSUME NEW q \in Seq(Entry), NEW e \in Entry, NEW case \in CaseRow,
         NEW left \in CaseRow, NEW reopened \in BOOLEAN,
         NEW log \in Seq(Decision), NEW row \in Decision, NEW adv,
         NEW n, n = Len(q), n # 0,
         QueueFine(q, case, reopened, log, adv),
         left.phase = case.phase,
         Ungated(q[n]) => Ungated(e),
         e.phase = q[n].phase, e.wasReopened = q[n].wasReopened,
         e.confidence = q[n].confidence, e.action = q[n].action,
         e.dispatched => q[n].dispatched \/ row.decision = "submit",
         row.generation = n, row.phase = case.phase
  PROVE  QueueFine([q EXCEPT ![n] = e], left, reopened, Append(log, row), adv)
<1> DEFINE r == [q EXCEPT ![n] = e]
           longer == Append(log, row)
<1>1. n \in Nat /\ n \in 1..n /\ DOMAIN q = 1..n
  OBVIOUS
<1>2. /\ Len(r) = n /\ DOMAIN r = 1..n /\ r[n] = e
      /\ \A g \in 1..n : g # n => r[g] = q[g]
  BY <1>1, ExceptSeq
<1>3. /\ DOMAIN longer = 1..(Len(log) + 1) /\ Len(log) \in Nat
      /\ DOMAIN log = 1..Len(log)
      /\ \A i \in DOMAIN log : longer[i] = log[i]
      /\ longer[Len(log) + 1] = row
  BY AppendFacts
<1>4. DOMAIN log \subseteq DOMAIN longer /\ Len(log) + 1 \in DOMAIN longer
  BY <1>3
<1> HIDE DEF r, longer
<1>5. \A g \in 1..n :
        /\ Ungated(r[g])
        /\ r[g].phase = q[g].phase
        /\ r[g].wasReopened = q[g].wasReopened
        /\ EntrySeen(q[g], case, reopened)
        /\ g > 1 => q[g].phase > q[g - 1].phase /\ q[g].wasReopened
  BY <1>1, <1>2 DEF QueueFine
<1>6. \A g \in 1..n : EntrySeen(r[g], left, reopened)
  BY <1>5 DEF EntrySeen
<1>7. \A g \in 1..n : g > 1 => r[g].phase > r[g - 1].phase /\ r[g].wasReopened
  <2>1. \A g \in 1..n : g > 1 => g - 1 \in 1..n
    BY <1>1
  <2>2. QED
    BY <1>5, <2>1
<1>8. ASSUME e.wasReopened, e.dispatched
      PROVE  SentAt(longer, n, e.phase)
  <2>1. CASE q[n].dispatched
    <3>1. SentAt(log, n, e.phase)
      BY <1>1, <1>8, <2>1 DEF QueueFine
    <3>2. QED
      BY <1>3, <1>4, <3>1 DEF SentAt
  <2>2. CASE row.decision = "submit"
    <3>1. q[n].phase <= case.phase
      BY <1>1 DEF QueueFine, EntrySeen
    <3>2. q[n].phase \in Int /\ case.phase \in Int
      BY <1>1, FineEntries, CasePhase
    <3>3. row.phase >= e.phase
      BY <3>1, <3>2
    <3>4. QED
      BY <1>3, <1>4, <2>2, <3>3 DEF SentAt
  <2>3. QED
    BY <1>8, <2>1, <2>2
<1>9. adv.confidence = e.confidence /\ adv.action = e.action
  BY <1>1 DEF QueueFine
<1>10. QED
  BY <1>2, <1>5, <1>6, <1>7, <1>8, <1>9 DEF QueueFine, r, longer

(* The case moves on: a reopen only together with a later phase.           *)
LEMMA FineAdvanced ==
  ASSUME NEW q \in Seq(Entry), NEW case \in CaseRow, NEW left \in CaseRow,
         NEW reopened \in BOOLEAN, NEW again \in BOOLEAN, NEW log, NEW adv,
         QueueFine(q, case, reopened, log, adv),
         left.phase >= case.phase,
         reopened => again,
         again /\ ~reopened => left.phase > case.phase
  PROVE  QueueFine(q, left, again, log, adv)
<1>1. ASSUME NEW g \in DOMAIN q
      PROVE  EntrySeen(q[g], left, again)
  <2>1. EntrySeen(q[g], case, reopened)
    BY DEF QueueFine
  <2>2. q[g].phase \in Int /\ case.phase \in Int /\ left.phase \in Int
    BY FineEntries, CasePhase
  <2>3. QED
    BY <2>1, <2>2 DEF EntrySeen
<1>2. QED
  BY <1>1 DEF QueueFine

-----------------------------------------------------------------------------
(* What one step of the router does to a case, served one at a time: its   *)
(* phase never goes back, what was reopened stays so, and it is reopened   *)
(* only by an escalation.                                                  *)
LEMMA RouterMovesOn ==
  ASSUME TypeInv, SerialInv, [Next]_ingestVars, NEW d \in Disputes,
         cases[d] # NoRow
  PROVE  /\ cases'[d] \in CaseRow
         /\ cases'[d].phase >= cases[d].phase
         /\ WasReopened(d) => WasReopened(d)'
         /\ WasReopened(d)' /\ ~WasReopened(d) =>
              cases'[d].phase > cases[d].phase
<1>1. /\ cases \in [Disputes -> CaseRow \union {NoRow}]
      /\ history \in [Disputes -> Seq(HistoryRow)]
  BY DEF TypeInv, TypeOK
<1>2. cases[d] \in CaseRow /\ cases[d].phase \in Int
  BY <1>1, CasePhase
<1>3. CASE cases'[d] = cases[d] /\ history'[d] = history[d]
  BY <1>2, <1>3 DEF WasReopened, ReopenRows
<1>4. ASSUME NEW e \in Events, NEW row \in CaseRow, NEW newRow \in CaseRow,
             NEW entry \in HistoryRow,
             cases[d] = row, UpdateForm(e, row, newRow, entry),
             cases'[d] = newRow,
             history'[d] = Append(history[d], entry)
      PROVE  /\ cases'[d].phase >= cases[d].phase
             /\ WasReopened(d) => WasReopened(d)'
             /\ WasReopened(d)' /\ ~WasReopened(d) =>
                  cases'[d].phase > cases[d].phase
  <2> DEFINE n == Len(history[d])
  <2>1. /\ n \in Nat
        /\ DOMAIN history[d] = 1..n
        /\ DOMAIN history'[d] = 1..(n + 1)
        /\ \A i \in 1..n : history'[d][i] = history[d][i]
        /\ history'[d][n + 1] = entry
    BY <1>1, <1>4, AppendFacts
  <2>2. /\ newRow.phase \in Int /\ row.phase \in Int /\ e.phase \in Int
        /\ row.reopenCount \in Nat
    BY CasePhase, EventsAssumption
       DEF CaseRow, EventFields, Phases, Fraud, Arbitration
  <2> HIDE DEF n
  <2>3. ReopenRows(d) \subseteq ReopenRows(d)'
    BY <2>1 DEF ReopenRows
  <2>4. ~entry.isReopen => ReopenRows(d)' = ReopenRows(d)
    <3>1. \A i : i \in 1..(n + 1) <=> i \in 1..n \/ i = n + 1
      BY <2>1
    <3>2. QED
      BY <2>1, <3>1 DEF ReopenRows
  <2>5. CASE Advances(e, row) /\ newRow = AdvancedRow(e, row)
    <3>1. newRow.phase = e.phase /\ newRow.reopenCount >= row.reopenCount
      BY <2>2, <2>5 DEF AdvancedRow
    <3>2. newRow.phase > row.phase /\ newRow.phase >= row.phase
      BY <2>2, <2>5, <3>1 DEF Advances
    <3>3. row.reopenCount > 0 => newRow.reopenCount > 0
      BY <2>2, <2>5 DEF AdvancedRow
    <3>4. QED
      BY <1>4, <2>3, <3>2, <3>3 DEF WasReopened
  <2>6. ASSUME NEW t, newRow = StaleRow(row) \/ newRow = AmendedRow(e, row),
               entry = NewHistoryRow(e, t, FALSE, row.status)
        PROVE  /\ cases'[d].phase = cases[d].phase
               /\ WasReopened(d)' <=> WasReopened(d)
    <3>1. newRow.phase = row.phase /\ newRow.reopenCount = row.reopenCount
      BY <2>6 DEF StaleRow, AmendedRow, CaseRow
    <3>2. ~entry.isReopen
      BY <2>6 DEF NewHistoryRow
    <3>3. QED
      BY <1>4, <2>4, <3>1, <3>2 DEF WasReopened
  <2>7. QED
    <3>1. \/ Advances(e, row) /\ newRow = AdvancedRow(e, row)
          \/ /\ newRow = StaleRow(row)
             /\ entry = NewHistoryRow(e, "out_of_order", FALSE, row.status)
          \/ /\ newRow = AmendedRow(e, row)
             /\ entry = NewHistoryRow(e, "status_change", FALSE, row.status)
      BY <1>4, Zenon DEF UpdateForm
    <3>2. cases[d].phase \in Int
      BY <1>2
    <3>3. CASE /\ cases'[d].phase = cases[d].phase
               /\ WasReopened(d)' <=> WasReopened(d)
      BY <3>2, <3>3
    <3>4. QED
      BY <2>5, <2>6, <3>1, <3>3, Zenon
<1>5. ASSUME NEW e \in Events, NEW row \in CaseRow, NEW newRow \in CaseRow,
             NEW entry \in HistoryRow,
             e.dispute \in Disputes, cases[e.dispute] = row,
             UpdateForm(e, row, newRow, entry),
             cases' = [cases EXCEPT ![e.dispute] = newRow],
             history' = [history EXCEPT ![e.dispute] =
                           Append(history[e.dispute], entry)]
      PROVE  /\ cases'[d] \in CaseRow
             /\ \/ cases'[d] = cases[d] /\ history'[d] = history[d]
                \/ /\ cases[d] = row /\ cases'[d] = newRow
                   /\ history'[d] = Append(history[d], entry)
  BY <1>1, <1>2, <1>5
<1>6. \/ cases'[d] = cases[d] /\ history'[d] = history[d]
      \/ /\ cases'[d] \in CaseRow
         /\ \E e \in Events, row \in CaseRow, newRow \in CaseRow,
               entry \in HistoryRow :
              /\ cases[d] = row /\ UpdateForm(e, row, newRow, entry)
              /\ cases'[d] = newRow
              /\ history'[d] = Append(history[d], entry)
  <2>1. CASE Quiet
    BY <2>1 DEF Quiet
  <2>2. ASSUME NEW e \in Events, NEW first \in HistoryRow,
               cases[e.dispute] = NoRow,
               cases' = [cases EXCEPT ![e.dispute] = NewCase(e)],
               history' = [history EXCEPT ![e.dispute] =
                             Append(history[e.dispute], first)]
        PROVE  cases'[d] = cases[d] /\ history'[d] = history[d]
    BY <1>1, <2>2
  <2>3. \/ Quiet
        \/ \E e \in Events, first \in HistoryRow :
             /\ cases[e.dispute] = NoRow
             /\ cases' = [cases EXCEPT ![e.dispute] = NewCase(e)]
             /\ history' = [history EXCEPT ![e.dispute] =
                              Append(history[e.dispute], first)]
        \/ \E e \in Events, row \in CaseRow, newRow \in CaseRow,
              entry \in HistoryRow :
             /\ e.dispute \in Disputes
             /\ cases[e.dispute] = row
             /\ UpdateForm(e, row, newRow, entry)
             /\ cases' = [cases EXCEPT ![e.dispute] = newRow]
             /\ history' = [history EXCEPT ![e.dispute] =
                              Append(history[e.dispute], entry)]
    BY SerialStep, Zenon
  <2>4. ASSUME NEW e \in Events, NEW row \in CaseRow, NEW newRow \in CaseRow,
               NEW entry \in HistoryRow,
               e.dispute \in Disputes, cases[e.dispute] = row,
               UpdateForm(e, row, newRow, entry),
               cases' = [cases EXCEPT ![e.dispute] = newRow],
               history' = [history EXCEPT ![e.dispute] =
                             Append(history[e.dispute], entry)]
        PROVE  \/ cases'[d] = cases[d] /\ history'[d] = history[d]
               \/ /\ cases'[d] \in CaseRow
                  /\ cases[d] = row /\ UpdateForm(e, row, newRow, entry)
                  /\ cases'[d] = newRow
                  /\ history'[d] = Append(history[d], entry)
    BY <1>5, <2>4
  <2>5. QED
    BY <2>1, <2>2, <2>3, <2>4, Zenon
<1>7. QED
  BY <1>2, <1>3, <1>4, <1>6

(* So what the queue says of a case keeps fitting it.                      *)
LEMMA FineThroughRouter ==
  ASSUME TypeInv, SerialInv, ReviewTypeOK, [Next]_ingestVars,
         QueuesFine, UNCHANGED <<queue, advice, decisions>>
  PROVE  QueuesFine'
<1>1. ASSUME NEW d \in Disputes
      PROVE  DisputeFine(d)'
  <2>1. CASE queue[d] = <<>>
    BY <2>1 DEF DisputeFine
  <2>2. CASE queue[d] # <<>>
    <3>1. /\ cases[d] # NoRow
          /\ QueueFine(queue[d], cases[d], WasReopened(d), decisions[d],
                       advice[d])
      BY <2>2 DEF QueuesFine, DisputeFine
    <3>2. cases[d] \in CaseRow /\ queue[d] \in Seq(Entry)
      BY <3>1 DEF TypeInv, TypeOK, ReviewTypeOK
    <3>3. /\ cases'[d] \in CaseRow
          /\ cases'[d].phase >= cases[d].phase
          /\ WasReopened(d) => WasReopened(d)'
          /\ WasReopened(d)' /\ ~WasReopened(d) =>
               cases'[d].phase > cases[d].phase
      BY <3>1, RouterMovesOn
    <3>4. WasReopened(d) \in BOOLEAN /\ WasReopened(d)' \in BOOLEAN
      BY DEF WasReopened
    <3>5. QueueFine(queue[d], cases'[d], WasReopened(d)', decisions[d],
                    advice[d])
      BY <3>1, <3>2, <3>3, <3>4, FineAdvanced
    <3>6. QED
      BY <3>3, <3>5, NoRowAssumption DEF DisputeFine
  <2>3. QED
    BY <2>1, <2>2
<1>2. QED
  BY <1>1 DEF QueuesFine

-----------------------------------------------------------------------------
(* Whoever works, works alone.                                             *)
LEMMA HandlersAtRest ==
  ASSUME AllIdle, handlers' = handlers
  PROVE  SerialInv' /\ AllIdle'
BY DEF AllIdle, SerialInv, OneBusy, SnapshotsCurrent

LEMMA ScorerAlone ==
  ASSUME ReviewInv, ReviewSerialInv, Overlap = FALSE, NEW w \in Scorers,
         NEW state, ScorerMoves(w, state), handlers' = handlers,
         scorers[w].pc # "idle" \/ MayStart,
         ScorerCurrent(scorers[w])'
  PROVE  SerialInv' /\ OneAtWork' /\ WorkersCurrent'
<1>1. /\ AllIdle
      /\ \A v \in Scorers : v # w => scorers[v].pc = "idle"
      /\ \A r \in Reviewers : reviewers[r].pc = "idle"
  BY DEF ReviewSerialInv, OneAtWork, WorkersIdle, MayStart
<1>2. /\ \A v \in Scorers : v # w => scorers'[v] = scorers[v]
      /\ reviewers' = reviewers
  BY DEF ScorerMoves, ReviewInv, ReviewTypeOK
<1>3. SerialInv' /\ AllIdle'
  BY <1>1, HandlersAtRest
<1>4. /\ \A v \in Scorers : v # w => scorers'[v].pc = "idle"
      /\ \A r \in Reviewers : reviewers'[r].pc = "idle"
  BY <1>1, <1>2
<1>5. OneAtWork'
  BY <1>3, <1>4 DEF OneAtWork
<1>6. \A v \in Scorers : v # w => ScorerCurrent(scorers[v])'
  BY <1>4 DEF ScorerCurrent
<1>7. \A r \in Reviewers : ReviewerCurrent(reviewers[r])'
  BY <1>4 DEF ReviewerCurrent
<1>8. QED
  BY <1>3, <1>5, <1>6, <1>7 DEF WorkersCurrent

LEMMA ReviewerAlone ==
  ASSUME ReviewInv, ReviewSerialInv, Overlap = FALSE, NEW r \in Reviewers,
         NEW state, ReviewerMoves(r, state), handlers' = handlers,
         reviewers[r].pc # "idle" \/ MayStart,
         ReviewerCurrent(reviewers[r])'
  PROVE  SerialInv' /\ OneAtWork' /\ WorkersCurrent'
<1>1. /\ AllIdle
      /\ \A q \in Reviewers : q # r => reviewers[q].pc = "idle"
      /\ \A w \in Scorers : scorers[w].pc = "idle"
  BY DEF ReviewSerialInv, OneAtWork, WorkersIdle, MayStart
<1>2. /\ \A q \in Reviewers : q # r => reviewers'[q] = reviewers[q]
      /\ scorers' = scorers
  BY DEF ReviewerMoves, ReviewInv, ReviewTypeOK
<1>3. SerialInv' /\ AllIdle'
  BY <1>1, HandlersAtRest
<1>4. /\ \A q \in Reviewers : q # r => reviewers'[q].pc = "idle"
      /\ \A w \in Scorers : scorers'[w].pc = "idle"
  BY <1>1, <1>2
<1>5. OneAtWork'
  BY <1>3, <1>4 DEF OneAtWork
<1>6. \A q \in Reviewers : q # r => ReviewerCurrent(reviewers[q])'
  BY <1>4 DEF ReviewerCurrent
<1>7. \A w \in Scorers : ScorerCurrent(scorers[w])'
  BY <1>4 DEF ScorerCurrent
<1>8. QED
  BY <1>3, <1>5, <1>6, <1>7 DEF WorkersCurrent

(* What the queues are judged by, unchanged.                               *)
LEMMA QueuesQuiet ==
  ASSUME QueuesFine, UNCHANGED <<cases, history, queue, advice, decisions>>
  PROVE  QueuesFine'
BY DEF QueuesFine, DisputeFine, WasReopened, ReopenRows

-----------------------------------------------------------------------------
(* Every step of a scorer.                                                 *)
LEMMA ScorerQuietSerial ==
  ASSUME ReviewInv, ReviewSerialInv, Overlap = FALSE, NEW w \in Scorers,
         NEW state, ScorerMoves(w, state), UNCHANGED <<ingestVars, tables>>,
         scorers[w].pc # "idle" \/ MayStart,
         ScorerCurrent(state)
  PROVE  ReviewSerialInv'
<1>1. UNCHANGED <<cases, history, handlers, bundles, queue, advice, decisions,
                  outcomes>>
  BY DEF ingestVars, tables
<1>2. scorers'[w] = state
  BY DEF ScorerMoves, ReviewInv, ReviewTypeOK
<1>3. ScorerCurrent(scorers[w])'
  BY <1>1, <1>2 DEF ScorerCurrent, WasReopened, ReopenRows, ReopenedForward,
                    HasOutcome
<1>4. QueuesFine'
  BY <1>1, QueuesQuiet DEF ReviewSerialInv
<1>5. QED
  BY <1>1, <1>3, <1>4, ScorerAlone DEF ReviewSerialInv

LEMMA StartScoringSerial ==
  ASSUME ReviewInv, ReviewSerialInv, Overlap = FALSE, NEW w \in Scorers,
         NEW d \in Disputes, StartScoring(w, d)
  PROVE  ReviewSerialInv'
<1> DEFINE si == [phase |-> cases[d].phase,
                  respondBy |-> cases[d].respondBy,
                  manual |-> cases[d].category = Manual,
                  wasReopened |-> FALSE,
                  bundle |-> bundles[d],
                  profile |-> NoRow]
           state == [IdleScorer EXCEPT
                       !.pc = "loaded", !.dispute = d, !.at = now,
                       !.inputs = si]
<1>1. /\ ScorerMoves(w, state) /\ UNCHANGED <<ingestVars, tables>>
      /\ MayStart /\ cases[d] # NoRow
  BY DEF StartScoring
<1>2. state.pc = "loaded" /\ state.dispute = d /\ state.inputs = si
  BY DEF IdleScorer
<1>3. /\ si.phase = cases[d].phase /\ si.bundle = bundles[d]
      /\ si.manual = (cases[d].category = Manual)
  OBVIOUS
<1> HIDE DEF state, si
<1>4. ScorerCurrent(state)
  BY <1>1, <1>2, <1>3 DEF ScorerCurrent
<1>5. QED
  BY <1>1, <1>4, ScorerQuietSerial

LEMMA FinishInputsSerial ==
  ASSUME ReviewInv, ReviewSerialInv, Overlap = FALSE, NEW w \in Scorers,
         FinishInputs(w)
  PROVE  ReviewSerialInv'
<1> DEFINE s == scorers[w]
           si == [s.inputs EXCEPT !.wasReopened = WasReopened(s.dispute),
                                  !.profile = profiles[s.dispute]]
           state == [s EXCEPT !.pc = "scored", !.inputs = si]
<1>1. s \in ScorerState /\ s.pc = "loaded"
  BY DEF FinishInputs, ReviewInv, ReviewTypeOK
<1>2. s.dispute \in Disputes /\ s.inputs \in ScoreInputs
  BY <1>1 DEF ReviewInv, WorkersHold, ScorerHolds
<1>3. /\ si.phase = s.inputs.phase /\ si.manual = s.inputs.manual
      /\ si.bundle = s.inputs.bundle
      /\ si.wasReopened = WasReopened(s.dispute)
  BY <1>2 DEF ScoreInputs
<1>4. ScorerMoves(w, state) /\ UNCHANGED <<ingestVars, tables>>
  BY DEF FinishInputs
<1> HIDE DEF si
<1>5. state.pc = "scored" /\ state.dispute = s.dispute /\ state.inputs = si
  BY <1>1 DEF ScorerState
<1>6. ScorerCurrent(s)
  BY DEF ReviewSerialInv, WorkersCurrent
<1> HIDE DEF state, s
<1>7. ScorerCurrent(state)
  BY <1>1, <1>3, <1>5, <1>6 DEF ScorerCurrent
<1>8. QED
  BY <1>1, <1>4, <1>7, ScorerQuietSerial DEF s

LEMMA LoadActiveSerial ==
  ASSUME ReviewInv, ReviewSerialInv, Overlap = FALSE, NEW w \in Scorers,
         LoadActive(w)
  PROVE  ReviewSerialInv'
<1> DEFINE s == scorers[w]
           g == ActiveGeneration(s.dispute)
           entry == IF g = 0 THEN NoRow ELSE queue[s.dispute][g]
           reenters == g # 0 /\ ReopenedForward(s.inputs, s.dispute, g)
           state == [s EXCEPT !.pc = "routing", !.generation = g,
                              !.entry = entry, !.reenters = reenters]
<1>1. s \in ScorerState /\ s.pc = "scored"
  BY DEF LoadActive, ReviewInv, ReviewTypeOK
<1>2. s.dispute \in Disputes
  BY <1>1 DEF ReviewInv, WorkersHold, ScorerHolds
<1>3. g = Len(queue[s.dispute])
  BY <1>2, ActiveIsNewest DEF ReviewInv, TablesInv
<1>4. g # 0 => entry = queue[s.dispute][g]
  OBVIOUS
<1>5. ScorerMoves(w, state) /\ UNCHANGED <<ingestVars, tables>>
  BY DEF LoadActive
<1> HIDE DEF g, entry
<1>6. /\ state.pc = "routing" /\ state.dispute = s.dispute
      /\ state.inputs = s.inputs /\ state.generation = g
      /\ state.entry = entry
      /\ state.reenters = (g # 0 /\ ReopenedForward(s.inputs, s.dispute, g))
  BY <1>1 DEF ScorerState
<1>7. ScorerCurrent(s)
  BY DEF ReviewSerialInv, WorkersCurrent
<1> HIDE DEF state, s
<1>8. ScorerCurrent(state)
  BY <1>1, <1>3, <1>4, <1>6, <1>7 DEF ScorerCurrent
<1>9. QED
  BY <1>1, <1>5, <1>8, ScorerQuietSerial DEF s

(* A routing commit, given that it leaves the queue of the dispute in order. *)
LEMMA CommitRouteSerial ==
  ASSUME ReviewInv, ReviewSerialInv, Overlap = FALSE, NEW w \in Scorers,
         NEW entries \in Seq(Entry), scorers[w].pc = "routing",
         CommitRoute(w, entries),
         \A adv :
           /\ adv.confidence = Confidence(scorers[w].inputs)
           /\ adv.action = ActionFor(HardGates(scorers[w].inputs, scorers[w].at),
                                     Confidence(scorers[w].inputs))
           => QueueFine(entries, cases[scorers[w].dispute],
                        WasReopened(scorers[w].dispute),
                        decisions[scorers[w].dispute], adv)
  PROVE  ReviewSerialInv'
<1> DEFINE s == scorers[w]
           d == s.dispute
           scored == ScoredEntry(s.inputs, s.at, FALSE, FALSE)
           adv == [confidence |-> scored.confidence, action |-> scored.action]
<1>1. s \in ScorerState /\ d \in Disputes /\ cases[d] # NoRow
  BY DEF ReviewInv, ReviewTypeOK, WorkersHold, ScorerHolds, ReviewSerialInv,
         WorkersCurrent, ScorerCurrent
<1>2. /\ adv.confidence = Confidence(s.inputs)
      /\ adv.action = ActionFor(HardGates(s.inputs, s.at), Confidence(s.inputs))
  BY DEF ScoredEntry
<1>3. /\ queue' = [queue EXCEPT ![d] = entries]
      /\ advice' = [advice EXCEPT ![d] = adv]
      /\ ScorerMoves(w, IdleScorer)
      /\ UNCHANGED <<ingestVars, bundles, profiles, decisions, outcomes>>
  BY DEF CommitRoute
<1>4. QueueFine(entries, cases[d], WasReopened(d), decisions[d], adv)
  BY <1>2
<1> HIDE DEF adv, s, d
<1>5. UNCHANGED <<cases, history, handlers, decisions>>
  BY <1>3 DEF ingestVars
<1>6. /\ queue'[d] = entries /\ advice'[d] = adv
      /\ \A c \in Disputes : c # d => queue'[c] = queue[c]
                                     /\ advice'[c] = advice[c]
  BY <1>1, <1>3 DEF ReviewInv, ReviewTypeOK
<1>7. \A c \in Disputes : WasReopened(c)' = WasReopened(c)
  BY <1>5 DEF WasReopened, ReopenRows
<1>8. ASSUME NEW c \in Disputes
      PROVE  DisputeFine(c)'
  BY <1>1, <1>4, <1>5, <1>6, <1>7 DEF ReviewSerialInv, QueuesFine, DisputeFine
<1>9. scorers'[w].pc = "idle"
  BY <1>3 DEF ScorerMoves, IdleScorer, ReviewInv, ReviewTypeOK
<1>10. ScorerCurrent(scorers[w])'
  BY <1>9 DEF ScorerCurrent
<1>11. SerialInv' /\ OneAtWork' /\ WorkersCurrent'
  BY <1>3, <1>5, <1>10, ScorerAlone
<1>12. QED
  BY <1>8, <1>11 DEF ReviewSerialInv, QueuesFine

LEMMA RouteFirstSerial ==
  ASSUME ReviewInv, ReviewSerialInv, Overlap = FALSE, NEW w \in Scorers,
         RouteFirst(w)
  PROVE  ReviewSerialInv'
<1> DEFINE s == scorers[w]
           d == s.dispute
           e == ScoredEntry(s.inputs, s.at, FALSE, FALSE)
<1>1. s \in ScorerState /\ s.pc = "routing" /\ CommitRoute(w, <<e>>)
  BY DEF RouteFirst, ReviewInv, ReviewTypeOK
<1>2. d \in Disputes /\ s.inputs \in ScoreInputs /\ s.at \in Nat
  BY <1>1, ReviewBoundsAssumption
     DEF ReviewInv, WorkersHold, ScorerHolds, ScorerState
<1>3. /\ cases[d] # NoRow /\ s.inputs.phase = cases[d].phase
      /\ s.inputs.wasReopened <=> WasReopened(d)
  BY <1>1 DEF ReviewSerialInv, WorkersCurrent, ScorerCurrent
<1>4. cases[d] \in CaseRow
  BY <1>2, <1>3 DEF ReviewInv, TypeInv, TypeOK
<1>5. WasReopened(d) \in BOOLEAN
  BY DEF WasReopened
<1>6. e \in Entry /\ ~e.dispatched
  BY <1>2, ScoredEntryType, Zenon
<1>7. /\ Ungated(e) /\ e.phase = s.inputs.phase
      /\ e.wasReopened = s.inputs.wasReopened
      /\ e.confidence = Confidence(s.inputs)
      /\ e.action = ActionFor(HardGates(s.inputs, s.at), Confidence(s.inputs))
  BY <1>2, ScoredEntryFine, Zenon
<1> HIDE DEF e
<1>8. ASSUME NEW adv, adv.confidence = e.confidence, adv.action = e.action
      PROVE  QueueFine(<<e>>, cases[d], WasReopened(d), decisions[d], adv)
  BY <1>3, <1>4, <1>5, <1>6, <1>7, <1>8, FineFirst
<1>9. <<e>> \in Seq(Entry)
  BY <1>6
<1>10. QED
  BY <1>1, <1>7, <1>8, <1>9, CommitRouteSerial

LEMMA RouteAgainSerial ==
  ASSUME ReviewInv, ReviewSerialInv, Overlap = FALSE, NEW w \in Scorers,
         RouteAgain(w)
  PROVE  ReviewSerialInv'
<1> DEFINE s == scorers[w]
           d == s.dispute
           n == s.generation
           q == queue[d]
           e == ScoredEntry(s.inputs, s.at, s.entry.dispatched,
                            s.entry.superseded)
<1>1. /\ s \in ScorerState /\ s.pc = "routing" /\ n # 0 /\ ~s.reenters
      /\ CommitRoute(w, [q EXCEPT ![n] = MergedEntry(s.entry, e, q[n])])
  BY DEF RouteAgain, ReviewInv, ReviewTypeOK
<1>2. /\ d \in Disputes /\ s.inputs \in ScoreInputs /\ s.at \in Nat
      /\ s.entry \in Entry /\ n \in DOMAIN q
  BY <1>1, ReviewBoundsAssumption
     DEF ReviewInv, WorkersHold, ScorerHolds, ScorerState
<1>3. /\ cases[d] # NoRow /\ s.inputs.phase = cases[d].phase
      /\ s.inputs.wasReopened <=> WasReopened(d)
      /\ n = Len(q) /\ s.entry = q[n]
      /\ s.reenters <=> ReopenedForward(s.inputs, d, n)
  BY <1>1 DEF ReviewSerialInv, WorkersCurrent, ScorerCurrent
<1>4. cases[d] \in CaseRow /\ q \in Seq(Entry)
  BY <1>2, <1>3 DEF ReviewInv, TypeInv, TypeOK, ReviewTypeOK
<1>5. WasReopened(d) \in BOOLEAN
  BY DEF WasReopened
<1>6. s.entry.dispatched \in BOOLEAN /\ s.entry.superseded \in BOOLEAN
  BY <1>2 DEF Entry
<1>7. e \in Entry /\ e.dispatched = s.entry.dispatched
  BY <1>2, <1>6, ScoredEntryType, Zenon
<1>8. /\ Ungated(e) /\ e.phase = s.inputs.phase
      /\ e.wasReopened = s.inputs.wasReopened
      /\ e.confidence = Confidence(s.inputs)
      /\ e.action = ActionFor(HardGates(s.inputs, s.at), Confidence(s.inputs))
  BY <1>2, <1>6, ScoredEntryFine, Zenon
<1>9. QueueFine(q, cases[d], WasReopened(d), decisions[d], advice[d])
  BY <1>2, <1>4 DEF ReviewSerialInv, QueuesFine, DisputeFine
<1>10. ~(WasReopened(d) /\ cases[d].phase > q[n].phase /\ q[n].dispatched)
  BY <1>1, <1>3 DEF ReopenedForward
<1> HIDE DEF e
<1>11. MergedEntry(s.entry, e, q[n]) = e
  BY <1>2, <1>3, <1>7, MergedEntryIdentity
<1>12. CommitRoute(w, [q EXCEPT ![n] = e])
  BY <1>1, <1>11
<1>13. [q EXCEPT ![n] = e] \in Seq(Entry)
  BY <1>2, <1>4, <1>7, ExceptSeq
<1>14. ASSUME NEW adv, adv.confidence = e.confidence, adv.action = e.action
       PROVE  QueueFine([q EXCEPT ![n] = e], cases[d], WasReopened(d),
                        decisions[d], adv)
  <2>1. /\ Ungated(e) /\ e.phase = cases[d].phase
        /\ e.wasReopened <=> WasReopened(d)
        /\ e.dispatched = q[n].dispatched
    BY <1>3, <1>7, <1>8
  <2> HIDE DEF q, n, d
  <2>2. QED
    BY <1>1, <1>3, <1>4, <1>5, <1>7, <1>9, <1>10, <1>14, <2>1, FineRescored
<1>15. QED
  BY <1>1, <1>8, <1>12, <1>13, <1>14, CommitRouteSerial

LEMMA RouteReopenedSerial ==
  ASSUME ReviewInv, ReviewSerialInv, Overlap = FALSE, NEW w \in Scorers,
         RouteReopened(w)
  PROVE  ReviewSerialInv'
<1> DEFINE s == scorers[w]
           d == s.dispute
           n == s.generation
           q == queue[d]
           closed == [q EXCEPT ![n].superseded = TRUE]
           e == ScoredEntry(s.inputs, s.at, FALSE, FALSE)
<1>1. /\ s \in ScorerState /\ s.pc = "routing" /\ n # 0 /\ s.reenters
      /\ CommitRoute(w, Append(closed, e))
  BY DEF RouteReopened, ReviewInv, ReviewTypeOK
<1>2. /\ d \in Disputes /\ s.inputs \in ScoreInputs /\ s.at \in Nat
      /\ n \in DOMAIN q
  BY <1>1, ReviewBoundsAssumption
     DEF ReviewInv, WorkersHold, ScorerHolds, ScorerState
<1>3. /\ cases[d] # NoRow /\ s.inputs.phase = cases[d].phase
      /\ s.inputs.wasReopened <=> WasReopened(d)
      /\ n = Len(q)
      /\ s.reenters <=> ReopenedForward(s.inputs, d, n)
  BY <1>1 DEF ReviewSerialInv, WorkersCurrent, ScorerCurrent
<1>4. cases[d] \in CaseRow /\ q \in Seq(Entry)
  BY <1>2, <1>3 DEF ReviewInv, TypeInv, TypeOK, ReviewTypeOK
<1>5. q[n] \in Entry
  BY <1>2, <1>4
<1>6. e \in Entry /\ ~e.dispatched
  BY <1>2, ScoredEntryType, Zenon
<1>7. /\ Ungated(e) /\ e.phase = s.inputs.phase
      /\ e.wasReopened = s.inputs.wasReopened
      /\ e.confidence = Confidence(s.inputs)
      /\ e.action = ActionFor(HardGates(s.inputs, s.at), Confidence(s.inputs))
  BY <1>2, ScoredEntryFine, Zenon
<1>8. /\ WasReopened(d) /\ cases[d].phase > q[n].phase
  BY <1>1, <1>3 DEF ReopenedForward
<1>9. QueueFine(q, cases[d], TRUE, decisions[d], advice[d])
  <2>1. QueueFine(q, cases[d], WasReopened(d), decisions[d], advice[d])
    BY <1>2, <1>4 DEF ReviewSerialInv, QueuesFine, DisputeFine
  <2>2. WasReopened(d) = TRUE
    BY <1>8 DEF WasReopened
  <2>3. QED
    BY <2>1, <2>2
<1> DEFINE last == [q[n] EXCEPT !.superseded = TRUE]
<1>10. closed = [q EXCEPT ![n] = last]
  OBVIOUS
<1>11. /\ last \in Entry
       /\ last.queue = q[n].queue /\ last.gates = q[n].gates
       /\ last.confidence = q[n].confidence
       /\ last.phase = q[n].phase /\ last.wasReopened = q[n].wasReopened
  BY <1>5 DEF Entry
<1> HIDE DEF e, closed, last
<1>12. /\ closed \in Seq(Entry) /\ Len(closed) = n
       /\ closed[n] = last
       /\ \A g \in 1..n : g # n => closed[g] = q[g]
  <2>1. Len(q) \in Nat /\ DOMAIN q = 1..Len(q)
    BY <1>4
  <2>2. QED
    BY <1>2, <1>3, <1>4, <1>10, <1>11, <2>1, ExceptSeq
<1>13. \A g \in 1..n : /\ Ungated(q[g]) => Ungated(closed[g])
                       /\ closed[g].phase = q[g].phase
                       /\ closed[g].wasReopened = q[g].wasReopened
  BY <1>11, <1>12 DEF Ungated
<1>14. Append(closed, e) \in Seq(Entry)
  BY <1>6, <1>12
<1>15. ASSUME NEW adv, adv.confidence = e.confidence, adv.action = e.action
       PROVE  QueueFine(Append(closed, e), cases[d], WasReopened(d),
                        decisions[d], adv)
  <2>1. /\ Ungated(e) /\ e.phase = cases[d].phase /\ e.wasReopened
    BY <1>3, <1>7, <1>8
  <2>2. WasReopened(d) = TRUE
    BY <1>8 DEF WasReopened
  <2> HIDE DEF q, n, d
  <2>3. QueueFine(Append(closed, e), cases[d], TRUE, decisions[d], adv)
    BY <1>1, <1>3, <1>4, <1>6, <1>8, <1>9, <1>12, <1>13, <1>15, <2>1,
       FineReentered
  <2>4. QED
    BY <2>2, <2>3
<1>16. QED
  BY <1>1, <1>7, <1>14, <1>15, CommitRouteSerial

LEMMA ScorerStepSerial ==
  ASSUME ReviewInv, ReviewSerialInv, Overlap = FALSE, NEW w \in Scorers,
         ScorerStep(w)
  PROVE  ReviewSerialInv'
<1>1. ASSUME RouteConflict(w) \/ ScoringAbort(w)
      PROVE  ReviewSerialInv'
  <2>1. /\ ScorerMoves(w, IdleScorer) /\ UNCHANGED <<ingestVars, tables>>
        /\ scorers[w].pc # "idle"
    BY <1>1 DEF RouteConflict, ScoringAbort
  <2>2. ScorerCurrent(IdleScorer)
    BY DEF ScorerCurrent, IdleScorer
  <2>3. QED
    BY <2>1, <2>2, ScorerQuietSerial
<1>2. QED
  BY <1>1, StartScoringSerial, FinishInputsSerial, LoadActiveSerial,
     RouteFirstSerial, RouteAgainSerial, RouteReopenedSerial DEF ScorerStep

-----------------------------------------------------------------------------
(* Every step of a reviewer.                                               *)
LEMMA ReviewerQuietSerial ==
  ASSUME ReviewInv, ReviewSerialInv, Overlap = FALSE, NEW r \in Reviewers,
         NEW state, ReviewerMoves(r, state),
         UNCHANGED <<ingestVars, bundles, profiles, queue, advice, decisions>>,
         reviewers[r].pc # "idle" \/ MayStart,
         ReviewerCurrent(state)
  PROVE  ReviewSerialInv'
<1>1. UNCHANGED <<cases, history, handlers, queue, advice, decisions>>
  BY DEF ingestVars
<1>2. reviewers'[r] = state
  BY DEF ReviewerMoves, ReviewInv, ReviewTypeOK
<1>3. ReviewerCurrent(reviewers[r])'
  BY <1>1, <1>2 DEF ReviewerCurrent
<1>4. QueuesFine'
  BY <1>1, QueuesQuiet DEF ReviewSerialInv
<1>5. QED
  BY <1>1, <1>3, <1>4, ReviewerAlone DEF ReviewSerialInv

LEMMA OpenReviewSerial ==
  ASSUME ReviewInv, ReviewSerialInv, Overlap = FALSE, NEW r \in Reviewers,
         NEW d \in Disputes, NEW body \in Requests, OpenReview(r, d, body)
  PROVE  ReviewSerialInv'
<1> DEFINE state == [IdleReviewer EXCEPT
                       !.pc = "loaded", !.dispute = d,
                       !.decision = body.decision, !.outcome = body.outcome,
                       !.at = now, !.case = cases[d]]
<1>1. /\ ReviewerMoves(r, state) /\ UNCHANGED <<ingestVars, tables>>
      /\ MayStart
  BY DEF OpenReview
<1>2. state.pc = "loaded" /\ state.dispute = d /\ state.case = cases[d]
  BY DEF IdleReviewer
<1> HIDE DEF state
<1>3. ReviewerCurrent(state)
  BY <1>2 DEF ReviewerCurrent
<1>4. QED
  BY <1>1, <1>3, ReviewerQuietSerial DEF tables

LEMMA LoadEntrySerial ==
  ASSUME ReviewInv, ReviewSerialInv, Overlap = FALSE, NEW r \in Reviewers,
         LoadEntry(r)
  PROVE  ReviewSerialInv'
<1> DEFINE v == reviewers[r]
           g == ActiveGeneration(v.dispute)
           state == [v EXCEPT !.pc = "deciding", !.generation = g,
                              !.entry = queue[v.dispute][g]]
<1>1. v \in ReviewerState /\ v.pc = "loaded"
  BY DEF LoadEntry, ReviewInv, ReviewTypeOK
<1>2. v.dispute \in Disputes
  BY <1>1 DEF ReviewInv, WorkersHold, ReviewerHolds
<1>3. g = Len(queue[v.dispute])
  BY <1>2, ActiveIsNewest DEF ReviewInv, TablesInv
<1>4. ReviewerMoves(r, state) /\ UNCHANGED <<ingestVars, tables>>
  BY DEF LoadEntry
<1> HIDE DEF g
<1>5. /\ state.pc = "deciding" /\ state.dispute = v.dispute
      /\ state.case = v.case /\ state.generation = g
      /\ state.entry = queue[v.dispute][g]
  BY <1>1 DEF ReviewerState
<1>6. ReviewerCurrent(v)
  BY DEF ReviewSerialInv, WorkersCurrent
<1> HIDE DEF state, v
<1>7. ReviewerCurrent(state)
  BY <1>1, <1>3, <1>5, <1>6 DEF ReviewerCurrent
<1>8. QED
  BY <1>1, <1>4, <1>7, ReviewerQuietSerial DEF v, tables

LEMMA LoadOutcomeSerial ==
  ASSUME ReviewInv, ReviewSerialInv, Overlap = FALSE, NEW r \in Reviewers,
         LoadOutcome(r)
  PROVE  ReviewSerialInv'
<1> DEFINE v == reviewers[r]
<1>1. v \in ReviewerState /\ v.pc = "outcome"
  BY DEF LoadOutcome, ReviewInv, ReviewTypeOK
<1>2. PICK row : /\ ReviewerMoves(r, [v EXCEPT !.pc = "logging", !.row = row])
                 /\ UNCHANGED <<ingestVars, tables>>
  BY Zenon DEF LoadOutcome
<1>3. [v EXCEPT !.pc = "logging", !.row = row].pc = "logging"
  BY <1>1 DEF ReviewerState
<1>4. ReviewerCurrent([v EXCEPT !.pc = "logging", !.row = row])
  BY <1>3 DEF ReviewerCurrent
<1>5. QED
  BY <1>1, <1>2, <1>4, ReviewerQuietSerial DEF tables

(* What a decision does, given that the reviewer's rows are the stored ones. *)
LEMMA DecisionEffect ==
  ASSUME ReviewInv, ReviewSerialInv, NEW r \in Reviewers, CommitReview(r)
  PROVE  \E d \in Disputes, case \in CaseRow, left \in CaseRow, n \in Nat,
            e \in Entry, row \in Decision :
           /\ d = reviewers[r].dispute
           /\ cases[d] = case
           /\ left = [case EXCEPT !.status =
                        StatusAfter(reviewers[r].decision, case.status)]
           /\ n = Len(queue[d]) /\ n # 0
           /\ e = [queue[d][n] EXCEPT !.dispatched =
                     queue[d][n].dispatched
                       \/ reviewers[r].decision = "submit"]
           /\ row.generation = n
           /\ row.decision = reviewers[r].decision
           /\ row.phase = case.phase
           /\ cases' = [cases EXCEPT ![d] = left]
           /\ queue' = [queue EXCEPT ![d] = [queue[d] EXCEPT ![n] = e]]
           /\ decisions' = [decisions EXCEPT ![d] = Append(decisions[d], row)]
           /\ UNCHANGED <<history, handlers, bundles, advice, outcomes>>
<1> DEFINE v == reviewers[r]
           d == v.dispute
           n == v.generation
           case == cases[d]
           left == [case EXCEPT !.status = StatusAfter(v.decision, case.status)]
           e == [queue[d][n] EXCEPT !.dispatched =
                   queue[d][n].dispatched \/ v.decision = "submit"]
           row == [generation |-> n, decision |-> v.decision,
                   decidedAt |-> v.at, phase |-> v.case.phase,
                   confidence |-> v.entry.confidence, queue |-> v.entry.queue]
<1>1. v \in ReviewerState /\ v.pc = "deciding"
  BY DEF CommitReview, ReviewInv, ReviewTypeOK
<1>2. /\ d \in Disputes /\ v.decision \in Decisions /\ v.case \in CaseRow
      /\ v.entry \in Entry /\ n \in DOMAIN queue[d]
  BY <1>1 DEF ReviewInv, WorkersHold, ReviewerHolds
<1>3. /\ v.case = case /\ n = Len(queue[d]) /\ v.entry = queue[d][n]
  BY <1>1 DEF ReviewSerialInv, WorkersCurrent, ReviewerCurrent
<1>4. queue[d] \in Seq(Entry) /\ n \in Nat /\ n # 0
  BY <1>1, <1>2 DEF ReviewInv, ReviewTypeOK, ReviewerState
<1>5. case \in CaseRow /\ left \in CaseRow
  BY <1>2, <1>3 DEF StatusAfter, CaseRow, Statuses, Unresolved
<1>6. e \in Entry
  BY <1>2, <1>3 DEF Entry
<1>7. row \in Decision
  BY <1>1, <1>2, <1>4, ReviewBoundsAssumption
     DEF Decision, Entry, CaseRow, ReviewerState
<1>8. /\ cases' = [cases EXCEPT ![d] = left]
      /\ queue' = [queue EXCEPT ![d] = [queue[d] EXCEPT ![n] = e]]
  <2>1. /\ cases' = [cases EXCEPT ![d].status =
                       Column(v.case.status,
                              StatusAfter(v.decision, v.case.status), @)]
        /\ queue' = [queue EXCEPT ![d][n].dispatched =
                       Column(v.entry.dispatched,
                              v.entry.dispatched \/ v.decision = "submit", @)]
    BY Zenon DEF CommitReview
  <2>2. Column(v.case.status, StatusAfter(v.decision, v.case.status),
               case.status) = StatusAfter(v.decision, case.status)
    BY <1>3 DEF Column
  <2>3. Column(v.entry.dispatched, v.entry.dispatched \/ v.decision = "submit",
               queue[d][n].dispatched)
          = (queue[d][n].dispatched \/ v.decision = "submit")
    BY <1>2, <1>3 DEF Column, Entry
  <2>4. QED
    BY <2>1, <2>2, <2>3
<1>9. decisions' = [decisions EXCEPT ![d] = Append(decisions[d], row)]
  BY DEF CommitReview
<1>10. UNCHANGED <<history, handlers, bundles, advice, outcomes>>
  BY DEF CommitReview
<1>11. row.generation = n /\ row.decision = v.decision /\ row.phase = case.phase
  BY <1>3
<1> HIDE DEF left, e, row
<1>12. QED
  BY <1>2, <1>3, <1>4, <1>5, <1>6, <1>7, <1>8, <1>9, <1>10, <1>11
     DEF left, e

LEMMA CommitReviewSerial ==
  ASSUME ReviewInv, ReviewSerialInv, Overlap = FALSE, NEW r \in Reviewers,
         CommitReview(r)
  PROVE  ReviewSerialInv'
<1>1. PICK d \in Disputes, case \in CaseRow, left \in CaseRow, n \in Nat,
           e \in Entry, row \in Decision :
        /\ d = reviewers[r].dispute
        /\ cases[d] = case
        /\ left = [case EXCEPT !.status =
                     StatusAfter(reviewers[r].decision, case.status)]
        /\ n = Len(queue[d]) /\ n # 0
        /\ e = [queue[d][n] EXCEPT !.dispatched =
                  queue[d][n].dispatched \/ reviewers[r].decision = "submit"]
        /\ row.generation = n
        /\ row.decision = reviewers[r].decision
        /\ row.phase = case.phase
        /\ cases' = [cases EXCEPT ![d] = left]
        /\ queue' = [queue EXCEPT ![d] = [queue[d] EXCEPT ![n] = e]]
        /\ decisions' = [decisions EXCEPT ![d] = Append(decisions[d], row)]
        /\ UNCHANGED <<history, handlers, bundles, advice, outcomes>>
  BY DecisionEffect, Zenon
<1>2. /\ queue[d] \in Seq(Entry) /\ decisions[d] \in Seq(Decision)
      /\ cases \in [Disputes -> CaseRow \union {NoRow}]
      /\ queue \in [Disputes -> Seq(Entry)]
      /\ decisions \in [Disputes -> Seq(Decision)]
  BY DEF ReviewInv, ReviewTypeOK, TypeInv, TypeOK
<1>3. queue[d][n] \in Entry /\ queue[d] # <<>> /\ DOMAIN queue[d] = 1..n
  BY <1>1, <1>2
<1>4. /\ left.phase = case.phase /\ left.reopenCount = case.reopenCount
  BY <1>1 DEF CaseRow
<1>5. /\ e.queue = queue[d][n].queue /\ e.gates = queue[d][n].gates
      /\ e.confidence = queue[d][n].confidence
      /\ e.action = queue[d][n].action
      /\ e.phase = queue[d][n].phase
      /\ e.wasReopened = queue[d][n].wasReopened
      /\ e.dispatched => queue[d][n].dispatched \/ row.decision = "submit"
  BY <1>1, <1>3 DEF Entry
<1>6. QueueFine(queue[d], case, WasReopened(d), decisions[d], advice[d])
  BY <1>1, <1>3 DEF ReviewSerialInv, QueuesFine, DisputeFine
<1>7. /\ cases'[d] = left /\ queue'[d] = [queue[d] EXCEPT ![n] = e]
      /\ decisions'[d] = Append(decisions[d], row)
      /\ \A c \in Disputes : c # d => /\ cases'[c] = cases[c]
                                     /\ queue'[c] = queue[c]
                                     /\ decisions'[c] = decisions[c]
  BY <1>1, <1>2
<1>8. \A c \in Disputes : WasReopened(c)' = WasReopened(c)
  BY <1>1, <1>4, <1>7 DEF WasReopened, ReopenRows
<1>9. WasReopened(d) \in BOOLEAN
  BY DEF WasReopened
<1>10. QueueFine([queue[d] EXCEPT ![n] = e], left, WasReopened(d),
                 Append(decisions[d], row), advice[d])
  <2>1. Ungated(queue[d][n]) => Ungated(e)
    BY <1>5 DEF Ungated
  <2>2. /\ n = Len(queue[d]) /\ n # 0
        /\ row.generation = n /\ row.phase = case.phase
    BY <1>1
  <2> DEFINE q == queue[d]
             log == decisions[d]
             adv == advice[d]
  <2> HIDE DEF q, log, adv
  <2>3. QueueFine([q EXCEPT ![n] = e], left, WasReopened(d), Append(log, row),
                  adv)
    BY <1>2, <1>4, <1>5, <1>6, <1>9, <2>1, <2>2, FineDecided DEF q, log, adv
  <2>4. QED
    BY <2>3 DEF q, log, adv
<1>11. ASSUME NEW c \in Disputes
       PROVE  DisputeFine(c)'
  <2>1. CASE c = d
    <3>1. QueueFine(queue'[d], cases'[d], WasReopened(d)', decisions'[d],
                    advice'[d])
      BY <1>1, <1>7, <1>8, <1>10
    <3>2. cases'[d] # NoRow
      BY <1>7, NoRowAssumption
    <3>3. QED
      BY <2>1, <3>1, <3>2 DEF DisputeFine
  <2>2. CASE c # d
    BY <1>1, <1>7, <1>8, <2>2 DEF ReviewSerialInv, QueuesFine, DisputeFine
  <2>3. QED
    BY <2>1, <2>2
<1> DEFINE v == reviewers[r]
           state == IF v.outcome = "none" THEN IdleReviewer
                    ELSE [v EXCEPT !.pc = "outcome"]
<1>12. v \in ReviewerState /\ v.pc = "deciding" /\ ReviewerMoves(r, state)
  BY DEF CommitReview, ReviewInv, ReviewTypeOK
<1>13. state.pc \in {"idle", "outcome"}
  BY <1>12 DEF ReviewerState, IdleReviewer
<1> HIDE DEF state
<1>14. reviewers'[r] = state
  BY <1>12 DEF ReviewerMoves, ReviewInv, ReviewTypeOK
<1>15. ReviewerCurrent(reviewers[r])'
  BY <1>13, <1>14 DEF ReviewerCurrent
<1>16. SerialInv' /\ OneAtWork' /\ WorkersCurrent'
  BY <1>1, <1>12, <1>15, ReviewerAlone
<1>17. QED
  BY <1>11, <1>16 DEF ReviewSerialInv, QueuesFine

LEMMA ReviewerStepSerial ==
  ASSUME ReviewInv, ReviewSerialInv, Overlap = FALSE, NEW r \in Reviewers,
         ReviewerStep(r)
  PROVE  ReviewSerialInv'
<1>1. ASSUME LogOutcome(r) \/ RefuseOutcome(r) \/ ReviewAbort(r)
      PROVE  ReviewSerialInv'
  <2>1. /\ ReviewerMoves(r, IdleReviewer)
        /\ UNCHANGED <<ingestVars, bundles, profiles, queue, advice, decisions>>
        /\ reviewers[r].pc # "idle"
    BY <1>1 DEF LogOutcome, RefuseOutcome, ReviewAbort, tables
  <2>2. ReviewerCurrent(IdleReviewer)
    BY DEF ReviewerCurrent, IdleReviewer
  <2>3. QED
    BY <2>1, <2>2, ReviewerQuietSerial
<1>2. QED
  BY <1>1, OpenReviewSerial, LoadEntrySerial, LoadOutcomeSerial,
     CommitReviewSerial DEF ReviewerStep

-----------------------------------------------------------------------------
(* The steps of everyone else: the router, and whoever starts only when no *)
(* scorer is at work or touches nothing that a scorer has read.            *)
LEMMA OtherStepSerial ==
  ASSUME ReviewInv, ReviewSerialInv, Overlap = FALSE,
         \/ [Next]_ingestVars /\ WorkersIdle
         \/ UNCHANGED ingestVars /\ (WorkersIdle \/ bundles' = bundles),
         UNCHANGED <<queue, advice, decisions, outcomes, scorers, reviewers>>
  PROVE  ReviewSerialInv'
<1>1. TypeInv /\ SerialInv /\ ReviewTypeOK /\ QueuesFine
  BY DEF ReviewInv, ReviewSerialInv
<1>2. [Next]_ingestVars
  OBVIOUS
<1>3. SerialInv' /\ QueuesFine'
  BY <1>1, <1>2, SerialInvStep, FineThroughRouter
<1>4. CASE WorkersIdle
  <2>1. WorkersIdle'
    BY <1>4 DEF WorkersIdle
  <2>2. OneAtWork' /\ WorkersCurrent'
    BY <2>1 DEF OneAtWork, WorkersIdle, WorkersCurrent, ScorerCurrent,
                ReviewerCurrent
  <2>3. QED
    BY <1>3, <2>2 DEF ReviewSerialInv
<1>5. CASE UNCHANGED ingestVars /\ bundles' = bundles
  <2>1. OneAtWork'
    BY <1>5 DEF ReviewSerialInv, OneAtWork, AllIdle, WorkersIdle, ingestVars
  <2>2. ASSUME NEW w \in Scorers
        PROVE  ScorerCurrent(scorers[w])'
    <3>1. ScorerCurrent(scorers[w])
      BY DEF ReviewSerialInv, WorkersCurrent
    <3>2. QED
      BY <1>5, <3>1 DEF ScorerCurrent, WasReopened, ReopenRows,
                        ReopenedForward, HasOutcome, ingestVars
  <2>3. ASSUME NEW r \in Reviewers
        PROVE  ReviewerCurrent(reviewers[r])'
    <3>1. ReviewerCurrent(reviewers[r])
      BY DEF ReviewSerialInv, WorkersCurrent
    <3>2. QED
      BY <1>5, <3>1 DEF ReviewerCurrent, ingestVars
  <2>4. QED
    BY <1>3, <2>1, <2>2, <2>3 DEF ReviewSerialInv, WorkersCurrent
<1>6. QED
  BY <1>4, <1>5

LEMMA ReviewSerialStep ==
  ASSUME ReviewInv, ReviewSerialInv, Overlap = FALSE, [ReviewNext]_allVars
  PROVE  ReviewSerialInv'
<1>1. CASE Ingest
  BY <1>1, OtherStepSerial DEF Ingest, reviewVars, tables
<1>2. ASSUME NEW d \in Disputes, Assemble(d) \/ MeasureRisk(d)
      PROVE  ReviewSerialInv'
  BY <1>2, OtherStepSerial DEF Assemble, MeasureRisk, MayStart
<1>3. CASE Tick \/ UNCHANGED allVars
  BY <1>3, OtherStepSerial DEF Tick, allVars, reviewVars, tables
<1>4. QED
  BY <1>1, <1>2, <1>3, ScorerStepSerial, ReviewerStepSerial DEF ReviewNext

LEMMA ReviewSerialInit ==
  ASSUME ReviewInit
  PROVE  ReviewSerialInv
<1>1. SerialInv
  BY DEF ReviewInit, Init, Idle, SerialInv, OneBusy, SnapshotsCurrent
<1>2. WorkersIdle
  BY DEF ReviewInit, WorkersIdle, IdleScorer, IdleReviewer
<1>3. OneAtWork /\ WorkersCurrent
  BY <1>2 DEF OneAtWork, WorkersIdle, WorkersCurrent, ScorerCurrent,
              ReviewerCurrent
<1>4. QueuesFine
  BY DEF ReviewInit, QueuesFine, DisputeFine
<1>5. QED
  BY <1>1, <1>3, <1>4 DEF ReviewSerialInv

LEMMA ReviewSerialInvariant ==
  Overlap = FALSE /\ ReviewSpec => []ReviewSerialInv
<1> SUFFICES ASSUME Overlap = FALSE
             PROVE  ReviewSpec => []ReviewSerialInv
  OBVIOUS
<1>1. ReviewInv /\ ReviewSerialInv /\ [ReviewNext]_allVars => ReviewSerialInv'
  BY ReviewSerialStep
<1>2. QED
  BY <1>1, ReviewSerialInit, ReviewInvariant, PTL DEF ReviewSpec

-----------------------------------------------------------------------------
(* What the invariant says of every queue, and of its live entry.          *)
LEMMA QueuesOf ==
  ASSUME ReviewInv, ReviewSerialInv, NEW d \in Disputes,
         NEW g \in DOMAIN queue[d]
  PROVE  /\ Ungated(queue[d][g])
         /\ g > 1 => /\ queue[d][g].phase > queue[d][g - 1].phase
                     /\ queue[d][g].wasReopened
         /\ g = Len(queue[d]) =>
              /\ queue[d][g].wasReopened /\ queue[d][g].dispatched =>
                   SentAt(decisions[d], g, queue[d][g].phase)
              /\ advice[d].confidence = queue[d][g].confidence
              /\ advice[d].action = queue[d][g].action
<1>1. queue[d] # <<>>
  BY DEF ReviewInv, ReviewTypeOK
<1>2. QueueFine(queue[d], cases[d], WasReopened(d), decisions[d], advice[d])
  BY <1>1 DEF ReviewSerialInv, QueuesFine, DisputeFine
<1>3. QED
  BY <1>2 DEF QueueFine

LEMMA LiveIsLast ==
  ASSUME ReviewInv, NEW d \in Disputes
  PROVE  \A g \in LiveGenerations(d) : g \in DOMAIN queue[d]
                                      /\ g = Len(queue[d])
<1>1. queue[d] \in Seq(Entry)
  BY DEF ReviewInv, ReviewTypeOK
<1>2. DOMAIN queue[d] = 1..Len(queue[d]) /\ Len(queue[d]) \in Nat
  BY <1>1
<1>3. \A g \in LiveGenerations(d) :
        g \in DOMAIN queue[d] /\ ~(g < Len(queue[d]))
  BY DEF LiveGenerations, ReviewInv, TablesInv, OneLiveGeneration
<1>4. QED
  BY <1>2, <1>3

(* What waits as a draft has passed every gate and the threshold           *)
(* (routing.py:166-176).                                                   *)
THEOREM DraftsSound == Overlap = FALSE /\ ReviewSpec => []DraftsUngated
<1>1. ReviewInv /\ ReviewSerialInv => DraftsUngated
  BY QueuesOf DEF DraftsUngated, Ungated
<1>2. QED
  BY <1>1, ReviewInvariant, ReviewSerialInvariant, PTL

(* Along the generations of a dispute the phase strictly advances, and     *)
(* only a reopened dispute has a second one (routing.py:213-230).          *)
THEOREM GenerationsOrdered ==
  Overlap = FALSE /\ ReviewSpec => []GenerationsAdvance
<1>1. ReviewInv /\ ReviewSerialInv => GenerationsAdvance
  BY QueuesOf DEF GenerationsAdvance
<1>2. QED
  BY <1>1, ReviewInvariant, ReviewSerialInvariant, PTL

(* A reopened dispute never rests on the submit of an earlier phase,       *)
(* however often it is scored, reopened and submitted in between, and      *)
(* whatever request dies at whatever step (routing.py:21-28, 210-233).     *)
THEOREM ReopenedDecidedAnew ==
  Overlap = FALSE /\ ReviewSpec => []ReopenedDispatchCurrent
<1>1. ReviewInv /\ ReviewSerialInv => ReopenedDispatchCurrent
  BY QueuesOf, LiveIsLast DEF ReopenedDispatchCurrent, DispatchCurrent, SentAt
<1>2. QED
  BY <1>1, ReviewInvariant, ReviewSerialInvariant, PTL

(* A decision changes nothing of the case but its status, and that only    *)
(* from open to under_review (scoring/api.py:141-142).                     *)
THEOREM VerdictsKept ==
  Overlap = FALSE /\ ReviewSpec => ReviewKeepsVerdicts
<1> DEFINE Keeps == \A d \in Disputes :
       decisions'[d] # decisions[d] =>
         \/ cases'[d] = cases[d]
         \/ /\ cases[d].status = "open"
            /\ cases'[d] = [cases[d] EXCEPT !.status = "under_review"]
<1> SUFFICES ASSUME Overlap = FALSE
             PROVE  ReviewSpec => ReviewKeepsVerdicts
  OBVIOUS
<1>1. ASSUME ReviewInv, ReviewSerialInv, NEW r \in Reviewers, CommitReview(r)
      PROVE  Keeps
  <2>1. PICK d \in Disputes, case \in CaseRow, left \in CaseRow, n \in Nat,
             e \in Entry, row \in Decision :
          /\ cases[d] = case
          /\ left = [case EXCEPT !.status =
                       StatusAfter(reviewers[r].decision, case.status)]
          /\ cases' = [cases EXCEPT ![d] = left]
          /\ decisions' = [decisions EXCEPT ![d] = Append(decisions[d], row)]
    BY <1>1, DecisionEffect
  <2>2. \/ left = case
        \/ /\ case.status = "open"
           /\ left = [case EXCEPT !.status = "under_review"]
    BY <2>1 DEF StatusAfter, CaseRow
  <2>3. /\ cases'[d] = left
        /\ \A c \in Disputes : c # d => cases'[c] = cases[c]
    BY <1>1, <2>1 DEF ReviewInv, TypeInv, TypeOK
  <2>4. QED
    BY <2>1, <2>2, <2>3
<1>2. ASSUME decisions' = decisions
      PROVE  Keeps
  BY <1>2
<1>3. ASSUME [ReviewNext]_allVars
      PROVE  \/ decisions' = decisions
             \/ \E r \in Reviewers : CommitReview(r)
  BY <1>3 DEF ReviewNext, ScorerStep, ReviewerStep, StartScoring, FinishInputs,
     LoadActive, RouteFirst, RouteAgain, RouteReopened, CommitRoute,
     RouteConflict, ScoringAbort, OpenReview, LoadEntry, ReviewAbort,
     LoadOutcome, RefuseOutcome, LogOutcome, Assemble, MeasureRisk, Tick,
     Ingest, allVars, reviewVars, tables
<1> HIDE DEF Keeps
<1>4. ReviewInv /\ ReviewSerialInv /\ [ReviewNext]_allVars
        => [Keeps]_<<cases, decisions>>
  BY <1>1, <1>2, <1>3
<1>5. [][Keeps]_<<cases, decisions>> => ReviewKeepsVerdicts
  BY DEF Keeps, ReviewKeepsVerdicts
<1>6. QED
  BY <1>4, <1>5, ReviewInvariant, ReviewSerialInvariant, PTL DEF ReviewSpec

=============================================================================
