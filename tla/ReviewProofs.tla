----------------------------- MODULE ReviewProofs -----------------------------
(***************************************************************************)
(* Theorems about scoring, review and the outcome log, for every set of    *)
(* disputes, events, handlers, scorers and reviewers, however they         *)
(* interleave.                                                             *)
(***************************************************************************)
EXTENDS Review, IngestionProofs, SequenceTheorems

Submitted(d, g) ==
  \E i \in DOMAIN decisions[d] :
    decisions[d][i].generation = g /\ decisions[d][i].decision = "submit"

(* What a scorer has in hand.  The generation it decided on is still       *)
(* there, and what made it leave that generation still stands.             *)
ScorerHolds(s) ==
  s.pc # "idle" =>
    /\ s.dispute \in Disputes
    /\ s.inputs \in ScoreInputs
    /\ s.pc = "routing" /\ s.generation # 0 =>
         /\ s.generation \in DOMAIN queue[s.dispute]
         /\ s.entry \in Entry
         /\ s.reenters => \/ queue[s.dispute][s.generation].dispatched
                          \/ HasOutcome(s.dispute, s.generation)

(* What a reviewer has in hand.  An entry seen dispatched is dispatched,   *)
(* and a dispatch about to be logged has a submit on record.               *)
ReviewerHolds(v) ==
  v.pc # "idle" =>
    /\ v.dispute \in Disputes
    /\ v.decision \in Decisions
    /\ v.case \in CaseRow
    /\ cases[v.dispute] # NoRow
    /\ v.pc # "loaded" => v.generation \in DOMAIN queue[v.dispute]
    /\ v.pc = "deciding" =>
         /\ v.entry \in Entry
         /\ v.entry.dispatched => queue[v.dispute][v.generation].dispatched
    /\ v.pc = "logging" =>
         /\ v.row \in OutcomeRow
         /\ v.row.generation \in DOMAIN queue[v.dispute]
         /\ v.row.dispatched => Submitted(v.dispute, v.row.generation)

WorkersHold ==
  /\ \A w \in Scorers : ScorerHolds(scorers[w])
  /\ \A r \in Reviewers : ReviewerHolds(reviewers[r])

(* A decision is about a generation that exists.                           *)
DecisionsPlaced ==
  \A d \in Disputes : \A i \in DOMAIN decisions[d] :
    decisions[d][i].generation \in DOMAIN queue[d]

TablesInv ==
  DispatchedIffSubmitted /\ OneLiveGeneration /\ OutcomesBacked /\ DecisionsPlaced

ReviewInv ==
  TypeInv /\ ReviewTypeOK /\ WorkersHold /\ TablesInv

-----------------------------------------------------------------------------
(* A scored entry is an entry, and says of dispatch what it was told.      *)
LEMMA ScoredEntryType ==
  ASSUME NEW si \in ScoreInputs, NEW t \in Nat, NEW dispatched \in BOOLEAN,
         NEW superseded \in BOOLEAN
  PROVE  LET e == ScoredEntry(si, t, dispatched, superseded) IN
         /\ e \in Entry
         /\ e.dispatched = dispatched
         /\ e.superseded = superseded
<1>1. Confidence(si) \in Confidences
  <2>1. Completeness(si) \in 0..100 \union {Unmeasured}
    BY NoBundleAssumption DEF Completeness, ScoreInputs, Bundle
  <2>2. RiskFactor(si) \in 0..100
    BY NoBundleAssumption DEF RiskFactor, ScoreInputs
  <2>3. ASSUME NEW c \in 0..100, NEW f \in 0..100
        PROVE  65 * c + 35 * f \in Confidences
    BY DEF Confidences
  <2>4. CASE Completeness(si) = Unmeasured
    BY <2>4 DEF Confidence, Confidences, Unmeasured
  <2>5. CASE Completeness(si) # Unmeasured
    <3>1. Confidence(si) = 65 * Completeness(si) + 35 * RiskFactor(si)
      BY <2>5, Zenon DEF Confidence
    <3>2. Completeness(si) \in 0..100
      BY <2>1, <2>5
    <3>3. QED
      BY <2>2, <2>3, <3>1, <3>2
  <2>6. QED
    BY <2>4, <2>5
<1>2. HardGates(si, t) \in SUBSET GateNames
  BY DEF HardGates
<1>3. /\ \A g, c : QueueFor(g, c) \in Queues
      /\ \A g, c : ActionFor(g, c) \in Actions
  BY DEF QueueFor, ActionFor, Actions, Queues
<1>4. si.phase \in Phases /\ si.wasReopened \in BOOLEAN
  BY DEF ScoreInputs
<1>5. QED
  BY <1>1, <1>2, <1>3, <1>4 DEF ScoredEntry, Entry

(* A merge of three entries is an entry; a column the session left alone   *)
(* keeps the stored value.                                                 *)
LEMMA MergedEntryType ==
  ASSUME NEW was \in Entry, NEW new \in Entry, NEW stored \in Entry
  PROVE  LET m == MergedEntry(was, new, stored) IN
         /\ m \in Entry
         /\ new.dispatched = was.dispatched => m.dispatched = stored.dispatched
         /\ new.superseded = was.superseded => m.superseded = stored.superseded
BY DEF MergedEntry, Column, Entry

-----------------------------------------------------------------------------
(* The active generation is the newest one; 0 before the first.            *)
LEMMA ActiveIsNewest ==
  ASSUME ReviewTypeOK, OneLiveGeneration, NEW d \in Disputes
  PROVE  /\ ActiveGeneration(d) = Len(queue[d])
         /\ Len(queue[d]) \in Nat
         /\ ActiveGeneration(d) # 0 => ActiveGeneration(d) \in DOMAIN queue[d]
<1>1. queue[d] \in Seq(Entry)
  BY DEF ReviewTypeOK
<1>2. DOMAIN queue[d] = 1..Len(queue[d]) /\ Len(queue[d]) \in Nat
  BY <1>1
<1>3. LiveGenerations(d) = {g \in 1..Len(queue[d]) : ~(g < Len(queue[d]))}
  BY <1>2, Zenon DEF LiveGenerations, OneLiveGeneration
<1>4. LiveGenerations(d) = IF Len(queue[d]) = 0 THEN {} ELSE {Len(queue[d])}
  BY <1>2, <1>3
<1>5. CASE Len(queue[d]) = 0
  BY <1>2, <1>4, <1>5 DEF ActiveGeneration
<1>6. CASE Len(queue[d]) # 0
  <2>1. LiveGenerations(d) = {Len(queue[d])}
    BY <1>4, <1>6
  <2>2. ActiveGeneration(d) =
          CHOOSE g \in {Len(queue[d])} : \A l \in {Len(queue[d])} : l <= g
    BY <2>1, Zenon DEF ActiveGeneration
  <2>3. ActiveGeneration(d) = Len(queue[d])
    BY <1>2, <2>2
  <2>4. QED
    BY <1>2, <1>6, <2>3
<1>7. QED
  BY <1>5, <1>6
-----------------------------------------------------------------------------
(* Nothing a worker relies on is ever taken back.                          *)
Kept(d) ==
  /\ \A g \in DOMAIN queue[d] :
       /\ g \in DOMAIN queue'[d]
       /\ queue[d][g].dispatched => queue'[d][g].dispatched
  /\ \A g : HasOutcome(d, g) => HasOutcome(d, g)'
  /\ \A g : Submitted(d, g) => Submitted(d, g)'
  /\ cases[d] # NoRow => cases'[d] # NoRow

TablesGrow == \A d \in Disputes : Kept(d)

LEMMA ScorerKeeps ==
  ASSUME TablesGrow, NEW w \in Scorers, ScorerHolds(scorers[w]),
         scorers'[w] = scorers[w]
  PROVE  ScorerHolds(scorers[w])'
BY DEF TablesGrow, Kept, ScorerHolds

LEMMA ReviewerKeeps ==
  ASSUME TablesGrow, NEW r \in Reviewers, ReviewerHolds(reviewers[r]),
         reviewers'[r] = reviewers[r]
  PROVE  ReviewerHolds(reviewers[r])'
BY DEF TablesGrow, Kept, ReviewerHolds

(* A step of one scorer that leaves it with what the tables bear out.      *)
LEMMA ScorerMovesOn ==
  ASSUME ReviewInv, TablesGrow, NEW w \in Scorers, NEW state \in ScorerState,
         ScorerMoves(w, state), ScorerHolds(scorers[w])'
  PROVE  /\ WorkersHold'
         /\ scorers' \in [Scorers -> ScorerState]
         /\ reviewers' \in [Reviewers -> ReviewerState]
         /\ now' \in 0..MaxNow
<1>1. /\ scorers' = [scorers EXCEPT ![w] = state]
      /\ reviewers' = reviewers /\ now' = now
  BY DEF ScorerMoves
<1>2. /\ scorers \in [Scorers -> ScorerState] /\ now \in 0..MaxNow
      /\ reviewers \in [Reviewers -> ReviewerState]
  BY DEF ReviewInv, ReviewTypeOK
<1>3. \A x \in Scorers : x = w \/ scorers'[x] = scorers[x]
  BY <1>1, <1>2
<1>4. \A x \in Scorers : ScorerHolds(scorers[x])'
  BY <1>3, ScorerKeeps DEF ReviewInv, WorkersHold
<1>5. \A r \in Reviewers : ReviewerHolds(reviewers[r])'
  BY <1>1, ReviewerKeeps DEF ReviewInv, WorkersHold
<1>6. QED
  BY <1>1, <1>2, <1>4, <1>5 DEF WorkersHold

LEMMA ReviewerMovesOn ==
  ASSUME ReviewInv, TablesGrow, NEW r \in Reviewers, NEW state \in ReviewerState,
         ReviewerMoves(r, state), ReviewerHolds(reviewers[r])'
  PROVE  /\ WorkersHold'
         /\ scorers' \in [Scorers -> ScorerState]
         /\ reviewers' \in [Reviewers -> ReviewerState]
         /\ now' \in 0..MaxNow
<1>1. /\ reviewers' = [reviewers EXCEPT ![r] = state]
      /\ scorers' = scorers /\ now' = now
  BY DEF ReviewerMoves
<1>2. /\ scorers \in [Scorers -> ScorerState] /\ now \in 0..MaxNow
      /\ reviewers \in [Reviewers -> ReviewerState]
  BY DEF ReviewInv, ReviewTypeOK
<1>3. \A x \in Reviewers : x = r \/ reviewers'[x] = reviewers[x]
  BY <1>1, <1>2
<1>4. \A x \in Reviewers : ReviewerHolds(reviewers[x])'
  BY <1>3, ReviewerKeeps DEF ReviewInv, WorkersHold
<1>5. \A w \in Scorers : ScorerHolds(scorers[w])'
  BY <1>1, ScorerKeeps DEF ReviewInv, WorkersHold
<1>6. QED
  BY <1>1, <1>2, <1>4, <1>5 DEF WorkersHold

(* The tables unchanged.                                                   *)
LEMMA TablesQuiet ==
  ASSUME TablesInv, UNCHANGED <<queue, decisions, outcomes>>,
         \A d \in Disputes : cases[d] # NoRow => cases'[d] # NoRow
  PROVE  TablesInv' /\ TablesGrow
<1>1. TablesInv'
  BY DEF TablesInv, DispatchedIffSubmitted, OneLiveGeneration, OutcomesBacked,
         DecisionsPlaced, HasOutcome
<1>2. TablesGrow
  BY DEF TablesGrow, Kept, HasOutcome, Submitted
<1>3. QED
  BY <1>1, <1>2

(* The queue of one dispute rewritten by a scorer: no dispatch is made or  *)
(* taken back, and only the last entry is live.                            *)
LEMMA TablesRouted ==
  ASSUME ReviewInv, NEW d \in Disputes, NEW entries \in Seq(Entry),
         queue' = [queue EXCEPT ![d] = entries],
         UNCHANGED <<cases, decisions, outcomes>>,
         Len(queue[d]) <= Len(entries),
         \A g \in 1..Len(queue[d]) :
           entries[g].dispatched <=> queue[d][g].dispatched,
         \A g \in 1..Len(entries) :
           g > Len(queue[d]) => ~entries[g].dispatched,
         \A g \in 1..Len(entries) :
           /\ entries[g].superseded <=> g < Len(entries)
           /\ entries[g].superseded =>
                entries[g].dispatched \/ HasOutcome(d, g)
  PROVE  TablesInv' /\ TablesGrow
<1>1. queue \in [Disputes -> Seq(Entry)]
  BY DEF ReviewInv, ReviewTypeOK
<1>2. /\ queue[d] \in Seq(Entry)
      /\ DOMAIN queue[d] = 1..Len(queue[d]) /\ Len(queue[d]) \in Nat
      /\ DOMAIN entries = 1..Len(entries) /\ Len(entries) \in Nat
  BY <1>1
<1>3. /\ queue'[d] = entries
      /\ \A c \in Disputes : c # d => queue'[c] = queue[c]
  BY <1>1
<1>4. \A c \in Disputes : DOMAIN queue[c] \subseteq DOMAIN queue'[c]
  BY <1>2, <1>3
<1>5. DispatchedIffSubmitted'
  <2>1. ASSUME NEW g \in DOMAIN entries
        PROVE  entries[g].dispatched <=> Submitted(d, g)
    <3>1. CASE g \in DOMAIN queue[d]
      BY <1>2, <3>1
         DEF ReviewInv, TablesInv, DispatchedIffSubmitted, Submitted
    <3>2. CASE g \notin DOMAIN queue[d]
      BY <1>2, <2>1, <3>2 DEF ReviewInv, TablesInv, DecisionsPlaced, Submitted
    <3>3. QED
      BY <3>1, <3>2
  <2>2. QED
    BY <1>3, <2>1
       DEF ReviewInv, TablesInv, DispatchedIffSubmitted, Submitted
<1>6. OneLiveGeneration'
  BY <1>2, <1>3 DEF ReviewInv, TablesInv, OneLiveGeneration, HasOutcome
<1>7. OutcomesBacked' /\ DecisionsPlaced'
  BY <1>4 DEF ReviewInv, TablesInv, OutcomesBacked, DecisionsPlaced
<1>8. TablesGrow
  BY <1>2, <1>3, <1>4 DEF TablesGrow, Kept, HasOutcome, Submitted
<1>9. QED
  BY <1>5, <1>6, <1>7, <1>8 DEF TablesInv

-----------------------------------------------------------------------------
(* Every step of a scorer.                                                 *)
LEMMA ScorerQuiet ==
  ASSUME ReviewInv, NEW w \in Scorers, NEW state \in ScorerState,
         ScorerMoves(w, state), UNCHANGED <<ingestVars, tables>>,
         ScorerHolds(state)
  PROVE  ReviewInv'
<1>1. UNCHANGED <<ingestVars, bundles, profiles, queue, advice, decisions,
                  outcomes>>
  BY DEF tables
<1>2. TypeInv'
  BY <1>1, TypeInvStep DEF ReviewInv
<1>3. TablesInv' /\ TablesGrow
  BY <1>1, TablesQuiet DEF ReviewInv, ingestVars
<1>4. scorers'[w] = state
  BY DEF ScorerMoves, ReviewInv, ReviewTypeOK
<1>5. ScorerHolds(scorers[w])'
  BY <1>1, <1>4 DEF ScorerHolds, HasOutcome
<1>6. ReviewTypeOK' /\ WorkersHold'
  BY <1>1, <1>2, <1>3, <1>5, ScorerMovesOn
     DEF ReviewInv, ReviewTypeOK, TypeInv, ingestVars
<1>7. QED
  BY <1>2, <1>3, <1>6 DEF ReviewInv

LEMMA StartScoringInv ==
  ASSUME ReviewInv, NEW w \in Scorers, NEW d \in Disputes, StartScoring(w, d)
  PROVE  ReviewInv'
<1> DEFINE si == [phase |-> cases[d].phase,
                  respondBy |-> cases[d].respondBy,
                  manual |-> cases[d].category = Manual,
                  wasReopened |-> FALSE,
                  bundle |-> bundles[d],
                  profile |-> NoRow]
           state == [IdleScorer EXCEPT
                       !.pc = "loaded", !.dispute = d, !.at = now,
                       !.inputs = si]
<1>1. cases[d] \in CaseRow
  BY DEF StartScoring, ReviewInv, TypeInv, TypeOK
<1>2. bundles[d] \in Bundle \union {NoRow} /\ now \in 0..MaxNow
  BY DEF ReviewInv, ReviewTypeOK
<1>3. si \in ScoreInputs
  BY <1>1, <1>2 DEF ScoreInputs, CaseRow
<1>4. /\ ScorerMoves(w, state) /\ UNCHANGED <<ingestVars, tables>>
      /\ state = [IdleScorer EXCEPT
                    !.pc = "loaded", !.dispute = d, !.at = now, !.inputs = si]
  BY DEF StartScoring
<1> HIDE DEF si, state
<1>5. state = [pc |-> "loaded", dispute |-> d, at |-> now, inputs |-> si,
               generation |-> 0, entry |-> NoRow, reenters |-> FALSE]
  BY <1>4 DEF IdleScorer
<1>6. state \in ScorerState
  BY <1>2, <1>3, <1>5 DEF ScorerState
<1>7. ScorerHolds(state)
  BY <1>3, <1>5 DEF ScorerHolds
<1>8. QED
  BY <1>4, <1>6, <1>7, ScorerQuiet

LEMMA FinishInputsInv ==
  ASSUME ReviewInv, NEW w \in Scorers, FinishInputs(w)
  PROVE  ReviewInv'
<1> DEFINE s == scorers[w]
           si == [s.inputs EXCEPT !.wasReopened = WasReopened(s.dispute),
                                  !.profile = profiles[s.dispute]]
           state == [s EXCEPT !.pc = "scored", !.inputs = si]
<1>1. s \in ScorerState /\ s.pc = "loaded"
  BY DEF FinishInputs, ReviewInv, ReviewTypeOK
<1>2. s.dispute \in Disputes /\ s.inputs \in ScoreInputs
  BY <1>1 DEF ReviewInv, WorkersHold, ScorerHolds
<1>3. si \in ScoreInputs
  <2>1. profiles[s.dispute] \in 0..100 \union {NoRow}
    BY <1>2 DEF ReviewInv, ReviewTypeOK
  <2>2. WasReopened(s.dispute) \in BOOLEAN
    BY DEF WasReopened
  <2>3. QED
    BY <1>2, <2>1, <2>2 DEF ScoreInputs
<1>4. /\ ScorerMoves(w, state) /\ UNCHANGED <<ingestVars, tables>>
      /\ state = [s EXCEPT !.pc = "scored", !.inputs = si]
  BY DEF FinishInputs
<1> HIDE DEF si, state
<1>5. state = [pc |-> "scored", dispute |-> s.dispute, at |-> s.at,
               inputs |-> si, generation |-> s.generation, entry |-> s.entry,
               reenters |-> s.reenters]
  BY <1>1, <1>4 DEF ScorerState
<1>6. state \in ScorerState
  BY <1>1, <1>3, <1>5 DEF ScorerState
<1>7. ScorerHolds(state)
  BY <1>2, <1>3, <1>5 DEF ScorerHolds
<1>8. QED
  BY <1>4, <1>6, <1>7, ScorerQuiet

LEMMA LoadActiveInv ==
  ASSUME ReviewInv, NEW w \in Scorers, LoadActive(w)
  PROVE  ReviewInv'
<1> DEFINE s == scorers[w]
           g == ActiveGeneration(s.dispute)
           entry == IF g = 0 THEN NoRow ELSE queue[s.dispute][g]
           reenters == g # 0 /\ ReopenedForward(s.inputs, s.dispute, g)
           state == [s EXCEPT !.pc = "routing", !.generation = g,
                              !.entry = entry, !.reenters = reenters]
<1>1. s \in ScorerState /\ s.pc = "scored"
  BY DEF LoadActive, ReviewInv, ReviewTypeOK
<1>2. s.dispute \in Disputes /\ s.inputs \in ScoreInputs
  BY <1>1 DEF ReviewInv, WorkersHold, ScorerHolds
<1>3. g \in Nat /\ (g # 0 => g \in DOMAIN queue[s.dispute])
  BY <1>2, ActiveIsNewest DEF ReviewInv, TablesInv
<1>4. /\ entry \in Entry \union {NoRow}
      /\ g # 0 => entry \in Entry
  <2>1. queue[s.dispute] \in Seq(Entry)
    BY <1>2 DEF ReviewInv, ReviewTypeOK
  <2>2. QED
    BY <1>3, <2>1
<1>5. /\ reenters \in BOOLEAN
      /\ reenters => \/ queue[s.dispute][g].dispatched
                     \/ HasOutcome(s.dispute, g)
  BY DEF ReopenedForward
<1>6. /\ ScorerMoves(w, state) /\ UNCHANGED <<ingestVars, tables>>
      /\ state = [s EXCEPT !.pc = "routing", !.generation = g,
                           !.entry = entry, !.reenters = reenters]
  BY DEF LoadActive
<1> HIDE DEF g, entry, reenters, state
<1>7. state = [pc |-> "routing", dispute |-> s.dispute, at |-> s.at,
               inputs |-> s.inputs, generation |-> g, entry |-> entry,
               reenters |-> reenters]
  BY <1>1, <1>6 DEF ScorerState
<1>8. state \in ScorerState
  BY <1>1, <1>3, <1>4, <1>5, <1>7 DEF ScorerState
<1>9. ScorerHolds(state)
  BY <1>2, <1>3, <1>4, <1>5, <1>7 DEF ScorerHolds
<1>10. QED
  BY <1>6, <1>8, <1>9, ScorerQuiet

(* A routing commit, given what it does to the queue.                      *)
LEMMA CommitRouteInv ==
  ASSUME ReviewInv, NEW w \in Scorers, NEW entries \in Seq(Entry),
         scorers[w].pc = "routing", CommitRoute(w, entries),
         Len(queue[scorers[w].dispute]) <= Len(entries),
         \A g \in 1..Len(queue[scorers[w].dispute]) :
           entries[g].dispatched <=> queue[scorers[w].dispute][g].dispatched,
         \A g \in 1..Len(entries) :
           g > Len(queue[scorers[w].dispute]) => ~entries[g].dispatched,
         \A g \in 1..Len(entries) :
           /\ entries[g].superseded <=> g < Len(entries)
           /\ entries[g].superseded =>
                entries[g].dispatched \/ HasOutcome(scorers[w].dispute, g)
  PROVE  ReviewInv'
<1> DEFINE s == scorers[w]
           d == s.dispute
           scored == ScoredEntry(s.inputs, s.at, FALSE, FALSE)
<1>1. s \in ScorerState /\ d \in Disputes /\ s.inputs \in ScoreInputs
  BY DEF ReviewInv, ReviewTypeOK, WorkersHold, ScorerHolds
<1>2. scored \in Entry
  <2>1. s.at \in Nat
    BY <1>1, ReviewBoundsAssumption DEF ScorerState
  <2>2. QED
    BY <1>1, <2>1, ScoredEntryType, Zenon
<1>3. /\ queue' = [queue EXCEPT ![d] = entries]
      /\ advice' = [advice EXCEPT ![d] = [confidence |-> scored.confidence,
                                          action |-> scored.action]]
      /\ ScorerMoves(w, IdleScorer)
      /\ UNCHANGED <<ingestVars, bundles, profiles, decisions, outcomes>>
  BY DEF CommitRoute
<1>4. TypeInv'
  BY <1>3, TypeInvStep DEF ReviewInv
<1>5. TablesInv' /\ TablesGrow
  <2>1. UNCHANGED <<cases, decisions, outcomes>>
    BY <1>3 DEF ingestVars
  <2> HIDE DEF d, s, scored
  <2>2. QED
    BY <1>1, <1>3, <2>1, TablesRouted DEF d, s
<1>6. IdleScorer \in ScorerState /\ scorers'[w] = IdleScorer
  BY <1>3, ReviewBoundsAssumption
     DEF IdleScorer, ScorerState, ScorerMoves, ReviewInv, ReviewTypeOK
<1>7. ScorerHolds(scorers[w])'
  BY <1>6 DEF ScorerHolds, IdleScorer
<1>8. /\ queue' \in [Disputes -> Seq(Entry)]
      /\ advice' \in [Disputes -> [confidence: Confidences,
                                   action: Actions \union {"none"}]]
  <2>1. scored.confidence \in Confidences /\ scored.action \in Actions
    BY <1>2 DEF Entry
  <2> HIDE DEF scored
  <2>2. QED
    BY <1>1, <1>3, <2>1 DEF ReviewInv, ReviewTypeOK
<1>9. ReviewTypeOK' /\ WorkersHold'
  BY <1>3, <1>4, <1>5, <1>6, <1>7, <1>8, ScorerMovesOn
     DEF ReviewInv, ReviewTypeOK, TypeInv, ingestVars
<1>10. QED
  BY <1>4, <1>5, <1>9 DEF ReviewInv

(* The first entry, a rescored one, and a new generation.                  *)
LEMMA RouteFirstInv ==
  ASSUME ReviewInv, NEW w \in Scorers, RouteFirst(w)
  PROVE  ReviewInv'
<1> DEFINE s == scorers[w]
           new == ScoredEntry(s.inputs, s.at, FALSE, FALSE)
<1>1. /\ s.pc = "routing" /\ queue[s.dispute] = <<>>
      /\ CommitRoute(w, <<new>>)
  BY DEF RouteFirst
<1>2. new \in Entry /\ ~new.dispatched /\ ~new.superseded
  <2>1. s.at \in Nat /\ s.inputs \in ScoreInputs
    BY <1>1, ReviewBoundsAssumption
       DEF ReviewInv, ReviewTypeOK, WorkersHold, ScorerHolds, ScorerState
  <2>2. QED
    BY <2>1, ScoredEntryType, Zenon
<1> HIDE DEF new
<1>3. /\ <<new>> \in Seq(Entry) /\ Len(<<new>>) = 1 /\ <<new>>[1] = new
      /\ Len(queue[s.dispute]) = 0
  BY <1>1, <1>2
<1>4. Len(queue[s.dispute]) <= Len(<<new>>)
  BY <1>3
<1>5. \A g \in 1..Len(queue[s.dispute]) :
        <<new>>[g].dispatched <=> queue[s.dispute][g].dispatched
  BY <1>3
<1>6. \A g \in 1..Len(<<new>>) :
        ~<<new>>[g].dispatched /\ ~<<new>>[g].superseded /\ ~(g < Len(<<new>>))
  BY <1>2, <1>3
<1>7. QED
  BY <1>1, <1>3, <1>4, <1>5, <1>6, CommitRouteInv, Zenon

LEMMA RouteAgainInv ==
  ASSUME ReviewInv, NEW w \in Scorers, RouteAgain(w)
  PROVE  ReviewInv'
<1> DEFINE s == scorers[w]
           d == s.dispute
           g == s.generation
           new == ScoredEntry(s.inputs, s.at, s.entry.dispatched,
                              s.entry.superseded)
           merged == MergedEntry(s.entry, new, queue[d][g])
           entries == [queue[d] EXCEPT ![g] = merged]
<1>1. s.pc = "routing" /\ g # 0 /\ CommitRoute(w, entries)
  BY DEF RouteAgain
<1>2. /\ d \in Disputes /\ g \in DOMAIN queue[d] /\ s.entry \in Entry
      /\ s.inputs \in ScoreInputs /\ s.at \in Nat
  BY <1>1, ReviewBoundsAssumption
     DEF ReviewInv, ReviewTypeOK, WorkersHold, ScorerHolds, ScorerState
<1>3. queue[d] \in Seq(Entry) /\ queue[d][g] \in Entry /\ g \in 1..Len(queue[d])
  BY <1>2 DEF ReviewInv, ReviewTypeOK
<1>4. /\ new \in Entry
      /\ new.dispatched = s.entry.dispatched
      /\ new.superseded = s.entry.superseded
  <2>1. s.entry.dispatched \in BOOLEAN /\ s.entry.superseded \in BOOLEAN
    BY <1>2 DEF Entry
  <2>2. QED
    BY <1>2, <2>1, ScoredEntryType, Zenon
<1> HIDE DEF new
<1>5. /\ merged \in Entry
      /\ merged.dispatched = queue[d][g].dispatched
      /\ merged.superseded = queue[d][g].superseded
  BY <1>2, <1>3, <1>4, MergedEntryType, Zenon
<1> HIDE DEF merged
<1>6. /\ entries \in Seq(Entry) /\ Len(entries) = Len(queue[d])
      /\ entries[g] = merged
      /\ \A i \in 1..Len(queue[d]) : i # g => entries[i] = queue[d][i]
  BY <1>3, <1>5, ExceptSeq
<1> HIDE DEF entries
<1>7. \A i \in 1..Len(queue[d]) :
        /\ entries[i].dispatched = queue[d][i].dispatched
        /\ entries[i].superseded = queue[d][i].superseded
  BY <1>5, <1>6
<1>8. \A i \in 1..Len(queue[d]) :
        /\ queue[d][i].superseded <=> i < Len(queue[d])
        /\ queue[d][i].superseded => queue[d][i].dispatched \/ HasOutcome(d, i)
  BY <1>2, <1>3 DEF ReviewInv, TablesInv, OneLiveGeneration
<1>9. QED
  BY <1>1, <1>3, <1>6, <1>7, <1>8, CommitRouteInv

LEMMA RouteReopenedInv ==
  ASSUME ReviewInv, NEW w \in Scorers, RouteReopened(w)
  PROVE  ReviewInv'
<1> DEFINE s == scorers[w]
           d == s.dispute
           g == s.generation
           new == ScoredEntry(s.inputs, s.at, FALSE, FALSE)
           closed == [queue[d] EXCEPT ![g].superseded = TRUE]
           last == [queue[d][g] EXCEPT !.superseded = TRUE]
           entries == Append(closed, new)
<1>1. /\ s.pc = "routing" /\ g # 0 /\ s.reenters /\ Len(queue[d]) = g
      /\ CommitRoute(w, entries)
  BY DEF RouteReopened
<1>2. /\ d \in Disputes /\ g \in DOMAIN queue[d]
      /\ s.inputs \in ScoreInputs /\ s.at \in Nat
      /\ queue[d][g].dispatched \/ HasOutcome(d, g)
  BY <1>1, ReviewBoundsAssumption
     DEF ReviewInv, ReviewTypeOK, WorkersHold, ScorerHolds, ScorerState
<1>3. /\ queue[d] \in Seq(Entry) /\ queue[d][g] \in Entry
      /\ g \in 1..Len(queue[d]) /\ Len(queue[d]) \in Nat
  BY <1>2 DEF ReviewInv, ReviewTypeOK
<1>4. new \in Entry /\ ~new.dispatched /\ ~new.superseded
  BY <1>2, ScoredEntryType, Zenon
<1>5. closed = [queue[d] EXCEPT ![g] = last]
  OBVIOUS
<1>6. last = [queue[d][g] EXCEPT !.superseded = TRUE]
  OBVIOUS
<1> HIDE DEF new, last, closed
<1>7. /\ last \in Entry /\ last.superseded
      /\ last.dispatched = queue[d][g].dispatched
  BY <1>3, <1>6 DEF Entry
<1>8. /\ closed \in Seq(Entry) /\ Len(closed) = Len(queue[d])
      /\ closed[g] = last
      /\ \A i \in 1..Len(queue[d]) : i # g => closed[i] = queue[d][i]
  BY <1>3, <1>5, <1>7, ExceptSeq
<1>9. /\ entries \in Seq(Entry) /\ Len(entries) = g + 1
      /\ entries[g + 1] = new
      /\ \A i \in 1..g : entries[i] = closed[i]
  BY <1>1, <1>3, <1>4, <1>8, AppendFacts
<1> HIDE DEF entries
<1>10. \A i \in 1..g :
         /\ entries[i].dispatched = queue[d][i].dispatched
         /\ entries[i].superseded
         /\ entries[i].dispatched \/ HasOutcome(d, i)
  <2>1. \A i \in 1..g : i # g =>
          /\ queue[d][i].superseded
          /\ queue[d][i].dispatched \/ HasOutcome(d, i)
    BY <1>1, <1>2, <1>3 DEF ReviewInv, TablesInv, OneLiveGeneration
  <2>2. QED
    BY <1>1, <1>2, <1>7, <1>8, <1>9, <2>1
<1>11. \A i \in 1..Len(entries) :
         /\ i > Len(queue[d]) => ~entries[i].dispatched
         /\ entries[i].superseded <=> i < Len(entries)
         /\ entries[i].superseded => entries[i].dispatched \/ HasOutcome(d, i)
  <2>1. \A i \in 1..Len(entries) : i \in 1..g \/ i = g + 1
    BY <1>3, <1>9
  <2>2. ~(g + 1 < g + 1) /\ \A i \in 1..g : i < g + 1 /\ ~(i > g)
    BY <1>3
  <2>3. QED
    BY <1>1, <1>4, <1>9, <1>10, <2>1, <2>2
<1>12. \A i \in 1..Len(queue[d]) :
         entries[i].dispatched <=> queue[d][i].dispatched
  BY <1>1, <1>10
<1>13. Len(queue[d]) <= Len(entries)
  BY <1>1, <1>3, <1>9
<1>14. QED
  BY <1>1, <1>9, <1>11, <1>12, <1>13, CommitRouteInv, Zenon

LEMMA ScorerStepInv ==
  ASSUME ReviewInv, NEW w \in Scorers, ScorerStep(w)
  PROVE  ReviewInv'
<1>1. ASSUME RouteConflict(w) \/ ScoringAbort(w)
      PROVE  ReviewInv'
  <2>1. IdleScorer \in ScorerState /\ ScorerHolds(IdleScorer)
    BY ReviewBoundsAssumption DEF IdleScorer, ScorerState, ScorerHolds
  <2>2. ScorerMoves(w, IdleScorer) /\ UNCHANGED <<ingestVars, tables>>
    BY <1>1 DEF RouteConflict, ScoringAbort
  <2>3. QED
    BY <2>1, <2>2, ScorerQuiet
<1>2. QED
  BY <1>1, StartScoringInv, FinishInputsInv, LoadActiveInv, RouteFirstInv,
     RouteAgainInv, RouteReopenedInv DEF ScorerStep

-----------------------------------------------------------------------------
(* Every step of a reviewer.                                               *)
LEMMA ReviewerQuiet ==
  ASSUME ReviewInv, NEW r \in Reviewers, NEW state \in ReviewerState,
         ReviewerMoves(r, state), UNCHANGED <<ingestVars, tables>>,
         ReviewerHolds(state)
  PROVE  ReviewInv'
<1>1. UNCHANGED <<ingestVars, bundles, profiles, queue, advice, decisions,
                  outcomes>>
  BY DEF tables
<1>2. TypeInv'
  BY <1>1, TypeInvStep DEF ReviewInv
<1>3. TablesInv' /\ TablesGrow
  BY <1>1, TablesQuiet DEF ReviewInv, ingestVars
<1>4. reviewers'[r] = state
  BY DEF ReviewerMoves, ReviewInv, ReviewTypeOK
<1>5. ReviewerHolds(reviewers[r])'
  BY <1>1, <1>4 DEF ReviewerHolds, Submitted, ingestVars
<1>6. ReviewTypeOK' /\ WorkersHold'
  BY <1>1, <1>2, <1>3, <1>5, ReviewerMovesOn
     DEF ReviewInv, ReviewTypeOK, TypeInv, ingestVars
<1>7. QED
  BY <1>2, <1>3, <1>6 DEF ReviewInv

LEMMA IdleReviewerFacts ==
  IdleReviewer \in ReviewerState /\ ReviewerHolds(IdleReviewer)
BY ReviewBoundsAssumption DEF IdleReviewer, ReviewerState, ReviewerHolds

LEMMA OpenReviewInv ==
  ASSUME ReviewInv, NEW r \in Reviewers, NEW d \in Disputes,
         NEW body \in Requests, OpenReview(r, d, body)
  PROVE  ReviewInv'
<1> DEFINE state == [IdleReviewer EXCEPT
              !.pc = "loaded", !.dispute = d, !.decision = body.decision,
              !.outcome = body.outcome, !.at = now, !.case = cases[d]]
<1>1. cases[d] \in CaseRow /\ cases[d] # NoRow /\ now \in 0..MaxNow
  BY DEF OpenReview, ReviewInv, ReviewTypeOK, TypeInv, TypeOK
<1>2. /\ body.decision \in Decisions
      /\ body.outcome \in Outcomes \union {"none", "unknown"}
  BY RequestsAssumption DEF ReviewRequest
<1>3. /\ ReviewerMoves(r, state) /\ UNCHANGED <<ingestVars, tables>>
      /\ state = [IdleReviewer EXCEPT
              !.pc = "loaded", !.dispute = d, !.decision = body.decision,
              !.outcome = body.outcome, !.at = now, !.case = cases[d]]
  BY DEF OpenReview
<1> HIDE DEF state
<1>4. state = [pc |-> "loaded", dispute |-> d, decision |-> body.decision,
               outcome |-> body.outcome, at |-> now, case |-> cases[d],
               generation |-> 0, entry |-> NoRow, row |-> NoRow]
  BY <1>3 DEF IdleReviewer
<1>5. state \in ReviewerState
  BY <1>1, <1>2, <1>4 DEF ReviewerState
<1>6. ReviewerHolds(state)
  BY <1>1, <1>2, <1>4 DEF ReviewerHolds
<1>7. QED
  BY <1>3, <1>5, <1>6, ReviewerQuiet

LEMMA LoadEntryInv ==
  ASSUME ReviewInv, NEW r \in Reviewers, LoadEntry(r)
  PROVE  ReviewInv'
<1> DEFINE v == reviewers[r]
           g == ActiveGeneration(v.dispute)
           entry == queue[v.dispute][g]
           state == [v EXCEPT !.pc = "deciding", !.generation = g,
                              !.entry = entry]
<1>1. v \in ReviewerState /\ v.pc = "loaded" /\ g # 0
  BY DEF LoadEntry, ReviewInv, ReviewTypeOK
<1>2. /\ v.dispute \in Disputes /\ v.decision \in Decisions
      /\ v.case \in CaseRow /\ cases[v.dispute] # NoRow
  BY <1>1 DEF ReviewInv, WorkersHold, ReviewerHolds
<1>3. g \in Nat /\ g \in DOMAIN queue[v.dispute]
  BY <1>1, <1>2, ActiveIsNewest DEF ReviewInv, TablesInv
<1>4. entry \in Entry
  <2>1. queue[v.dispute] \in Seq(Entry)
    BY <1>2 DEF ReviewInv, ReviewTypeOK
  <2>2. QED
    BY <1>3, <2>1
<1>5. /\ ReviewerMoves(r, state) /\ UNCHANGED <<ingestVars, tables>>
      /\ state = [v EXCEPT !.pc = "deciding", !.generation = g,
                           !.entry = entry]
      /\ entry = queue[v.dispute][g]
  BY DEF LoadEntry
<1> HIDE DEF g, entry, state
<1>6. state = [pc |-> "deciding", dispute |-> v.dispute,
               decision |-> v.decision, outcome |-> v.outcome, at |-> v.at,
               case |-> v.case, generation |-> g, entry |-> entry,
               row |-> v.row]
  BY <1>1, <1>5 DEF ReviewerState
<1>7. state \in ReviewerState
  BY <1>1, <1>3, <1>4, <1>6 DEF ReviewerState
<1>8. ReviewerHolds(state)
  BY <1>2, <1>3, <1>4, <1>5, <1>6 DEF ReviewerHolds
<1>9. QED
  BY <1>5, <1>7, <1>8, ReviewerQuiet

(* The row record_outcome builds claims a dispatch only for a generation   *)
(* that has a submit.                                                      *)
LEMMA LoadOutcomeInv ==
  ASSUME ReviewInv, NEW r \in Reviewers, LoadOutcome(r)
  PROVE  ReviewInv'
<1> DEFINE v == reviewers[r]
           d == v.dispute
           g == ActiveGeneration(d)
<1>1. v \in ReviewerState /\ v.pc = "outcome" /\ v.outcome \in Outcomes
  BY DEF LoadOutcome, ReviewInv, ReviewTypeOK
<1>2. /\ d \in Disputes /\ v.decision \in Decisions
      /\ v.case \in CaseRow /\ cases[d] # NoRow
      /\ v.generation \in DOMAIN queue[d]
  BY <1>1 DEF ReviewInv, WorkersHold, ReviewerHolds
<1>3. queue[d] \in Seq(Entry) /\ decisions[d] \in Seq(Decision)
  BY <1>2 DEF ReviewInv, ReviewTypeOK
<1>4. g # 0 /\ g \in Nat /\ g \in DOMAIN queue[d] /\ queue[d][g] \in Entry
  BY <1>2, <1>3, ActiveIsNewest DEF ReviewInv, TablesInv
<1>5. ASSUME NEW row \in OutcomeRow, row.generation = g,
             row.dispatched => Submitted(d, g),
             ReviewerMoves(r, [v EXCEPT !.pc = "logging", !.row = row])
      PROVE  ReviewInv'
  <2> DEFINE state == [v EXCEPT !.pc = "logging", !.row = row]
  <2>1. /\ ReviewerMoves(r, state) /\ UNCHANGED <<ingestVars, tables>>
        /\ state = [v EXCEPT !.pc = "logging", !.row = row]
    BY <1>5 DEF LoadOutcome
  <2> HIDE DEF state, g
  <2>2. state = [pc |-> "logging", dispute |-> v.dispute,
                 decision |-> v.decision, outcome |-> v.outcome, at |-> v.at,
                 case |-> v.case, generation |-> v.generation,
                 entry |-> v.entry, row |-> row]
    BY <1>1, <2>1 DEF ReviewerState
  <2>3. state \in ReviewerState
    BY <1>1, <2>2 DEF ReviewerState
  <2>4. ReviewerHolds(state)
    BY <1>2, <1>4, <1>5, <2>2 DEF ReviewerHolds
  <2>5. QED
    BY <2>1, <2>3, <2>4, ReviewerQuiet
<1>6. ASSUME NEW i \in LatestDecisions(d, g),
             ReviewerMoves(r, [v EXCEPT !.pc = "logging", !.row =
               [generation |-> g, outcome |-> v.outcome,
                dispatched |-> decisions[d][i].decision = "submit",
                confidence |-> decisions[d][i].confidence]])
      PROVE  ReviewInv'
  <2> DEFINE row == [generation |-> g, outcome |-> v.outcome,
                     dispatched |-> decisions[d][i].decision = "submit",
                     confidence |-> decisions[d][i].confidence]
  <2>1. i \in DOMAIN decisions[d] /\ decisions[d][i].generation = g
    BY <1>6 DEF LatestDecisions
  <2>2. decisions[d][i].confidence \in Confidences
    <3>1. decisions[d][i] \in Decision
      <4>1. ASSUME NEW ds \in Seq(Decision), NEW j \in DOMAIN ds
            PROVE  ds[j] \in Decision
        OBVIOUS
      <4>2. QED
        BY <1>3, <2>1, <4>1
    <3>2. QED
      BY <3>1 DEF Decision
  <2>3. row \in OutcomeRow /\ row.generation = g
    BY <1>1, <1>4, <2>2 DEF OutcomeRow
  <2>4. row.dispatched => Submitted(d, g)
    BY <2>1 DEF Submitted
  <2>5. ReviewerMoves(r, [v EXCEPT !.pc = "logging", !.row = row])
    BY <1>6
  <2> HIDE DEF row
  <2>6. QED
    BY <1>5, <2>3, <2>4, <2>5
<1>7. ASSUME ReviewerMoves(r, [v EXCEPT !.pc = "logging", !.row =
               [generation |-> g, outcome |-> v.outcome,
                dispatched |-> g # 0 /\ queue[d][g].dispatched,
                confidence |-> IF g = 0 THEN Unmeasured
                                        ELSE queue[d][g].confidence]])
      PROVE  ReviewInv'
  <2> DEFINE row == [generation |-> g, outcome |-> v.outcome,
                     dispatched |-> g # 0 /\ queue[d][g].dispatched,
                     confidence |-> IF g = 0 THEN Unmeasured
                                             ELSE queue[d][g].confidence]
             confidence == IF g = 0 THEN Unmeasured ELSE queue[d][g].confidence
  <2>1. confidence \in Confidences
    BY <1>4 DEF Entry
  <2>2. row \in OutcomeRow /\ row.generation = g
    <3> HIDE DEF g
    <3>1. QED
      BY <1>1, <1>4, <2>1 DEF OutcomeRow
  <2>3. row.dispatched => Submitted(d, g)
    <3>1. queue[d][g].dispatched => Submitted(d, g)
      BY <1>2, <1>4, Zenon
         DEF ReviewInv, TablesInv, DispatchedIffSubmitted, Submitted
    <3> HIDE DEF g
    <3>2. QED
      BY <3>1
  <2>4. ReviewerMoves(r, [v EXCEPT !.pc = "logging", !.row = row])
    BY <1>7
  <2> HIDE DEF row
  <2>5. QED
    BY <1>5, <2>2, <2>3, <2>4
<1>8. (IF g = 0 THEN 1 ELSE g) = g
  BY <1>4
<1>9. QED
  BY <1>6, <1>7, <1>8 DEF LoadOutcome

(* The gate's commit, seen from the tables: one decision appended, and the *)
(* entry it is about dispatched exactly when it was, or is submitted now.  *)
LEMMA TablesDecided ==
  ASSUME ReviewInv, NEW d \in Disputes, NEW g \in DOMAIN queue[d],
         NEW entry \in Entry, NEW row \in Decision, row.generation = g,
         entry.dispatched <=>
           queue[d][g].dispatched \/ row.decision = "submit",
         entry.superseded = queue[d][g].superseded,
         queue' = [queue EXCEPT ![d] = [queue[d] EXCEPT ![g] = entry]],
         decisions' = [decisions EXCEPT ![d] = Append(decisions[d], row)],
         outcomes' = outcomes,
         \A c \in Disputes : cases[c] # NoRow => cases'[c] # NoRow
  PROVE  /\ TablesInv' /\ TablesGrow
         /\ queue' \in [Disputes -> Seq(Entry)]
         /\ decisions' \in [Disputes -> Seq(Decision)]
<1> DEFINE entries == [queue[d] EXCEPT ![g] = entry]
<1>1. /\ queue \in [Disputes -> Seq(Entry)]
      /\ decisions \in [Disputes -> Seq(Decision)]
  BY DEF ReviewInv, ReviewTypeOK
<1>2. g \in 1..Len(queue[d]) /\ DOMAIN queue[d] = 1..Len(queue[d])
  BY <1>1
<1>3. /\ entries \in Seq(Entry) /\ Len(entries) = Len(queue[d])
      /\ entries[g] = entry
      /\ \A i \in 1..Len(queue[d]) : i # g => entries[i] = queue[d][i]
  BY <1>1, <1>2, ExceptSeq
<1>4. queue' = [queue EXCEPT ![d] = entries]
  OBVIOUS
<1> HIDE DEF entries
<1>5. /\ queue'[d] = entries
      /\ DOMAIN entries = DOMAIN queue[d]
      /\ \A c \in Disputes : c # d => queue'[c] = queue[c]
  BY <1>1, <1>2, <1>3, <1>4
<1> DEFINE made == Append(decisions[d], row)
<1>7. /\ made \in Seq(Decision)
      /\ DOMAIN made = 1..(Len(decisions[d]) + 1)
      /\ DOMAIN decisions[d] = 1..Len(decisions[d])
      /\ Len(decisions[d]) \in Nat
      /\ \A i \in DOMAIN decisions[d] : made[i] = decisions[d][i]
      /\ made[Len(decisions[d]) + 1] = row
  BY <1>1, AppendFacts
<1>8. decisions' = [decisions EXCEPT ![d] = made]
  OBVIOUS
<1> HIDE DEF made
<1>9. /\ decisions'[d] = made
      /\ \A c \in Disputes : c # d => decisions'[c] = decisions[c]
      /\ \A i \in DOMAIN made :
           \/ i \in DOMAIN decisions[d] /\ made[i] = decisions[d][i]
           \/ made[i] = row
      /\ \A i \in DOMAIN decisions[d] :
           i \in DOMAIN made /\ made[i] = decisions[d][i]
      /\ \E i \in DOMAIN made : made[i] = row
  <2>1. /\ decisions'[d] = made
        /\ \A c \in Disputes : c # d => decisions'[c] = decisions[c]
    BY <1>1, <1>8
  <2>2. \A i \in DOMAIN made :
          i \in DOMAIN decisions[d] \/ i = Len(decisions[d]) + 1
    BY <1>7
  <2>3. \A i \in DOMAIN decisions[d] : i \in DOMAIN made
    BY <1>7
  <2>4. \E i \in DOMAIN made : made[i] = row
    <3>1. Len(decisions[d]) + 1 \in DOMAIN made
      BY <1>7
    <3>2. QED
      BY <1>7, <3>1
  <2>5. QED
    BY <1>7, <2>1, <2>2, <2>3, <2>4, Zenon
<1>10. \A c \in Disputes : \A x :
         Submitted(c, x)' <=> \/ Submitted(c, x)
                              \/ c = d /\ x = g /\ row.decision = "submit"
  <2>1. ASSUME NEW c \in Disputes, NEW x, c # d
        PROVE  Submitted(c, x)' <=> Submitted(c, x)
    BY <1>9, <2>1 DEF Submitted
  <2>2. ASSUME NEW x
        PROVE  Submitted(d, x)' <=> \/ Submitted(d, x)
                                    \/ x = g /\ row.decision = "submit"
    BY <1>9 DEF Submitted
  <2>3. QED
    BY <2>1, <2>2
<1>11. DispatchedIffSubmitted'
  <2>1. \A c \in Disputes : \A x \in DOMAIN queue[c] :
          queue[c][x].dispatched <=> Submitted(c, x)
    BY DEF ReviewInv, TablesInv, DispatchedIffSubmitted, Submitted
  <2>2. \A c \in Disputes : \A x \in DOMAIN queue'[c] :
          queue'[c][x].dispatched <=> Submitted(c, x)'
    <3>1. ASSUME NEW c \in Disputes, NEW x \in DOMAIN queue'[c], c # d
          PROVE  queue'[c][x].dispatched <=> Submitted(c, x)'
      BY <1>5, <1>10, <2>1, <3>1
    <3>2. ASSUME NEW x \in DOMAIN queue[d], x # g
          PROVE  queue'[d][x].dispatched <=> Submitted(d, x)'
      BY <1>2, <1>3, <1>5, <1>10, <2>1, <3>2
    <3>3. queue'[d][g].dispatched <=> Submitted(d, g)'
      BY <1>3, <1>5, <1>10, <2>1
    <3>4. QED
      BY <1>5, <3>1, <3>2, <3>3
  <2>3. QED
    BY <2>2 DEF DispatchedIffSubmitted, Submitted
<1>12. OneLiveGeneration'
  <2>1. \A i \in DOMAIN queue[d] :
          /\ entries[i].superseded = queue[d][i].superseded
          /\ queue[d][i].dispatched => entries[i].dispatched
    BY <1>2, <1>3
  <2>2. QED
    BY <1>3, <1>5, <2>1 DEF ReviewInv, TablesInv, OneLiveGeneration, HasOutcome
<1>13. DecisionsPlaced'
  BY <1>5, <1>9 DEF ReviewInv, TablesInv, DecisionsPlaced
<1>14. OutcomesBacked'
  <2>1. \A c \in Disputes : DOMAIN queue'[c] = DOMAIN queue[c]
    BY <1>5
  <2>2. \A c \in Disputes : \A x : Submitted(c, x) => Submitted(c, x)'
    BY <1>10
  <2>3. QED
    BY <2>1, <2>2 DEF ReviewInv, TablesInv, OutcomesBacked, Submitted
<1>15. TablesGrow
  <2>1. \A c \in Disputes : \A x : HasOutcome(c, x) => HasOutcome(c, x)'
    BY DEF HasOutcome
  <2>2. \A c \in Disputes : \A x \in DOMAIN queue[c] :
          /\ x \in DOMAIN queue'[c]
          /\ queue[c][x].dispatched => queue'[c][x].dispatched
    BY <1>2, <1>3, <1>5
  <2>3. QED
    BY <1>10, <2>1, <2>2 DEF TablesGrow, Kept
<1>16. QED
  BY <1>1, <1>3, <1>4, <1>7, <1>8, <1>11, <1>12, <1>13, <1>14, <1>15 DEF TablesInv

LEMMA CommitReviewInv ==
  ASSUME ReviewInv, NEW r \in Reviewers, CommitReview(r)
  PROVE  ReviewInv'
<1> DEFINE v == reviewers[r]
           d == v.dispute
           g == v.generation
           sent == Column(v.entry.dispatched,
                          v.entry.dispatched \/ v.decision = "submit",
                          queue[d][g].dispatched)
           entry == [queue[d][g] EXCEPT !.dispatched = sent]
           row == [generation |-> g, decision |-> v.decision,
                   decidedAt |-> v.at, phase |-> v.case.phase,
                   confidence |-> v.entry.confidence,
                   queue |-> v.entry.queue]
           left == Column(v.case.status, StatusAfter(v.decision, v.case.status),
                          cases[d].status)
           state == IF v.outcome = "none" THEN IdleReviewer
                    ELSE [v EXCEPT !.pc = "outcome"]
<1>1. v \in ReviewerState /\ v.pc = "deciding"
  BY DEF CommitReview, ReviewInv, ReviewTypeOK
<1>2. /\ d \in Disputes /\ v.decision \in Decisions /\ v.case \in CaseRow
      /\ cases[d] \in CaseRow /\ g \in DOMAIN queue[d] /\ v.entry \in Entry
      /\ v.entry.dispatched => queue[d][g].dispatched
  BY <1>1
     DEF ReviewInv, WorkersHold, ReviewerHolds, TypeInv, TypeOK
<1>3. queue[d] \in Seq(Entry) /\ queue[d][g] \in Entry
  BY <1>2 DEF ReviewInv, ReviewTypeOK
<1>4. /\ queue' = [queue EXCEPT ![d] = [queue[d] EXCEPT ![g] = entry]]
      /\ decisions' = [decisions EXCEPT ![d] = Append(decisions[d], row)]
      /\ cases' = [cases EXCEPT ![d] = [cases[d] EXCEPT !.status = left]]
      /\ ReviewerMoves(r, state)
      /\ UNCHANGED <<history, handlers, acked, bundles, profiles, advice,
                     outcomes>>
  BY DEF CommitReview
<1>5. sent \in BOOLEAN
  BY <1>2, <1>3 DEF Column, Entry
<1>6. sent <=> queue[d][g].dispatched \/ row.decision = "submit"
  BY <1>2, <1>3 DEF Column, Entry
<1>7. entry = [queue[d][g] EXCEPT !.dispatched = sent]
  OBVIOUS
<1>8. row \in Decision /\ row.generation = g
  BY <1>1, <1>2, <1>3, ReviewBoundsAssumption
     DEF Decision, ReviewerState, Entry, CaseRow
<1>9. left \in Statuses
  BY <1>2 DEF Column, StatusAfter, CaseRow, Statuses, Unresolved
<1> HIDE DEF sent, entry, row, left
<1>10. /\ entry \in Entry
       /\ entry.superseded = queue[d][g].superseded
       /\ entry.dispatched = sent
  BY <1>3, <1>5, <1>7 DEF Entry
<1>11. /\ cases' \in [Disputes -> CaseRow \union {NoRow}]
       /\ \A c \in Disputes : cases[c] # NoRow => cases'[c] # NoRow
  <2> DEFINE case == [cases[d] EXCEPT !.status = left]
  <2>1. case \in CaseRow
    BY <1>2, <1>9 DEF CaseRow
  <2>2. cases' = [cases EXCEPT ![d] = case]
    BY <1>4
  <2>3. cases \in [Disputes -> CaseRow \union {NoRow}]
    BY DEF ReviewInv, TypeInv, TypeOK
  <2> HIDE DEF case
  <2>4. QED
    BY <1>2, <2>1, <2>2, <2>3, NoRowAssumption
<1>12. TypeInv'
  <2>1. TypeOK'
    BY <1>4, <1>11 DEF ReviewInv, TypeInv, TypeOK
  <2>2. \A h \in Handlers : handlers[h].pc # "idle" =>
          handlers[h].event.dispute \in Disputes
    BY EventsAssumption DEF ReviewInv, TypeInv, HandlersHold, EventFields
  <2>3. HandlersHold'
    BY <1>4, <1>11, <2>2 DEF ReviewInv, TypeInv, HandlersHold
  <2>4. QED
    BY <2>1, <2>3 DEF TypeInv
<1>13. /\ TablesInv' /\ TablesGrow
       /\ queue' \in [Disputes -> Seq(Entry)]
       /\ decisions' \in [Disputes -> Seq(Decision)]
  BY <1>2, <1>4, <1>6, <1>8, <1>10, <1>11, TablesDecided
<1>14. state \in ReviewerState
  <2>1. CASE v.outcome # "none"
    <3>1. state = [v EXCEPT !.pc = "outcome"]
      BY <2>1
    <3> HIDE DEF state
    <3>2. QED
      BY <1>1, <3>1 DEF ReviewerState
  <2>2. QED
    BY <2>1, IdleReviewerFacts
<1>15. ReviewerHolds(reviewers[r])'
  <2>1. reviewers'[r] = state
    <3> HIDE DEF state
    <3>1. QED
      BY <1>4 DEF ReviewerMoves, ReviewInv, ReviewTypeOK
  <2>2. CASE v.outcome = "none"
    BY <2>1, <2>2 DEF ReviewerHolds, IdleReviewer
  <2>3. CASE v.outcome # "none"
    <3>1. state = [v EXCEPT !.pc = "outcome"]
      BY <2>3
    <3> HIDE DEF state
    <3>2. /\ state.pc = "outcome" /\ state.dispute = d
          /\ state.decision = v.decision /\ state.case = v.case
          /\ state.generation = g
      BY <1>1, <3>1 DEF ReviewerState
    <3>3. g \in DOMAIN queue'[d] /\ cases'[d] # NoRow
      BY <1>2, <1>11, <1>13, NoRowAssumption DEF TablesGrow, Kept
    <3>4. QED
      BY <1>2, <2>1, <3>2, <3>3 DEF ReviewerHolds
  <2>4. QED
    BY <2>2, <2>3
<1>16. ReviewTypeOK' /\ WorkersHold'
  <2> HIDE DEF state
  <2>1. QED
    BY <1>4, <1>12, <1>13, <1>14, <1>15, ReviewerMovesOn
       DEF ReviewInv, ReviewTypeOK, TypeInv
<1>17. QED
  BY <1>12, <1>13, <1>16 DEF ReviewInv

(* The appended row claims a dispatch only where there is a submit.        *)
LEMMA LogOutcomeInv ==
  ASSUME ReviewInv, NEW r \in Reviewers, LogOutcome(r)
  PROVE  ReviewInv'
<1> DEFINE v == reviewers[r]
           d == v.dispute
           logged == Append(outcomes[d], v.row)
<1>1. v \in ReviewerState /\ v.pc = "logging"
  BY DEF LogOutcome, ReviewInv, ReviewTypeOK
<1>2. /\ d \in Disputes /\ v.row \in OutcomeRow
      /\ v.row.generation \in DOMAIN queue[d]
      /\ v.row.dispatched => Submitted(d, v.row.generation)
  BY <1>1 DEF ReviewInv, WorkersHold, ReviewerHolds
<1>3. /\ outcomes' = [outcomes EXCEPT ![d] = logged]
      /\ ReviewerMoves(r, IdleReviewer)
      /\ UNCHANGED <<ingestVars, bundles, profiles, queue, advice, decisions>>
  BY DEF LogOutcome
<1>4. outcomes \in [Disputes -> Seq(OutcomeRow)]
  BY DEF ReviewInv, ReviewTypeOK
<1>5. /\ logged \in Seq(OutcomeRow)
      /\ DOMAIN logged = 1..(Len(outcomes[d]) + 1)
      /\ DOMAIN outcomes[d] = 1..Len(outcomes[d])
      /\ Len(outcomes[d]) \in Nat
      /\ \A i \in DOMAIN outcomes[d] : logged[i] = outcomes[d][i]
      /\ logged[Len(outcomes[d]) + 1] = v.row
  BY <1>2, <1>4, AppendFacts
<1> HIDE DEF logged
<1>6. /\ outcomes'[d] = logged
      /\ \A c \in Disputes : c # d => outcomes'[c] = outcomes[c]
      /\ outcomes' \in [Disputes -> Seq(OutcomeRow)]
  BY <1>2, <1>3, <1>4, <1>5
<1>7. \A i \in DOMAIN logged :
        \/ i \in DOMAIN outcomes[d] /\ logged[i] = outcomes[d][i]
        \/ logged[i] = v.row
  <2>1. \A i \in DOMAIN logged :
          i \in DOMAIN outcomes[d] \/ i = Len(outcomes[d]) + 1
    BY <1>5
  <2>2. QED
    BY <1>5, <2>1, Zenon
<1>8. \A c \in Disputes : \A g : HasOutcome(c, g) => HasOutcome(c, g)'
  <2>1. \A i \in DOMAIN outcomes[d] :
          i \in DOMAIN logged /\ logged[i] = outcomes[d][i]
    BY <1>5
  <2>2. QED
    BY <1>6, <2>1 DEF HasOutcome
<1>9. \A c \in Disputes : \A g : Submitted(c, g) => Submitted(c, g)'
  BY <1>3 DEF Submitted
<1>10. DispatchedIffSubmitted' /\ DecisionsPlaced'
  BY <1>3 DEF ReviewInv, TablesInv, DispatchedIffSubmitted, DecisionsPlaced
<1>11. OneLiveGeneration'
  BY <1>3, <1>8 DEF ReviewInv, TablesInv, OneLiveGeneration
<1>12. OutcomesBacked'
  <2>1. \A c \in Disputes : \A i \in DOMAIN outcomes[c] :
          /\ outcomes[c][i].generation \in DOMAIN queue[c]
          /\ outcomes[c][i].dispatched => Submitted(c, outcomes[c][i].generation)
    BY DEF ReviewInv, TablesInv, OutcomesBacked, Submitted
  <2>2. \A c \in Disputes : \A i \in DOMAIN outcomes'[c] :
          /\ outcomes'[c][i].generation \in DOMAIN queue[c]
          /\ outcomes'[c][i].dispatched =>
               Submitted(c, outcomes'[c][i].generation)
    BY <1>2, <1>6, <1>7, <2>1
  <2>3. QED
    BY <1>3, <2>2 DEF OutcomesBacked, Submitted
<1>13. TablesGrow
  BY <1>3, <1>8, <1>9 DEF TablesGrow, Kept, ingestVars
<1>14. reviewers'[r] = IdleReviewer
  BY <1>3 DEF ReviewerMoves, ReviewInv, ReviewTypeOK
<1>15. ReviewerHolds(reviewers[r])'
  BY <1>14 DEF ReviewerHolds, IdleReviewer
<1>16. TypeInv'
  BY <1>3, TypeInvStep DEF ReviewInv
<1>17. ReviewTypeOK' /\ WorkersHold'
  BY <1>3, <1>6, <1>13, <1>15, <1>16, IdleReviewerFacts, ReviewerMovesOn
     DEF ReviewInv, ReviewTypeOK, TypeInv
<1>18. QED
  BY <1>10, <1>11, <1>12, <1>16, <1>17 DEF ReviewInv, TablesInv

LEMMA ReviewerStepInv ==
  ASSUME ReviewInv, NEW r \in Reviewers, ReviewerStep(r)
  PROVE  ReviewInv'
<1>1. ASSUME RefuseOutcome(r) \/ ReviewAbort(r)
      PROVE  ReviewInv'
  <2>1. ReviewerMoves(r, IdleReviewer) /\ UNCHANGED <<ingestVars, tables>>
    BY <1>1 DEF RefuseOutcome, ReviewAbort
  <2>2. QED
    BY <2>1, IdleReviewerFacts, ReviewerQuiet
<1>2. QED
  BY <1>1, OpenReviewInv, LoadEntryInv, CommitReviewInv, LoadOutcomeInv,
     LogOutcomeInv DEF ReviewerStep

-----------------------------------------------------------------------------
(* The steps of everyone else leave the three tables alone.                *)
LEMMA OtherStepInv ==
  ASSUME ReviewInv, [Next]_ingestVars,
         UNCHANGED <<queue, advice, decisions, outcomes, scorers, reviewers>>,
         bundles' \in [Disputes -> Bundle \union {NoRow}],
         profiles' \in [Disputes -> 0..100 \union {NoRow}],
         now' \in 0..MaxNow
  PROVE  ReviewInv'
<1>1. TypeInv'
  BY TypeInvStep DEF ReviewInv
<1>2. \A d \in Disputes : cases[d] # NoRow => cases'[d] # NoRow
  BY TrailStep, NoRowAssumption DEF ReviewInv
<1>3. TablesInv' /\ TablesGrow
  BY <1>2, TablesQuiet DEF ReviewInv
<1>4. WorkersHold'
  BY <1>3, ScorerKeeps, ReviewerKeeps DEF ReviewInv, WorkersHold
<1>5. ReviewTypeOK'
  BY <1>1 DEF ReviewInv, ReviewTypeOK, TypeInv
<1>6. QED
  BY <1>1, <1>3, <1>4, <1>5 DEF ReviewInv

LEMMA ReviewInvStep ==
  ASSUME ReviewInv, [ReviewNext]_allVars
  PROVE  ReviewInv'
<1>1. /\ bundles \in [Disputes -> Bundle \union {NoRow}]
      /\ profiles \in [Disputes -> 0..100 \union {NoRow}]
      /\ now \in 0..MaxNow
  BY DEF ReviewInv, ReviewTypeOK
<1>2. CASE Ingest
  BY <1>1, <1>2, OtherStepInv DEF Ingest, reviewVars, tables
<1>3. ASSUME NEW d \in Disputes, Assemble(d)
      PROVE  ReviewInv'
  <2>1. bundles' \in [Disputes -> Bundle \union {NoRow}]
    BY <1>1, <1>3, BundlesAssumption DEF Assemble
  <2>2. QED
    BY <1>1, <1>3, <2>1, OtherStepInv DEF Assemble
<1>4. ASSUME NEW d \in Disputes, MeasureRisk(d)
      PROVE  ReviewInv'
  <2>1. profiles' \in [Disputes -> 0..100 \union {NoRow}]
    BY <1>1, <1>4, RiskAssumption DEF MeasureRisk
  <2>2. QED
    BY <1>1, <1>4, <2>1, OtherStepInv DEF MeasureRisk
<1>5. CASE Tick
  <2>1. now' \in 0..MaxNow
    BY <1>1, <1>5, ReviewBoundsAssumption DEF Tick
  <2>2. QED
    BY <1>1, <1>5, <2>1, OtherStepInv DEF Tick, tables
<1>6. CASE UNCHANGED allVars
  BY <1>1, <1>6, OtherStepInv DEF allVars, reviewVars, tables
<1>7. QED
  BY <1>2, <1>3, <1>4, <1>5, <1>6, ScorerStepInv, ReviewerStepInv
     DEF ReviewNext

LEMMA ReviewInvInit ==
  ASSUME ReviewInit
  PROVE  ReviewInv
<1>1. TypeInv
  BY NoRowAssumption
     DEF ReviewInit, Init, TypeInv, TypeOK, HandlersHold, Idle, HandlerState
<1>2. IdleScorer \in ScorerState /\ IdleReviewer \in ReviewerState
  BY ReviewBoundsAssumption, IdleReviewerFacts DEF IdleScorer, ScorerState
<1>3. ReviewTypeOK
  <2>1. /\ queue \in [Disputes -> Seq(Entry)]
        /\ decisions \in [Disputes -> Seq(Decision)]
        /\ outcomes \in [Disputes -> Seq(OutcomeRow)]
    BY DEF ReviewInit
  <2>2. advice \in [Disputes ->
          [confidence: Confidences, action: Actions \union {"none"}]]
    BY DEF ReviewInit, Confidences, Unmeasured
  <2>3. QED
    BY <1>1, <1>2, <2>1, <2>2, ReviewBoundsAssumption
       DEF ReviewInit, ReviewTypeOK, TypeInv
<1>4. WorkersHold
  BY DEF ReviewInit, WorkersHold, ScorerHolds, ReviewerHolds, IdleScorer,
         IdleReviewer
<1>5. TablesInv
  BY DEF ReviewInit, TablesInv, DispatchedIffSubmitted, OneLiveGeneration,
         OutcomesBacked, DecisionsPlaced
<1>6. QED
  BY <1>1, <1>3, <1>4, <1>5 DEF ReviewInv

LEMMA ReviewInvariant == ReviewSpec => []ReviewInv
BY ReviewInvInit, ReviewInvStep, PTL DEF ReviewSpec

(* Every reachable state of the review tables and of the requests that     *)
(* work on them is well typed (src/scoring/models.py).                     *)
THEOREM ReviewTypeCorrect == ReviewSpec => []ReviewTypeOK
BY ReviewInvariant, PTL DEF ReviewInv

(* No dispatch without a human's submit of that very generation, and no    *)
(* submit lost, whatever scorers and reviewers write over each other       *)
(* (scoring/api.py:133-148, routing.py:254).                               *)
THEOREM DispatchSound == ReviewSpec => []DispatchedIffSubmitted
BY ReviewInvariant, PTL DEF ReviewInv, TablesInv

(* Only the newest generation of a dispute is live, and each before it was *)
(* closed by a dispatch or an outcome (routing.py:210-233).                *)
THEOREM OneLive == ReviewSpec => []OneLiveGeneration
BY ReviewInvariant, PTL DEF ReviewInv, TablesInv

(* The outcome log never claims a dispatch that no human made              *)
(* (outcome.py:114-137).                                                   *)
THEOREM OutcomesSound == ReviewSpec => []OutcomesBacked
BY ReviewInvariant, PTL DEF ReviewInv, TablesInv

=============================================================================
