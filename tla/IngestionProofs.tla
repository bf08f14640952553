--------------------------- MODULE IngestionProofs ---------------------------
(***************************************************************************)
(* Theorems about the ingestion router, for every set of disputes, events  *)
(* and handlers.                                                           *)
(***************************************************************************)
EXTENDS Ingestion, FiniteSetTheorems, TLAPS

(* What a handler has in hand: a busy one holds an event of the sender;    *)
(* one that has loaded the trail holds a case row; and a row, once loaded, *)
(* is never deleted.                                                       *)
HandlersHold ==
  \A h \in Handlers : handlers[h].pc # "idle" =>
    /\ handlers[h].event \in Events
    /\ handlers[h].pc = "ready" => handlers[h].row \in CaseRow
    /\ handlers[h].row # NoRow => cases[handlers[h].event.dispute] # NoRow

TypeInv == TypeOK /\ HandlersHold

-----------------------------------------------------------------------------
(* The rows that the decisions build are rows of their tables.             *)
LEMMA NewCaseType ==
  ASSUME NEW e \in EventFields
  PROVE  NewCase(e) \in CaseRow
BY DEF NewCase, CaseRow, EventFields, Classify, Categories, KnownCategories

LEMMA HistoryRowType ==
  ASSUME NEW e \in EventFields, NEW t \in Transitions, NEW r \in BOOLEAN,
         NEW p \in Statuses \union {"none"}
  PROVE  NewHistoryRow(e, t, r, p) \in HistoryRow
BY DEF NewHistoryRow, HistoryRow, EventFields

LEMMA UpdatedRowTypes ==
  ASSUME NEW e \in EventFields, NEW row \in CaseRow
  PROVE  /\ AdvancedRow(e, row) \in CaseRow
         /\ StaleRow(row) \in CaseRow
         /\ AmendedRow(e, row) \in CaseRow
<1>1. AdvancedRow(e, row) \in CaseRow
  BY DEF AdvancedRow, CaseRow, EventFields, Classify, Categories,
         KnownCategories
<1>2. StaleRow(row) \in CaseRow
  BY DEF StaleRow, CaseRow
<1>3. AmendedRow(e, row) \in CaseRow
  BY DEF AmendedRow, CaseRow, EventFields
<1>4. QED
  BY <1>1, <1>2, <1>3

(* A merge of three rows is a row, column by column.                       *)
LEMMA MergedRowType ==
  ASSUME NEW was \in CaseRow, NEW new \in CaseRow, NEW now \in CaseRow
  PROVE  MergedRow(was, new, now) \in CaseRow
BY DEF MergedRow, Column, CaseRow

-----------------------------------------------------------------------------
(* The three things one step can do to the tables: nothing, a first        *)
(* contact, or an update committed by a handler that is ready.             *)
Quiet == UNCHANGED <<cases, history>>

Updates(h, newRow, t, r) ==
  /\ handlers[h].pc = "ready"
  /\ ~Redelivery(handlers[h].event, handlers[h].row, handlers[h].trail)
  /\ CommitUpdate(h, newRow,
       NewHistoryRow(handlers[h].event, t, r, handlers[h].row.status))

(* A handler leaves the tables alone, or is one of the updates of          *)
(* ingest_dispute_event with the row that update writes.                   *)
UpdateKinds(h) ==
  LET e == handlers[h].event
      row == handlers[h].row IN
  \/ /\ Advances(e, row)
     /\ Updates(h, AdvancedRow(e, row), "phase_advance", IsReopen(row))
  \/ /\ ~Advances(e, row)
     /\ Updates(h, StaleRow(row), "out_of_order", FALSE)
  \/ /\ e.phase = row.phase
     /\ Updates(h, AmendedRow(e, row), "status_change", FALSE)

LEMMA StepKinds ==
  ASSUME [Next]_ingestVars
  PROVE  \/ Quiet
         \/ \E h \in Handlers : Create(h)
         \/ \E h \in Handlers : UpdateKinds(h)
<1>1. CASE UNCHANGED ingestVars
  BY <1>1 DEF ingestVars, Quiet
<1>2. ASSUME NEW h \in Handlers,
             \/ \E e \in Events : Receive(h, e)
             \/ CreateConflict(h) \/ LoadHistory(h) \/ Noop(h) \/ Abort(h)
      PROVE  Quiet
  BY <1>2 DEF Receive, CreateConflict, LoadHistory, Noop, Abort, Quiet
<1>3. ASSUME NEW h \in Handlers, Advance(h) \/ RecordStale(h) \/ Amend(h)
      PROVE  UpdateKinds(h)
  BY <1>3 DEF Advance, RecordStale, Amend, UpdateKinds, Updates
<1>4. QED
  BY <1>1, <1>2, <1>3 DEF Next, HandlerStep

(* The rows an update builds are rows of their tables.                     *)
LEMMA UpdateTypes ==
  ASSUME TypeInv, NEW h \in Handlers, UpdateKinds(h)
  PROVE  /\ handlers[h].event \in EventFields
         /\ handlers[h].row \in CaseRow
         /\ cases[handlers[h].event.dispute] \in CaseRow
         /\ \E newRow \in CaseRow, t \in Transitions, r \in BOOLEAN :
              Updates(h, newRow, t, r)
<1> DEFINE e == handlers[h].event
           row == handlers[h].row
<1>1. handlers[h].pc = "ready"
  BY DEF UpdateKinds, Updates
<1>2. e \in Events /\ row \in CaseRow /\ e \in EventFields
  BY <1>1, EventsAssumption DEF TypeInv, HandlersHold
<1>3. e.dispute \in Disputes
  BY <1>2 DEF EventFields
<1>4. cases[e.dispute] \in CaseRow
  BY <1>1, <1>2, <1>3, NoRowAssumption DEF TypeInv, TypeOK, HandlersHold
<1>5. /\ AdvancedRow(e, row) \in CaseRow
      /\ StaleRow(row) \in CaseRow
      /\ AmendedRow(e, row) \in CaseRow
  BY <1>2, UpdatedRowTypes
<1>6. \E newRow \in CaseRow, t \in Transitions, r \in BOOLEAN :
        Updates(h, newRow, t, r)
  <2>1. IsReopen(row) \in BOOLEAN
    BY DEF IsReopen
  <2>2. {"phase_advance", "out_of_order", "status_change"} \subseteq Transitions
    BY DEF Transitions
  <2>3. QED
    BY <1>5, <2>1, <2>2 DEF UpdateKinds
<1>7. QED
  BY <1>2, <1>4, <1>6

-----------------------------------------------------------------------------
(* Every reachable state is well typed, and no handler ever decides on an  *)
(* event or a row it does not have.                                        *)
LEMMA TypeInvStep ==
  ASSUME TypeInv, [Next]_ingestVars
  PROVE  TypeInv'
<1>1. Events \subseteq EventFields
  BY EventsAssumption
<1>2. ASSUME NEW h \in Handlers, Release(h), acked' \subseteq Events,
             cases' \in [Disputes -> CaseRow \union {NoRow}],
             \A d \in Disputes : cases[d] # NoRow => cases'[d] # NoRow,
             history' \in [Disputes -> Seq(HistoryRow)]
      PROVE  TypeInv'
  <2>1. TypeOK'
    BY <1>2 DEF Release, Idle, TypeInv, TypeOK, HandlerState
  <2>2. ASSUME NEW g \in Handlers, handlers'[g].pc # "idle"
        PROVE  /\ handlers'[g] = handlers[g]
               /\ handlers[g].event.dispute \in Disputes
    BY <1>1, <1>2, <2>2
       DEF Release, Idle, TypeInv, TypeOK, HandlersHold, EventFields
  <2>3. HandlersHold'
    BY <1>2, <2>2 DEF TypeInv, HandlersHold
  <2>4. QED
    BY <2>1, <2>3 DEF TypeInv
<1>3. ASSUME NEW h \in Handlers, NEW e \in Events, Receive(h, e)
      PROVE  TypeInv'
  BY <1>1, <1>3
     DEF Receive, TypeInv, TypeOK, HandlersHold, HandlerState, EventFields
<1>4. ASSUME NEW h \in Handlers, LoadHistory(h)
      PROVE  TypeInv'
  <2> DEFINE e == handlers[h].event
  <2>1. e \in Events /\ e.dispute \in Disputes
    BY <1>1, <1>4 DEF LoadHistory, TypeInv, HandlersHold, EventFields
  <2>2. handlers'[h] = [pc |-> "ready", event |-> e, row |-> handlers[h].row,
                        trail |-> history[e.dispute]]
    BY <1>4 DEF LoadHistory, TypeInv, TypeOK, HandlerState
  <2>3. \A g \in Handlers \ {h} : handlers'[g] = handlers[g]
    BY <1>4 DEF LoadHistory, TypeInv, TypeOK
  <2>4. handlers' \in [Handlers -> HandlerState]
    BY <1>4, <2>1, <2>2 DEF LoadHistory, TypeInv, TypeOK, HandlerState
  <2>5. HandlersHold'
    BY <1>4, <2>1, <2>2, <2>3
       DEF LoadHistory, TypeInv, TypeOK, HandlersHold, HandlerState
  <2>6. QED
    BY <1>4, <2>4, <2>5 DEF LoadHistory, TypeInv, TypeOK
<1>5. ASSUME NEW h \in Handlers, CreateConflict(h) \/ Abort(h) \/ Noop(h)
      PROVE  TypeInv'
  <2>1. acked' \subseteq Events
    BY <1>5
       DEF CreateConflict, Abort, Noop, Acknowledge, TypeInv, TypeOK, HandlersHold
  <2>2. QED
    BY <1>2, <1>5, <2>1
       DEF CreateConflict, Abort, Noop, Acknowledge, TypeInv, TypeOK
<1>6. ASSUME NEW h \in Handlers, Create(h)
      PROVE  TypeInv'
  <2> DEFINE e == handlers[h].event
             first == NewHistoryRow(e, "initial", FALSE, "none")
  <2>1. e \in Events /\ e \in EventFields /\ e.dispute \in Disputes
    BY <1>1, <1>6 DEF Create, TypeInv, HandlersHold, EventFields
  <2>2. NewCase(e) \in CaseRow /\ NewCase(e) # NoRow
    BY <2>1, NewCaseType, NoRowAssumption
  <2>3. first \in HistoryRow
    BY <2>1, HistoryRowType DEF Transitions
  <2>4. /\ cases' = [cases EXCEPT ![e.dispute] = NewCase(e)]
        /\ history' = [history EXCEPT ![e.dispute] =
                         Append(history[e.dispute], first)]
    BY <1>6 DEF Create
  <2>5. /\ cases' \in [Disputes -> CaseRow \union {NoRow}]
        /\ \A d \in Disputes : cases[d] # NoRow => cases'[d] # NoRow
        /\ history' \in [Disputes -> Seq(HistoryRow)]
    <3> HIDE DEF e, first
    <3>1. QED
      BY <2>1, <2>2, <2>3, <2>4 DEF TypeInv, TypeOK
  <2>6. QED
    BY <1>2, <1>6, <2>1, <2>5 DEF Create, Acknowledge, TypeInv, TypeOK
<1>7. ASSUME NEW h \in Handlers, UpdateKinds(h)
      PROVE  TypeInv'
  <2> DEFINE e == handlers[h].event
             row == handlers[h].row
  <2>1. PICK newRow \in CaseRow, t \in Transitions, r \in BOOLEAN :
          Updates(h, newRow, t, r)
    BY <1>7, UpdateTypes
  <2>2. /\ e \in EventFields /\ e.dispute \in Disputes /\ e \in Events
        /\ row \in CaseRow /\ cases[e.dispute] \in CaseRow
    BY <1>7, <2>1, UpdateTypes
       DEF EventFields, Updates, TypeInv, HandlersHold
  <2>3. MergedRow(row, newRow, cases[e.dispute]) \in CaseRow
    BY <2>2, MergedRowType
  <2>4. NewHistoryRow(e, t, r, row.status) \in HistoryRow
    BY <2>2, HistoryRowType DEF CaseRow
  <2>5. /\ cases' \in [Disputes -> CaseRow \union {NoRow}]
        /\ \A d \in Disputes : cases[d] # NoRow => cases'[d] # NoRow
        /\ history' \in [Disputes -> Seq(HistoryRow)]
    BY <2>1, <2>2, <2>3, <2>4, NoRowAssumption
       DEF Updates, CommitUpdate, TypeInv, TypeOK
  <2>6. QED
    BY <1>2, <2>1, <2>2, <2>5
       DEF Updates, CommitUpdate, Acknowledge, TypeInv, TypeOK
<1>8. CASE UNCHANGED ingestVars
  BY <1>8 DEF ingestVars, TypeInv, TypeOK, HandlersHold
<1>9. ASSUME NEW h \in Handlers, Advance(h) \/ RecordStale(h) \/ Amend(h)
      PROVE  TypeInv'
  BY <1>7, <1>9 DEF Advance, RecordStale, Amend, UpdateKinds, Updates
<1>10. QED
  BY <1>3, <1>4, <1>5, <1>6, <1>8, <1>9 DEF Next, HandlerStep

LEMMA TypeInvariant == Spec => []TypeInv
<1>1. Init => TypeInv
  BY NoRowAssumption
     DEF Init, TypeInv, TypeOK, HandlersHold, Idle, HandlerState
<1>2. TypeInv /\ [Next]_ingestVars => TypeInv'
  BY TypeInvStep
<1>3. QED
  BY <1>1, <1>2, PTL DEF Spec

(* Every reachable state of the two tables, the handlers and the sender's  *)
(* view is well typed (models.py:44-132).                                  *)
THEOREM TypeCorrect == Spec => []TypeOK
BY TypeInvariant, PTL DEF TypeInv

-----------------------------------------------------------------------------
(* One appended element: the old ones keep their places.                   *)
LEMMA AppendFacts ==
  ASSUME NEW S, NEW s \in Seq(S), NEW x \in S
  PROVE  /\ Append(s, x) \in Seq(S)
         /\ Len(s) \in Nat
         /\ Len(Append(s, x)) = Len(s) + 1
         /\ DOMAIN s = 1..Len(s)
         /\ DOMAIN Append(s, x) = 1..(Len(s) + 1)
         /\ \A i \in DOMAIN s : Append(s, x)[i] = s[i]
         /\ Append(s, x)[Len(s) + 1] = x
OBVIOUS

(* What a first contact does to the tables.                                *)
LEMMA CreateEffect ==
  ASSUME TypeInv, NEW h \in Handlers, Create(h)
  PROVE  \E e \in Events, first \in HistoryRow :
           /\ e = handlers[h].event
           /\ e.dispute \in Disputes
           /\ NewCase(e) \in CaseRow
           /\ first = NewHistoryRow(e, "initial", FALSE, "none")
           /\ cases[e.dispute] = NoRow
           /\ cases' = [cases EXCEPT ![e.dispute] = NewCase(e)]
           /\ history' = [history EXCEPT ![e.dispute] =
                            Append(history[e.dispute], first)]
<1> DEFINE e == handlers[h].event
           first == NewHistoryRow(e, "initial", FALSE, "none")
<1>1. e \in Events /\ e \in EventFields /\ e.dispute \in Disputes
  BY EventsAssumption DEF Create, TypeInv, HandlersHold, EventFields
<1>2. NewCase(e) \in CaseRow
  BY <1>1, NewCaseType
<1>3. first \in HistoryRow
  BY <1>1, HistoryRowType DEF Transitions
<1>4. /\ cases[e.dispute] = NoRow
      /\ cases' = [cases EXCEPT ![e.dispute] = NewCase(e)]
      /\ history' = [history EXCEPT ![e.dispute] =
                       Append(history[e.dispute], first)]
  BY DEF Create
<1> HIDE DEF first
<1>5. QED
  BY <1>1, <1>2, <1>3, <1>4 DEF first

(* The three updates: the row each one leaves and the history row with it. *)
UpdateForm(e, row, newRow, entry) ==
  \/ /\ Advances(e, row)
     /\ newRow = AdvancedRow(e, row)
     /\ entry = NewHistoryRow(e, "phase_advance", IsReopen(row), row.status)
  \/ /\ ~Advances(e, row)
     /\ newRow = StaleRow(row)
     /\ entry = NewHistoryRow(e, "out_of_order", FALSE, row.status)
  \/ /\ e.phase = row.phase
     /\ newRow = AmendedRow(e, row)
     /\ entry = NewHistoryRow(e, "status_change", FALSE, row.status)

(* What an update does to the tables.                                      *)
UpdateEffect(h, e, row, newRow, entry) ==
  /\ e = handlers[h].event
  /\ row = handlers[h].row
  /\ handlers[h].pc = "ready"
  /\ e.dispute \in Disputes
  /\ cases[e.dispute] \in CaseRow
  /\ ~Redelivery(e, row, handlers[h].trail)
  /\ UpdateForm(e, row, newRow, entry)
  /\ cases' = [cases EXCEPT ![e.dispute] =
                 MergedRow(row, newRow, cases[e.dispute])]
  /\ history' = [history EXCEPT ![e.dispute] = Append(history[e.dispute], entry)]

LEMMA UpdateEffects ==
  ASSUME TypeInv, NEW h \in Handlers, UpdateKinds(h)
  PROVE  \E e \in Events, row \in CaseRow, newRow \in CaseRow,
            entry \in HistoryRow : UpdateEffect(h, e, row, newRow, entry)
<1> DEFINE e == handlers[h].event
           row == handlers[h].row
<1>1. /\ e \in Events /\ e \in EventFields /\ row \in CaseRow
      /\ handlers[h].pc = "ready" /\ ~Redelivery(e, row, handlers[h].trail)
      /\ e.dispute \in Disputes /\ cases[e.dispute] \in CaseRow
  BY UpdateTypes DEF UpdateKinds, Updates, TypeInv, HandlersHold, EventFields
<1>2. /\ AdvancedRow(e, row) \in CaseRow
      /\ StaleRow(row) \in CaseRow
      /\ AmendedRow(e, row) \in CaseRow
  BY <1>1, UpdatedRowTypes
<1>3. ASSUME NEW t \in Transitions, NEW r \in BOOLEAN
      PROVE  NewHistoryRow(e, t, r, row.status) \in HistoryRow
  BY <1>1, HistoryRowType DEF CaseRow
<1>4. CASE /\ Advances(e, row)
           /\ Updates(h, AdvancedRow(e, row), "phase_advance", IsReopen(row))
  <2> DEFINE newRow == AdvancedRow(e, row)
             entry == NewHistoryRow(e, "phase_advance", IsReopen(row), row.status)
  <2>0. IsReopen(row) \in BOOLEAN
    BY DEF IsReopen
  <2>1. entry \in HistoryRow
    BY <1>3, <2>0 DEF Transitions
  <2>2. /\ cases' = [cases EXCEPT ![e.dispute] =
                       MergedRow(row, newRow, cases[e.dispute])]
        /\ history' = [history EXCEPT ![e.dispute] =
                         Append(history[e.dispute], entry)]
    BY <1>4 DEF Updates, CommitUpdate
  <2>3. UpdateEffect(h, e, row, newRow, entry)
    BY <1>1, <1>4, <2>2, Zenon DEF UpdateEffect, UpdateForm
  <2>4. e \in Events /\ row \in CaseRow /\ newRow \in CaseRow
    BY <1>1, <1>2
  <2> HIDE DEF e, row, newRow, entry
  <2>5. QED
    BY <2>1, <2>3, <2>4
<1>5. CASE /\ ~Advances(e, row)
           /\ Updates(h, StaleRow(row), "out_of_order", FALSE)
  <2> DEFINE newRow == StaleRow(row)
             entry == NewHistoryRow(e, "out_of_order", FALSE, row.status)
  <2>1. entry \in HistoryRow
    BY <1>3 DEF Transitions
  <2>2. /\ cases' = [cases EXCEPT ![e.dispute] =
                       MergedRow(row, newRow, cases[e.dispute])]
        /\ history' = [history EXCEPT ![e.dispute] =
                         Append(history[e.dispute], entry)]
    BY <1>5 DEF Updates, CommitUpdate
  <2>3. UpdateEffect(h, e, row, newRow, entry)
    BY <1>1, <1>5, <2>2, Zenon DEF UpdateEffect, UpdateForm
  <2>4. e \in Events /\ row \in CaseRow /\ newRow \in CaseRow
    BY <1>1, <1>2
  <2> HIDE DEF e, row, newRow, entry
  <2>5. QED
    BY <2>1, <2>3, <2>4
<1>6. CASE /\ e.phase = row.phase
           /\ Updates(h, AmendedRow(e, row), "status_change", FALSE)
  <2> DEFINE newRow == AmendedRow(e, row)
             entry == NewHistoryRow(e, "status_change", FALSE, row.status)
  <2>1. entry \in HistoryRow
    BY <1>3 DEF Transitions
  <2>2. /\ cases' = [cases EXCEPT ![e.dispute] =
                       MergedRow(row, newRow, cases[e.dispute])]
        /\ history' = [history EXCEPT ![e.dispute] =
                         Append(history[e.dispute], entry)]
    BY <1>6 DEF Updates, CommitUpdate
  <2>3. UpdateEffect(h, e, row, newRow, entry)
    BY <1>1, <1>6, <2>2, Zenon DEF UpdateEffect, UpdateForm
  <2>4. e \in Events /\ row \in CaseRow /\ newRow \in CaseRow
    BY <1>1, <1>2
  <2> HIDE DEF e, row, newRow, entry
  <2>5. QED
    BY <2>1, <2>3, <2>4
<1>7. QED
  BY <1>4, <1>5, <1>6 DEF UpdateKinds

-----------------------------------------------------------------------------
(* However many handlers interleave, no history row is ever changed,       *)
(* dropped or inserted before another (models.py:95-101).                  *)
THEOREM AppendOnly == Spec => TrailOnlyGrows
<1> DEFINE Grows(d) ==
      \/ history'[d] = history[d]
      \/ /\ Len(history'[d]) = Len(history[d]) + 1
         /\ \A i \in DOMAIN history[d] : history'[d][i] = history[d][i]
<1>1. ASSUME TypeInv, [Next]_ingestVars
      PROVE  \A d \in Disputes : Grows(d)
  <2>1. history \in [Disputes -> Seq(HistoryRow)]
    BY <1>1 DEF TypeInv, TypeOK
  <2>2. ASSUME NEW d \in Disputes, NEW entry \in HistoryRow,
               history' = [history EXCEPT ![d] = Append(history[d], entry)]
        PROVE  \A c \in Disputes : Grows(c)
    BY <2>1, <2>2, AppendFacts
  <2>3. CASE Quiet
    BY <2>3 DEF Quiet
  <2>4. ASSUME NEW h \in Handlers, Create(h)
        PROVE  \A c \in Disputes : Grows(c)
    BY <1>1, <2>2, <2>4, CreateEffect
  <2>5. ASSUME NEW h \in Handlers, UpdateKinds(h)
        PROVE  \A c \in Disputes : Grows(c)
    <3>1. PICK e \in Events, row \in CaseRow, newRow \in CaseRow,
               entry \in HistoryRow : UpdateEffect(h, e, row, newRow, entry)
      BY <1>1, <2>5, UpdateEffects
    <3>2. /\ e.dispute \in Disputes
          /\ history' = [history EXCEPT ![e.dispute] =
                           Append(history[e.dispute], entry)]
      BY <3>1, Zenon DEF UpdateEffect
    <3>3. QED
      BY <2>2, <3>2
  <2>6. QED
    BY <1>1, <2>3, <2>4, <2>5, StepKinds
<1>2. TypeInv /\ [Next]_ingestVars => [\A d \in Disputes : Grows(d)]_history
  BY <1>1
<1>3. QED
  BY <1>2, TypeInvariant, PTL DEF Spec, TrailOnlyGrows

-----------------------------------------------------------------------------
(* Where the case row a busy handler holds comes from: the step before, or *)
(* the table just now.                                                     *)
LEMMA RowInHand ==
  ASSUME TypeInv, [Next]_ingestVars, NEW g \in Handlers,
         handlers'[g].pc # "idle"
  PROVE  /\ handlers'[g].event \in Events
         /\ \/ /\ handlers[g].pc # "idle"
               /\ handlers'[g].event = handlers[g].event
               /\ handlers'[g].row = handlers[g].row
            \/ handlers'[g].row = cases[handlers'[g].event.dispute]
<1>1. ASSUME NEW h \in Handlers, Release(h)
      PROVE  handlers'[g] = handlers[g]
  BY <1>1 DEF Release, Idle, TypeInv, TypeOK
<1>2. ASSUME NEW h \in Handlers, NEW e \in Events, Receive(h, e)
      PROVE  \/ handlers'[g] = handlers[g]
             \/ /\ handlers'[g].event \in Events
                /\ handlers'[g].row = cases[handlers'[g].event.dispute]
  BY <1>2 DEF Receive, TypeInv, TypeOK
<1>3. ASSUME NEW h \in Handlers, LoadHistory(h)
      PROVE  /\ handlers[g].pc # "idle"
             /\ handlers'[g].event = handlers[g].event
             /\ handlers'[g].row = handlers[g].row
  BY <1>3 DEF LoadHistory, TypeInv, TypeOK, HandlerState
<1>4. CASE UNCHANGED ingestVars
  BY <1>4 DEF ingestVars, TypeInv, HandlersHold
<1>5. ASSUME NEW h \in Handlers,
             \/ Create(h) \/ CreateConflict(h) \/ Noop(h) \/ Abort(h)
             \/ Advance(h) \/ RecordStale(h) \/ Amend(h)
      PROVE  Release(h)
  BY <1>5 DEF Create, CreateConflict, Noop, Abort, Advance, RecordStale, Amend,
              CommitUpdate, Acknowledge
<1>6. QED
  BY <1>1, <1>2, <1>3, <1>4, <1>5
     DEF Next, HandlerStep, TypeInv, HandlersHold

(* What a step does to a trail, together with what it does to the case.    *)
LEMMA TrailStep ==
  ASSUME TypeInv, [Next]_ingestVars, NEW d \in Disputes
  PROVE  \/ cases'[d] = cases[d] /\ history'[d] = history[d]
         \/ \E entry \in HistoryRow :
              /\ history'[d] = Append(history[d], entry)
              /\ cases'[d] \in CaseRow
              /\ \/ cases'[d].status = entry.status
                 \/ cases[d] \in CaseRow /\ cases'[d].status = cases[d].status
              /\ entry.isReopen =>
                   \E h \in Handlers :
                     /\ handlers[h].pc = "ready"
                     /\ handlers[h].event.dispute = d
                     /\ handlers[h].row.status \in Terminal
<1>1. CASE Quiet
  BY <1>1 DEF Quiet
<1>2. ASSUME NEW h \in Handlers, Create(h)
      PROVE  \/ cases'[d] = cases[d] /\ history'[d] = history[d]
             \/ \E entry \in HistoryRow :
                  /\ history'[d] = Append(history[d], entry)
                  /\ cases'[d] \in CaseRow
                  /\ cases'[d].status = entry.status
                  /\ ~entry.isReopen
  <2>1. PICK e \in Events, first \in HistoryRow :
          /\ e.dispute \in Disputes
          /\ NewCase(e) \in CaseRow
          /\ first = NewHistoryRow(e, "initial", FALSE, "none")
          /\ cases' = [cases EXCEPT ![e.dispute] = NewCase(e)]
          /\ history' = [history EXCEPT ![e.dispute] =
                           Append(history[e.dispute], first)]
    BY <1>2, CreateEffect
  <2>2. first.status = NewCase(e).status /\ ~first.isReopen
    BY <2>1 DEF NewHistoryRow, NewCase
  <2>3. QED
    BY <2>1, <2>2 DEF TypeInv, TypeOK
<1>3. ASSUME NEW h \in Handlers, UpdateKinds(h)
      PROVE  \/ cases'[d] = cases[d] /\ history'[d] = history[d]
             \/ \E entry \in HistoryRow :
                  /\ history'[d] = Append(history[d], entry)
                  /\ cases'[d] \in CaseRow
                  /\ \/ cases'[d].status = entry.status
                     \/ cases[d] \in CaseRow /\ cases'[d].status = cases[d].status
                  /\ entry.isReopen => /\ handlers[h].pc = "ready"
                                       /\ handlers[h].event.dispute = d
                                       /\ handlers[h].row.status \in Terminal
  <2>1. PICK e \in Events, row \in CaseRow, newRow \in CaseRow,
             entry \in HistoryRow : UpdateEffect(h, e, row, newRow, entry)
    BY <1>3, UpdateEffects
  <2>2. entry.isReopen => row.status \in Terminal
    <3>1. ASSUME NEW t, NEW r
          PROVE  NewHistoryRow(e, t, r, row.status).isReopen = r
      BY DEF NewHistoryRow
    <3>2. UpdateForm(e, row, newRow, entry)
      BY <2>1, Zenon DEF UpdateEffect
    <3>3. CASE entry = NewHistoryRow(e, "phase_advance", IsReopen(row),
                                     row.status)
      <4>1. entry.isReopen = IsReopen(row)
        BY <3>1, <3>3, Zenon
      <4>2. QED
        BY <4>1, Zenon DEF IsReopen
    <3>4. ASSUME NEW t, entry = NewHistoryRow(e, t, FALSE, row.status)
          PROVE  ~entry.isReopen
      <4>1. entry.isReopen = FALSE
        BY <3>1, <3>4, Zenon
      <4>2. QED
        BY <4>1
    <3>5. QED
      BY <3>2, <3>3, <3>4, Zenon DEF UpdateForm
  <2>3. newRow.status = entry.status \/ newRow.status = row.status
    <3>1. ASSUME NEW t, NEW r
          PROVE  NewHistoryRow(e, t, r, row.status).status = e.status
      BY DEF NewHistoryRow
    <3>2. /\ AdvancedRow(e, row).status = e.status
          /\ AmendedRow(e, row).status = e.status
          /\ StaleRow(row).status = row.status
      BY DEF AdvancedRow, AmendedRow, StaleRow, CaseRow
    <3>3. UpdateForm(e, row, newRow, entry)
      BY <2>1, Zenon DEF UpdateEffect
    <3>4. QED
      BY <3>1, <3>2, <3>3, Zenon DEF UpdateForm
  <2>4. LET now == cases[e.dispute]
            merged == MergedRow(row, newRow, now)
        IN  /\ merged \in CaseRow
            /\ merged.status = entry.status \/ merged.status = now.status
    BY <2>1, <2>3, MergedRowType DEF UpdateEffect, MergedRow, Column
  <2>5. QED
    BY <2>1, <2>2, <2>4 DEF UpdateEffect, TypeInv, TypeOK
<1>4. QED
  BY <1>1, <1>2, <1>3, StepKinds

(* A case row and its trail come into being together.                      *)
TrailWithCase == \A d \in Disputes : cases[d] = NoRow <=> history[d] = <<>>

LEMMA TrailInvariant == Spec => []TrailWithCase
<1>1. Init => TrailWithCase
  BY DEF Init, TrailWithCase
<1>2. ASSUME TypeInv, TrailWithCase, [Next]_ingestVars
      PROVE  TrailWithCase'
  <2>1. ASSUME NEW d \in Disputes
        PROVE  cases'[d] = NoRow <=> history'[d] = <<>>
    <3>1. CASE cases'[d] = cases[d] /\ history'[d] = history[d]
      BY <1>2, <3>1 DEF TrailWithCase
    <3>2. ASSUME NEW entry \in HistoryRow, cases'[d] \in CaseRow,
                 history'[d] = Append(history[d], entry)
          PROVE  cases'[d] # NoRow /\ history'[d] # <<>>
      <4>1. Len(history'[d]) = Len(history[d]) + 1 /\ Len(history[d]) \in Nat
        BY <1>2, <3>2, AppendFacts DEF TypeInv, TypeOK
      <4>2. QED
        BY <3>2, <4>1, NoRowAssumption
    <3>3. QED
      BY <1>2, <3>1, <3>2, TrailStep
  <2>2. QED
    BY <2>1 DEF TrailWithCase
<1>3. QED
  BY <1>1, <1>2, TypeInvariant, PTL DEF Spec

(* A terminal status is never lost from view: whether it stands in the     *)
(* case row or in the row a handler loaded before the case moved on, some  *)
(* row of the trail recorded it.                                           *)
TerminalPast(d) == \E j \in DOMAIN history[d] : history[d][j].status \in Terminal

CasesBacked ==
  \A d \in Disputes :
    cases[d] # NoRow /\ cases[d].status \in Terminal => TerminalPast(d)

SnapshotsBacked ==
  \A h \in Handlers :
    LET row == handlers[h].row IN
    /\ handlers[h].pc # "idle"
    /\ row # NoRow
    /\ row.status \in Terminal
    => TerminalPast(handlers[h].event.dispute)

ReopenInv == ReopenHasTerminalPast /\ CasesBacked /\ SnapshotsBacked

LEMMA ReopenInvStep ==
  ASSUME TypeInv, ReopenInv, [Next]_ingestVars
  PROVE  ReopenInv'
<1>1. history \in [Disputes -> Seq(HistoryRow)]
  BY DEF TypeInv, TypeOK
<1>2. ASSUME NEW d \in Disputes, TerminalPast(d)
      PROVE  TerminalPast(d)'
  BY <1>1, <1>2, TrailStep, AppendFacts DEF TerminalPast
<1>3. ASSUME NEW d \in Disputes, cases'[d] # NoRow, cases'[d].status \in Terminal
      PROVE  TerminalPast(d)'
  <2>1. CASE cases'[d] = cases[d]
    BY <1>2, <1>3, <2>1 DEF ReopenInv, CasesBacked
  <2>2. ASSUME cases[d] \in CaseRow, cases'[d].status = cases[d].status
        PROVE  TerminalPast(d)'
    BY <1>2, <1>3, <2>2, NoRowAssumption DEF ReopenInv, CasesBacked
  <2>3. ASSUME NEW entry \in HistoryRow,
               history'[d] = Append(history[d], entry),
               entry.status = cases'[d].status
        PROVE  TerminalPast(d)'
    BY <1>1, <1>3, <2>3, AppendFacts DEF TerminalPast
  <2>4. QED
    BY <2>1, <2>2, <2>3, TrailStep
<1>4. ASSUME NEW g \in Handlers, handlers'[g].pc # "idle",
             handlers'[g].row # NoRow, handlers'[g].row.status \in Terminal
      PROVE  TerminalPast(handlers[g].event.dispute)'
  <2> DEFINE d == handlers'[g].event.dispute
  <2>1. d \in Disputes
    BY <1>4, RowInHand, EventsAssumption DEF EventFields
  <2>2. TerminalPast(d)
    BY <1>4, <2>1, RowInHand
       DEF ReopenInv, SnapshotsBacked, CasesBacked
  <2>3. \E j \in DOMAIN history'[d] : history'[d][j].status \in Terminal
    <3> HIDE DEF d
    <3>1. QED
      BY <1>2, <2>1, <2>2 DEF TerminalPast
  <2>4. QED
    BY <2>3 DEF TerminalPast
<1>5. ASSUME NEW d \in Disputes, NEW i \in DOMAIN history'[d],
             history'[d][i].isReopen
      PROVE  \E j \in 1..(i - 1) : history'[d][j].status \in Terminal
  <2>1. CASE history'[d] = history[d]
    BY <1>5, <2>1 DEF ReopenInv, ReopenHasTerminalPast, ReopenRows
  <2>2. ASSUME NEW entry \in HistoryRow,
               history'[d] = Append(history[d], entry),
               entry.isReopen => TerminalPast(d)
        PROVE  \E j \in 1..(i - 1) : history'[d][j].status \in Terminal
    <3>1. /\ DOMAIN history[d] = 1..Len(history[d])
          /\ Len(history[d]) \in Nat
          /\ DOMAIN history'[d] = 1..(Len(history[d]) + 1)
          /\ \A j \in DOMAIN history[d] : history'[d][j] = history[d][j]
          /\ history'[d][Len(history[d]) + 1] = entry
      BY <1>1, <2>2, AppendFacts
    <3>2. CASE i = Len(history[d]) + 1
      BY <1>5, <2>2, <3>1, <3>2 DEF TerminalPast
    <3>3. CASE i \in DOMAIN history[d]
      <4>1. PICK j \in 1..(i - 1) : history[d][j].status \in Terminal
        BY <1>5, <3>1, <3>3 DEF ReopenInv, ReopenHasTerminalPast, ReopenRows
      <4>2. j \in DOMAIN history[d]
        BY <3>1, <3>3
      <4>3. QED
        BY <3>1, <4>1, <4>2
    <3>4. QED
      BY <3>1, <3>2, <3>3
  <2>3. ASSUME NEW h \in Handlers, handlers[h].pc = "ready",
               handlers[h].event.dispute = d,
               handlers[h].row.status \in Terminal
        PROVE  TerminalPast(d)
    BY <2>3, NoRowAssumption
       DEF TypeInv, HandlersHold, ReopenInv, SnapshotsBacked
  <2>4. QED
    BY <2>1, <2>2, <2>3, TrailStep
<1>6. QED
  BY <1>3, <1>4, <1>5
     DEF ReopenInv, ReopenHasTerminalPast, ReopenRows, CasesBacked,
         SnapshotsBacked

(* However the handlers interleave, a reopen is recorded only after a      *)
(* terminal status was (service.py:297-304).                               *)
THEOREM ReopenSound == Spec => []ReopenHasTerminalPast
<1>1. Init => ReopenInv
  BY DEF Init, ReopenInv, ReopenHasTerminalPast, ReopenRows, CasesBacked,
         SnapshotsBacked, Idle
<1>2. TypeInv /\ ReopenInv /\ [Next]_ingestVars => ReopenInv'
  BY ReopenInvStep
<1>3. ReopenInv => ReopenHasTerminalPast
  BY DEF ReopenInv
<1>4. QED
  BY <1>1, <1>2, <1>3, TypeInvariant, PTL DEF Spec

-----------------------------------------------------------------------------
(* The rows of a trail that record a reopen, and how one more row adds to  *)
(* them.                                                                   *)
FlaggedRows(trail) == {i \in DOMAIN trail : trail[i].isReopen}

LEMMA FlaggedRowsFinite ==
  ASSUME NEW trail \in Seq(HistoryRow)
  PROVE  /\ IsFiniteSet(FlaggedRows(trail))
         /\ Cardinality(FlaggedRows(trail)) \in Nat
<1>1. Len(trail) \in Nat /\ DOMAIN trail = 1..Len(trail)
  OBVIOUS
<1>2. IsFiniteSet(1..Len(trail))
  BY <1>1, FS_Interval
<1>3. FlaggedRows(trail) \in SUBSET (1..Len(trail))
  BY <1>1 DEF FlaggedRows
<1>4. IsFiniteSet(FlaggedRows(trail))
  BY <1>2, <1>3, FS_Subset
<1>5. QED
  BY <1>4, FS_CardinalityType

LEMMA FlaggedRowsAppend ==
  ASSUME NEW trail \in Seq(HistoryRow), NEW entry \in HistoryRow
  PROVE  Cardinality(FlaggedRows(Append(trail, entry))) =
           IF entry.isReopen THEN Cardinality(FlaggedRows(trail)) + 1
                             ELSE Cardinality(FlaggedRows(trail))
<1> DEFINE n == Len(trail)
           longer == Append(trail, entry)
<1>1. /\ n \in Nat
      /\ DOMAIN trail = 1..n
      /\ DOMAIN longer = 1..(n + 1)
      /\ \A i \in DOMAIN trail : longer[i] = trail[i]
      /\ longer[n + 1] = entry
  BY AppendFacts
<1>2. n + 1 \notin DOMAIN trail
      /\ \A i : i \in DOMAIN longer <=> i \in DOMAIN trail \/ i = n + 1
  BY <1>1
<1> HIDE DEF n, longer
<1>3. FlaggedRows(longer) = FlaggedRows(trail) \union
                              (IF entry.isReopen THEN {n + 1} ELSE {})
  BY <1>1, <1>2 DEF FlaggedRows
<1>4. n + 1 \notin FlaggedRows(trail)
  BY <1>2 DEF FlaggedRows
<1>5. CASE entry.isReopen
  <2>1. FlaggedRows(longer) = FlaggedRows(trail) \union {n + 1}
    BY <1>3, <1>5
  <2>2. QED
    BY <1>4, <1>5, <2>1, FlaggedRowsFinite, FS_AddElement DEF longer
<1>6. CASE ~entry.isReopen
  <2>1. FlaggedRows(longer) = FlaggedRows(trail)
    BY <1>3, <1>6
  <2>2. QED
    BY <1>6, <2>1 DEF longer
<1>7. QED
  BY <1>5, <1>6

(* The counters of a row, whether it is stored or in a handler's hands, do *)
(* not run ahead of the trail: a counter that is copied from a stale row   *)
(* only falls behind.                                                      *)
Counted(row, trail) ==
  /\ row.reopenCount <= Cardinality(FlaggedRows(trail))
  /\ row.eventCount <= Len(trail)

InitialFirst(trail) ==
  \A i \in DOMAIN trail : trail[i].transition = "initial" <=> i = 1

CountersInv ==
  /\ TrailWithCase
  /\ \A d \in Disputes :
       /\ InitialFirst(history[d])
       /\ cases[d] # NoRow => Counted(cases[d], history[d])
  /\ \A h \in Handlers :
       handlers[h].pc # "idle" /\ handlers[h].row # NoRow =>
         Counted(handlers[h].row, history[handlers[h].event.dispute])

LEMMA CountedAppend ==
  ASSUME NEW row \in CaseRow, NEW trail \in Seq(HistoryRow),
         NEW entry \in HistoryRow, Counted(row, trail)
  PROVE  Counted(row, Append(trail, entry))
<1>1. /\ row.reopenCount \in Nat /\ row.eventCount \in Nat
      /\ Cardinality(FlaggedRows(trail)) \in Nat
  BY FlaggedRowsFinite DEF CaseRow
<1>2. QED
  BY <1>1, FlaggedRowsAppend, AppendFacts DEF Counted

(* The counters of an update, whatever became of the row it had loaded.    *)
LEMMA CountedUpdate ==
  ASSUME NEW e, NEW row \in CaseRow, NEW newRow \in CaseRow,
         NEW entry \in HistoryRow, NEW stored \in CaseRow,
         NEW trail \in Seq(HistoryRow),
         UpdateForm(e, row, newRow, entry),
         Counted(row, trail), Counted(stored, trail)
  PROVE  /\ Counted(MergedRow(row, newRow, stored), Append(trail, entry))
         /\ entry.transition # "initial"
<1> DEFINE reopens == Cardinality(FlaggedRows(trail))
           merged == MergedRow(row, newRow, stored)
<1>1. /\ row.reopenCount \in Nat /\ row.eventCount \in Nat
      /\ stored.reopenCount \in Nat /\ stored.eventCount \in Nat
      /\ reopens \in Nat /\ Len(trail) \in Nat
  BY FlaggedRowsFinite DEF CaseRow
<1>2. ASSUME NEW t, NEW r
      PROVE  LET made == NewHistoryRow(e, t, r, row.status)
             IN  made.isReopen = r /\ made.transition = t
  BY DEF NewHistoryRow
<1>3. /\ AdvancedRow(e, row).reopenCount =
           IF IsReopen(row) THEN row.reopenCount + 1 ELSE row.reopenCount
      /\ AdvancedRow(e, row).eventCount = row.eventCount + 1
      /\ StaleRow(row).reopenCount = row.reopenCount
      /\ StaleRow(row).eventCount = row.eventCount + 1
      /\ AmendedRow(e, row).reopenCount = row.reopenCount
      /\ AmendedRow(e, row).eventCount = row.eventCount + 1
  BY DEF AdvancedRow, StaleRow, AmendedRow, CaseRow
<1>4. /\ newRow.eventCount = row.eventCount + 1
      /\ \/ newRow.reopenCount = row.reopenCount
         \/ newRow.reopenCount = row.reopenCount + 1 /\ entry.isReopen
      /\ entry.transition # "initial"
  <2>1. CASE /\ newRow = AdvancedRow(e, row)
             /\ entry = NewHistoryRow(e, "phase_advance", IsReopen(row),
                                      row.status)
    <3>1. entry.isReopen = IsReopen(row) /\ entry.transition = "phase_advance"
      BY <1>2, <2>1, Zenon
    <3>2. QED
      BY <1>3, <2>1, <3>1
  <2>2. CASE /\ newRow = StaleRow(row)
             /\ entry = NewHistoryRow(e, "out_of_order", FALSE, row.status)
    <3>1. entry.transition = "out_of_order"
      BY <1>2, <2>2, Zenon
    <3>2. QED
      BY <1>3, <2>2, <3>1
  <2>3. CASE /\ newRow = AmendedRow(e, row)
             /\ entry = NewHistoryRow(e, "status_change", FALSE, row.status)
    <3>1. entry.transition = "status_change"
      BY <1>2, <2>3, Zenon
    <3>2. QED
      BY <1>3, <2>3, <3>1
  <2>4. QED
    BY <2>1, <2>2, <2>3, Zenon DEF UpdateForm
<1>5. /\ merged.reopenCount \in {stored.reopenCount, newRow.reopenCount}
      /\ newRow.reopenCount = row.reopenCount =>
           merged.reopenCount = stored.reopenCount
      /\ merged.eventCount \in {stored.eventCount, newRow.eventCount}
  BY DEF MergedRow, Column
<1>6. Len(Append(trail, entry)) = Len(trail) + 1
  BY AppendFacts
<1>7. Cardinality(FlaggedRows(Append(trail, entry))) =
        IF entry.isReopen THEN reopens + 1 ELSE reopens
  BY FlaggedRowsAppend
<1> HIDE DEF merged
<1>8. QED
  BY <1>1, <1>4, <1>5, <1>6, <1>7 DEF Counted, merged

(* What one step does to a case and its trail, counters included.          *)
LEMMA CountersStep ==
  ASSUME TypeInv, CountersInv, [Next]_ingestVars, NEW d \in Disputes
  PROVE  \/ cases'[d] = cases[d] /\ history'[d] = history[d]
         \/ \E entry \in HistoryRow :
              /\ history'[d] = Append(history[d], entry)
              /\ entry.transition = "initial" <=> history[d] = <<>>
              /\ cases'[d] \in CaseRow
              /\ Counted(cases'[d], history'[d])
<1>1. /\ cases \in [Disputes -> CaseRow \union {NoRow}]
      /\ history \in [Disputes -> Seq(HistoryRow)]
  BY DEF TypeInv, TypeOK
<1>2. CASE Quiet
  BY <1>2 DEF Quiet
<1>3. ASSUME NEW h \in Handlers, Create(h)
      PROVE  \/ cases'[d] = cases[d] /\ history'[d] = history[d]
             \/ \E entry \in HistoryRow :
                  /\ history'[d] = Append(history[d], entry)
                  /\ entry.transition = "initial" /\ history[d] = <<>>
                  /\ cases'[d] \in CaseRow
                  /\ Counted(cases'[d], history'[d])
  <2>1. PICK e \in Events, first \in HistoryRow :
          /\ e.dispute \in Disputes
          /\ NewCase(e) \in CaseRow
          /\ first = NewHistoryRow(e, "initial", FALSE, "none")
          /\ cases[e.dispute] = NoRow
          /\ cases' = [cases EXCEPT ![e.dispute] = NewCase(e)]
          /\ history' = [history EXCEPT ![e.dispute] =
                           Append(history[e.dispute], first)]
    BY <1>3, CreateEffect
  <2>2. history[e.dispute] = <<>> /\ first.transition = "initial"
    BY <2>1 DEF CountersInv, TrailWithCase, NewHistoryRow
  <2>3. Counted(NewCase(e), Append(history[e.dispute], first))
    <3>1. /\ Cardinality(FlaggedRows(history[e.dispute])) \in Nat
          /\ Cardinality(FlaggedRows(Append(history[e.dispute], first))) \in Nat
      BY <1>1, <2>1, FlaggedRowsFinite, AppendFacts
    <3>2. Len(Append(history[e.dispute], first)) = 1
      BY <2>2
    <3>3. NewCase(e).reopenCount = 0 /\ NewCase(e).eventCount = 1
      BY DEF NewCase
    <3>4. QED
      BY <3>1, <3>2, <3>3 DEF Counted
  <2>4. QED
    BY <1>1, <2>1, <2>2, <2>3
<1>4. ASSUME NEW h \in Handlers, UpdateKinds(h)
      PROVE  \/ cases'[d] = cases[d] /\ history'[d] = history[d]
             \/ \E entry \in HistoryRow :
                  /\ history'[d] = Append(history[d], entry)
                  /\ entry.transition # "initial" /\ history[d] # <<>>
                  /\ cases'[d] \in CaseRow
                  /\ Counted(cases'[d], history'[d])
  <2>1. PICK e \in Events, row \in CaseRow, newRow \in CaseRow,
             entry \in HistoryRow : UpdateEffect(h, e, row, newRow, entry)
    BY <1>4, UpdateEffects
  <2> DEFINE stored == cases[e.dispute]
             trail == history[e.dispute]
             merged == MergedRow(row, newRow, stored)
  <2>2. /\ e = handlers[h].event /\ row = handlers[h].row
        /\ handlers[h].pc = "ready"
        /\ e.dispute \in Disputes /\ stored \in CaseRow
        /\ UpdateForm(e, row, newRow, entry)
        /\ cases' = [cases EXCEPT ![e.dispute] = merged]
        /\ history' = [history EXCEPT ![e.dispute] = Append(trail, entry)]
    BY <2>1, Zenon DEF UpdateEffect
  <2>3. trail \in Seq(HistoryRow) /\ trail # <<>>
    BY <1>1, <2>2, NoRowAssumption DEF CountersInv, TrailWithCase
  <2>4. Counted(row, trail) /\ Counted(stored, trail)
    BY <2>2, NoRowAssumption DEF CountersInv
  <2> HIDE DEF stored, trail
  <2>5. merged \in CaseRow
    BY <2>2, MergedRowType
  <2>6. Counted(merged, Append(trail, entry)) /\ entry.transition # "initial"
    BY <2>2, <2>3, <2>4, CountedUpdate
  <2> HIDE DEF merged
  <2>7. QED
    BY <1>1, <2>2, <2>3, <2>5, <2>6 DEF trail
<1>5. QED
  BY <1>2, <1>3, <1>4, StepKinds

LEMMA CountersInvStep ==
  ASSUME TypeInv, CountersInv, [Next]_ingestVars
  PROVE  CountersInv'
<1>1. /\ cases \in [Disputes -> CaseRow \union {NoRow}]
      /\ history \in [Disputes -> Seq(HistoryRow)]
      /\ handlers \in [Handlers -> HandlerState]
  BY DEF TypeInv, TypeOK
<1>2. ASSUME NEW d \in Disputes
      PROVE  /\ cases'[d] = NoRow <=> history'[d] = <<>>
             /\ InitialFirst(history'[d])
             /\ cases'[d] # NoRow => Counted(cases'[d], history'[d])
  <2>1. CASE cases'[d] = cases[d] /\ history'[d] = history[d]
    BY <2>1 DEF CountersInv, TrailWithCase
  <2>2. ASSUME NEW entry \in HistoryRow,
               history'[d] = Append(history[d], entry),
               entry.transition = "initial" <=> history[d] = <<>>,
               cases'[d] \in CaseRow,
               Counted(cases'[d], history'[d])
        PROVE  /\ cases'[d] = NoRow <=> history'[d] = <<>>
               /\ InitialFirst(history'[d])
               /\ cases'[d] # NoRow => Counted(cases'[d], history'[d])
    <3> DEFINE n == Len(history[d])
    <3>1. /\ n \in Nat
          /\ Len(history'[d]) = n + 1
          /\ DOMAIN history[d] = 1..n
          /\ DOMAIN history'[d] = 1..(n + 1)
          /\ \A i \in DOMAIN history[d] : history'[d][i] = history[d][i]
          /\ history'[d][n + 1] = entry
      BY <1>1, <2>2, AppendFacts
    <3>2. history[d] = <<>> <=> n = 0
      BY <1>1
    <3>3. history'[d] # <<>>
      BY <3>1
    <3>4. InitialFirst(history[d])
      BY DEF CountersInv
    <3> HIDE DEF n
    <3>5. ASSUME NEW i \in 1..(n + 1)
          PROVE  history'[d][i].transition = "initial" <=> i = 1
      <4>1. CASE i \in 1..n
        BY <3>1, <3>4, <4>1 DEF InitialFirst
      <4>2. CASE i = n + 1
        BY <2>2, <3>1, <3>2, <4>2
      <4>3. QED
        BY <3>1, <4>1, <4>2
    <3>6. QED
      BY <2>2, <3>1, <3>3, <3>5, NoRowAssumption DEF InitialFirst
  <2>3. QED
    BY <2>1, <2>2, CountersStep
<1>3. ASSUME NEW d \in Disputes, NEW row \in CaseRow, Counted(row, history[d])
      PROVE  Counted(row, history'[d])
  BY <1>1, <1>3, CountersStep, CountedAppend
<1>4. ASSUME NEW g \in Handlers, handlers'[g].pc # "idle",
             handlers'[g].row # NoRow
      PROVE  Counted(handlers'[g].row, history'[handlers'[g].event.dispute])
  <2> DEFINE d == handlers'[g].event.dispute
             row == handlers'[g].row
  <2>1. d \in Disputes
    BY <1>4, RowInHand, EventsAssumption DEF EventFields
  <2>2. row \in CaseRow /\ Counted(row, history[d])
    BY <1>1, <1>4, <2>1, RowInHand DEF CountersInv, HandlerState
  <2> HIDE DEF d, row
  <2>3. QED
    BY <1>3, <2>1, <2>2 DEF d, row
<1>5. QED
  BY <1>2, <1>4 DEF CountersInv, TrailWithCase

(* However the handlers interleave, a case row exists exactly when its     *)
(* trail does, the first row and no other is the initial one, and neither  *)
(* counter runs ahead of the rows it counts (service.py:239-253, 310-312). *)
THEOREM CountersSound == Spec => []CountersBacked
<1>1. Init => CountersInv
  BY DEF Init, Idle, CountersInv, TrailWithCase, InitialFirst
<1>2. TypeInv /\ CountersInv /\ [Next]_ingestVars => CountersInv'
  BY CountersInvStep
<1>3. CountersInv => CountersBacked
  BY DEF CountersInv, TrailWithCase, InitialFirst, Counted, FlaggedRows,
         CountersBacked, ReopenRows
<1>4. QED
  BY <1>1, <1>2, <1>3, TypeInvariant, PTL DEF Spec

=============================================================================
