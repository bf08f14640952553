------------------------ MODULE IngestionSerialProofs ------------------------
(***************************************************************************)
(* Theorems about the ingestion router when requests are served one at a   *)
(* time (Overlap = FALSE), for every set of disputes, events and handlers. *)
(***************************************************************************)
EXTENDS IngestionProofs

(* At most one handler is busy, and what it loaded is what is stored.      *)
OneBusy ==
  \A g, h \in Handlers :
    handlers[g].pc # "idle" /\ handlers[h].pc # "idle" => g = h

SnapshotsCurrent ==
  \A h \in Handlers :
    LET d == handlers[h].event.dispute IN
    /\ handlers[h].pc # "idle" => handlers[h].row = cases[d]
    /\ handlers[h].pc = "ready" => handlers[h].trail = history[d]

SerialInv == OneBusy /\ SnapshotsCurrent

LEMMA SerialInvStep ==
  ASSUME Overlap = FALSE, TypeInv, SerialInv, [Next]_ingestVars
  PROVE  SerialInv'
<1>1. ASSUME NEW h \in Handlers, handlers[h].pc # "idle", Release(h)
      PROVE  SerialInv'
  <2>1. \A g \in Handlers : handlers'[g].pc = "idle"
    BY <1>1 DEF Release, Idle, TypeInv, TypeOK, SerialInv, OneBusy
  <2>2. QED
    BY <2>1 DEF SerialInv, OneBusy, SnapshotsCurrent
<1>2. ASSUME NEW h \in Handlers, NEW e \in Events, Receive(h, e)
      PROVE  SerialInv'
  <2>1. \A g \in Handlers \ {h} : handlers'[g].pc = "idle"
    BY <1>2 DEF Receive, AllIdle, TypeInv, TypeOK
  <2>2. /\ handlers'[h].row = cases'[e.dispute]
        /\ handlers'[h].event = e
        /\ handlers'[h].pc = "loaded"
    BY <1>2 DEF Receive, TypeInv, TypeOK
  <2>3. QED
    BY <2>1, <2>2 DEF SerialInv, OneBusy, SnapshotsCurrent
<1>3. ASSUME NEW h \in Handlers, LoadHistory(h)
      PROVE  SerialInv'
  <2>1. \A g \in Handlers \ {h} : handlers'[g] = handlers[g]
    BY <1>3 DEF LoadHistory, TypeInv, TypeOK
  <2>2. /\ handlers'[h].row = handlers[h].row
        /\ handlers'[h].event = handlers[h].event
        /\ handlers'[h].trail = history[handlers[h].event.dispute]
        /\ handlers[h].pc # "idle"
    BY <1>3 DEF LoadHistory, TypeInv, TypeOK, HandlerState
  <2>3. QED
    BY <1>3, <2>1, <2>2 DEF LoadHistory, SerialInv, OneBusy, SnapshotsCurrent
<1>4. CASE UNCHANGED ingestVars
  BY <1>4 DEF ingestVars, SerialInv, OneBusy, SnapshotsCurrent
<1>5. ASSUME NEW h \in Handlers,
             \/ Create(h) \/ CreateConflict(h) \/ Noop(h) \/ Abort(h)
             \/ Advance(h) \/ RecordStale(h) \/ Amend(h)
      PROVE  handlers[h].pc # "idle" /\ Release(h)
  BY <1>5 DEF Create, CreateConflict, Noop, Abort, Advance, RecordStale, Amend,
              CommitUpdate, Acknowledge
<1>6. QED
  BY <1>1, <1>2, <1>3, <1>4, <1>5 DEF Next, HandlerStep

LEMMA SerialInvariant == Overlap = FALSE /\ Spec => []SerialInv
<1> SUFFICES ASSUME Overlap = FALSE
             PROVE  Spec => []SerialInv
  OBVIOUS
<1>1. Init => SerialInv
  BY DEF Init, Idle, SerialInv, OneBusy, SnapshotsCurrent
<1>2. TypeInv /\ SerialInv /\ [Next]_ingestVars => SerialInv'
  BY SerialInvStep
<1>3. QED
  BY <1>1, <1>2, TypeInvariant, PTL DEF Spec

-----------------------------------------------------------------------------
(* A session that commits over the row it loaded leaves the row it built.  *)
LEMMA MergedRowIdentity ==
  ASSUME NEW was \in CaseRow, NEW new \in CaseRow
  PROVE  MergedRow(was, new, was) = new
BY DEF MergedRow, Column, CaseRow

(* One step of the one-at-a-time router, seen from one dispute: nothing,   *)
(* the initial row, or an update of the row that is stored.                *)
LEMMA SerialStep ==
  ASSUME TypeInv, SerialInv, [Next]_ingestVars
  PROVE  \/ Quiet
         \/ \E e \in Events, first \in HistoryRow :
              /\ e.dispute \in Disputes
              /\ cases[e.dispute] = NoRow
              /\ NewCase(e) \in CaseRow
              /\ first = NewHistoryRow(e, "initial", FALSE, "none")
              /\ first.eventId = e.eventId
              /\ cases' = [cases EXCEPT ![e.dispute] = NewCase(e)]
              /\ history' = [history EXCEPT ![e.dispute] =
                               Append(history[e.dispute], first)]
         \/ \E e \in Events, row \in CaseRow, newRow \in CaseRow,
               entry \in HistoryRow :
              /\ e.dispute \in Disputes
              /\ cases[e.dispute] = row
              /\ ~AlreadyRecorded(e, history[e.dispute])
              /\ \/ Advances(e, row) /\ newRow = AdvancedRow(e, row)
                 \/ newRow = StaleRow(row)
                 \/ newRow = AmendedRow(e, row)
              /\ UpdateForm(e, row, newRow, entry)
              /\ entry.eventId = e.eventId
              /\ cases' = [cases EXCEPT ![e.dispute] = newRow]
              /\ history' = [history EXCEPT ![e.dispute] =
                               Append(history[e.dispute], entry)]
<1>1. ASSUME NEW e, NEW t, NEW r, NEW p
      PROVE  NewHistoryRow(e, t, r, p).eventId = e.eventId
  BY DEF NewHistoryRow
<1>2. ASSUME NEW h \in Handlers, Create(h)
      PROVE  \E e \in Events, first \in HistoryRow :
               /\ e.dispute \in Disputes
               /\ cases[e.dispute] = NoRow
               /\ NewCase(e) \in CaseRow
               /\ first = NewHistoryRow(e, "initial", FALSE, "none")
               /\ first.eventId = e.eventId
               /\ cases' = [cases EXCEPT ![e.dispute] = NewCase(e)]
               /\ history' = [history EXCEPT ![e.dispute] =
                                Append(history[e.dispute], first)]
  <2>1. PICK e \in Events, first \in HistoryRow :
          /\ e.dispute \in Disputes
          /\ NewCase(e) \in CaseRow
          /\ first = NewHistoryRow(e, "initial", FALSE, "none")
          /\ cases[e.dispute] = NoRow
          /\ cases' = [cases EXCEPT ![e.dispute] = NewCase(e)]
          /\ history' = [history EXCEPT ![e.dispute] =
                           Append(history[e.dispute], first)]
    BY <1>2, CreateEffect
  <2>2. first.eventId = e.eventId
    BY <1>1, <2>1, Zenon
  <2>3. QED
    BY <2>1, <2>2
<1>3. ASSUME NEW h \in Handlers, UpdateKinds(h)
      PROVE  \E e \in Events, row \in CaseRow, newRow \in CaseRow,
                entry \in HistoryRow :
               /\ e.dispute \in Disputes
               /\ cases[e.dispute] = row
               /\ ~AlreadyRecorded(e, history[e.dispute])
               /\ \/ Advances(e, row) /\ newRow = AdvancedRow(e, row)
                  \/ newRow = StaleRow(row)
                  \/ newRow = AmendedRow(e, row)
               /\ UpdateForm(e, row, newRow, entry)
               /\ entry.eventId = e.eventId
               /\ cases' = [cases EXCEPT ![e.dispute] = newRow]
               /\ history' = [history EXCEPT ![e.dispute] =
                                Append(history[e.dispute], entry)]
  <2>1. PICK e \in Events, row \in CaseRow, newRow \in CaseRow,
             entry \in HistoryRow : UpdateEffect(h, e, row, newRow, entry)
    BY <1>3, UpdateEffects
  <2>2. /\ e = handlers[h].event
        /\ row = handlers[h].row
        /\ handlers[h].pc = "ready"
        /\ e.dispute \in Disputes
        /\ ~Redelivery(e, row, handlers[h].trail)
        /\ cases' = [cases EXCEPT ![e.dispute] =
                       MergedRow(row, newRow, cases[e.dispute])]
        /\ history' = [history EXCEPT ![e.dispute] =
                         Append(history[e.dispute], entry)]
    BY <2>1, Zenon DEF UpdateEffect
  <2>3. UpdateForm(e, row, newRow, entry)
    BY <2>1, Zenon DEF UpdateEffect
  <2>4. cases[e.dispute] = row /\ handlers[h].trail = history[e.dispute]
    BY <2>2 DEF SerialInv, SnapshotsCurrent
  <2>5. MergedRow(row, newRow, cases[e.dispute]) = newRow
    BY <2>4, MergedRowIdentity
  <2>6. ~AlreadyRecorded(e, history[e.dispute])
    BY <2>2, <2>4, Zenon DEF Redelivery
  <2>7. entry.eventId = e.eventId
    <3>1. PICK t, r : entry = NewHistoryRow(e, t, r, row.status)
      BY <2>3, Zenon DEF UpdateForm
    <3>2. QED
      BY <3>1 DEF NewHistoryRow
  <2>8. \/ Advances(e, row) /\ newRow = AdvancedRow(e, row)
        \/ newRow = StaleRow(row)
        \/ newRow = AmendedRow(e, row)
    BY <2>3, Zenon DEF UpdateForm
  <2>9. QED
    BY <2>2, <2>3, <2>4, <2>5, <2>6, <2>7, <2>8
<1>4. QED
  BY <1>2, <1>3, StepKinds

-----------------------------------------------------------------------------
(* Served one at a time, a case never goes back to an earlier phase,       *)
(* whatever the order in which its events arrive (service.py:12-15).       *)
THEOREM NoRollback == Overlap = FALSE /\ Spec => NeverRollsBack
<1> SUFFICES ASSUME Overlap = FALSE
             PROVE  Spec => NeverRollsBack
  OBVIOUS
<1> DEFINE Keeps(d) ==
      cases[d] # NoRow => /\ cases'[d] # NoRow
                          /\ cases'[d].phase >= cases[d].phase
<1>1. ASSUME TypeInv, SerialInv, [Next]_ingestVars, NEW d \in Disputes
      PROVE  Keeps(d)
  <2>1. cases \in [Disputes -> CaseRow \union {NoRow}]
    BY <1>1 DEF TypeInv, TypeOK
  <2>2. cases[d] # NoRow => cases[d].phase \in Int
    BY <2>1 DEF CaseRow, Phases, Fraud, Arbitration
  <2>3. CASE Quiet
    BY <2>2, <2>3 DEF Quiet
  <2>4. ASSUME NEW e \in Events, e.dispute \in Disputes,
               cases[e.dispute] = NoRow, NewCase(e) \in CaseRow,
               cases' = [cases EXCEPT ![e.dispute] = NewCase(e)]
        PROVE  Keeps(d)
    BY <2>1, <2>2, <2>4
  <2>5. ASSUME NEW e \in Events, NEW row \in CaseRow, NEW newRow \in CaseRow,
               e.dispute \in Disputes, cases[e.dispute] = row,
               \/ Advances(e, row) /\ newRow = AdvancedRow(e, row)
               \/ newRow = StaleRow(row)
               \/ newRow = AmendedRow(e, row),
               cases' = [cases EXCEPT ![e.dispute] = newRow]
        PROVE  Keeps(d)
    <3>1. e.phase \in Int /\ row.phase \in Int
      BY EventsAssumption
         DEF EventFields, CaseRow, Phases, Fraud, Arbitration
    <3>2. newRow.phase >= row.phase
      BY <2>5, <3>1 DEF Advances, AdvancedRow, StaleRow, AmendedRow, CaseRow
    <3>3. QED
      BY <2>1, <2>2, <2>5, <3>2, NoRowAssumption
  <2>6. QED
    BY <1>1, <2>3, <2>4, <2>5, SerialStep
<1>2. TypeInv /\ SerialInv /\ [Next]_ingestVars
        => [\A d \in Disputes : Keeps(d)]_cases
  BY <1>1
<1>3. QED
  BY <1>2, TypeInvariant, SerialInvariant, PTL DEF Spec, NeverRollsBack

-----------------------------------------------------------------------------
(* Served one at a time, a webhook event id is recorded at most once in    *)
(* the trail of its dispute (service.py:274-278).  Every row of a trail    *)
(* that carries an id refuses the next event with that id, so the rows of  *)
(* one id never become two.                                                *)
THEOREM AppliedOnce == Overlap = FALSE /\ Spec => []EventIdAppliedOnce
<1> SUFFICES ASSUME Overlap = FALSE
             PROVE  Spec => []EventIdAppliedOnce
  OBVIOUS
<1> DEFINE Distinct(s) ==
      \A i, j \in DOMAIN s :
        s[i].eventId # "" /\ s[i].eventId = s[j].eventId => i = j
<1>1. Init => EventIdAppliedOnce
  <2>1. Init => \A d \in Disputes : DOMAIN history[d] = {}
    BY DEF Init
  <2>2. QED
    BY <2>1 DEF EventIdAppliedOnce
<1>2. ASSUME TypeInv, TrailWithCase, SerialInv, EventIdAppliedOnce,
             [Next]_ingestVars
      PROVE  EventIdAppliedOnce'
  <2>1. history \in [Disputes -> Seq(HistoryRow)]
    BY <1>2 DEF TypeInv, TypeOK
  <2>2. \A d \in Disputes : Distinct(history[d])
    BY <1>2 DEF EventIdAppliedOnce
  <2>3. ASSUME NEW d \in Disputes, NEW entry \in HistoryRow,
               \A i \in DOMAIN history[d] :
                 entry.eventId # "" => history[d][i].eventId # entry.eventId
        PROVE  Distinct(Append(history[d], entry))
    <3> DEFINE s == history[d]
               longer == Append(s, entry)
    <3>1. /\ Len(s) \in Nat
          /\ DOMAIN s = 1..Len(s)
          /\ DOMAIN longer = 1..(Len(s) + 1)
          /\ \A i \in DOMAIN s : longer[i] = s[i]
          /\ longer[Len(s) + 1] = entry
      BY <2>1, AppendFacts
    <3>2. \A i \in DOMAIN longer : i \in DOMAIN s \/ i = Len(s) + 1
      BY <3>1
    <3>3. ASSUME NEW i \in DOMAIN longer, NEW j \in DOMAIN longer,
                 longer[i].eventId # "", longer[i].eventId = longer[j].eventId
          PROVE  i = j
      <4> HIDE DEF longer
      <4>1. CASE i \in DOMAIN s /\ j \in DOMAIN s
        BY <2>2, <3>1, <3>3, <4>1
      <4>2. CASE i = Len(s) + 1 \/ j = Len(s) + 1
        BY <2>3, <3>1, <3>2, <3>3, <4>2
      <4>3. QED
        BY <3>2, <4>1, <4>2
    <3>4. QED
      BY <3>3
  <2>4. CASE Quiet
    BY <1>2, <2>4 DEF Quiet, EventIdAppliedOnce
  <2>5. ASSUME NEW d \in Disputes, NEW entry \in HistoryRow,
               \A i \in DOMAIN history[d] :
                 entry.eventId # "" => history[d][i].eventId # entry.eventId,
               history' = [history EXCEPT ![d] = Append(history[d], entry)]
        PROVE  EventIdAppliedOnce'
    <3>1. \A c \in Disputes : Distinct(history'[c])
      BY <2>1, <2>2, <2>3, <2>5
    <3>2. QED
      BY <3>1 DEF EventIdAppliedOnce
  <2>6. ASSUME NEW e \in Events, NEW first \in HistoryRow,
               e.dispute \in Disputes,
               cases[e.dispute] = NoRow,
               history' = [history EXCEPT ![e.dispute] =
                             Append(history[e.dispute], first)]
        PROVE  EventIdAppliedOnce'
    <3>1. history[e.dispute] = <<>>
      BY <1>2, <2>6 DEF TrailWithCase
    <3>2. DOMAIN history[e.dispute] = {}
      BY <3>1
    <3>3. QED
      BY <2>5, <2>6, <3>2
  <2>7. ASSUME NEW e \in Events, NEW entry \in HistoryRow,
               e.dispute \in Disputes,
               ~AlreadyRecorded(e, history[e.dispute]),
               entry.eventId = e.eventId,
               history' = [history EXCEPT ![e.dispute] =
                             Append(history[e.dispute], entry)]
        PROVE  EventIdAppliedOnce'
    BY <2>5, <2>7 DEF AlreadyRecorded
  <2>8. QED
    BY <1>2, <2>4, <2>6, <2>7, SerialStep
<1>3. QED
  BY <1>1, <1>2, TypeInvariant, TrailInvariant, SerialInvariant, PTL DEF Spec

-----------------------------------------------------------------------------
(* Served one at a time, the handlers implement the atomic ledger: a first *)
(* contact opens a standing, a later phase escalates it, any other         *)
(* accepted event is a note, and nothing else moves it.                    *)
Standings == [d \in Known |-> LedgerOf(d)]

LEMMA LedgerVocabulary ==
  /\ Ledger!Phases = Phases
  /\ Ledger!Terminal = Terminal
  /\ Ledger!Statuses = Statuses
BY DEF Ledger!Phases, Phases, Ledger!Fraud, Fraud, Ledger!Arbitration,
       Arbitration, Ledger!Terminal, Terminal, Ledger!Statuses, Statuses,
       Ledger!Unresolved, Unresolved

(* The actions of the ledger, read on the standings of the router.         *)
LEMMA OpenForm ==
  ASSUME NEW d,
         d \notin DOMAIN Standings,
         \E p \in Phases, s \in Statuses :
           Standings' = [c \in DOMAIN Standings \union {d} |->
             IF c = d
               THEN [phase |-> p, status |-> s, reopens |-> 0, entries |-> 1]
               ELSE Standings[c]]
  PROVE  Ledger!Open(d)
BY LedgerVocabulary, Zenon DEF Ledger!Open, Standings

LEMMA EscalateForm ==
  ASSUME NEW d,
         d \in DOMAIN Standings,
         \E p \in Phases, s \in Statuses :
           /\ p > Standings[d].phase
           /\ Standings' = [Standings EXCEPT ![d] =
                [phase   |-> p,
                 status  |-> s,
                 reopens |-> IF Standings[d].status \in Terminal
                               THEN Standings[d].reopens + 1
                               ELSE Standings[d].reopens,
                 entries |-> Standings[d].entries + 1]]
  PROVE  Ledger!Escalate(d)
BY LedgerVocabulary, Zenon DEF Ledger!Escalate, Standings

LEMMA NoteForm ==
  ASSUME NEW d,
         d \in DOMAIN Standings,
         \E s \in Statuses :
           Standings' = [Standings EXCEPT ![d] =
             [phase   |-> Standings[d].phase,
              status  |-> s,
              reopens |-> Standings[d].reopens,
              entries |-> Standings[d].entries + 1]]
  PROVE  Ledger!Note(d)
BY LedgerVocabulary, Zenon DEF Ledger!Note, Standings

LEMMA StandingsStep ==
  ASSUME TypeInv, TrailWithCase, SerialInv, [Next]_ingestVars
  PROVE  [Ledger!Next]_Standings
<1>1. /\ cases \in [Disputes -> CaseRow \union {NoRow}]
      /\ history \in [Disputes -> Seq(HistoryRow)]
  BY DEF TypeInv, TypeOK
<1>2. CASE Quiet
  BY <1>2 DEF Quiet, Standings, Known, LedgerOf
<1>3. ASSUME NEW e \in Events, NEW first \in HistoryRow,
             e.dispute \in Disputes,
             cases[e.dispute] = NoRow,
             NewCase(e) \in CaseRow,
             cases' = [cases EXCEPT ![e.dispute] = NewCase(e)],
             history' = [history EXCEPT ![e.dispute] =
                           Append(history[e.dispute], first)]
      PROVE  Ledger!Open(e.dispute)
  <2> DEFINE d == e.dispute
  <2>1. history[d] = <<>>
    BY <1>3 DEF TrailWithCase
  <2>2. Len(Append(history[d], first)) = 1
    BY <2>1
  <2>3. /\ NewCase(e) # NoRow
        /\ NewCase(e).phase \in Phases /\ NewCase(e).status \in Statuses
        /\ NewCase(e).reopenCount = 0
    BY <1>3, NoRowAssumption DEF CaseRow, NewCase
  <2>4. Known' = Known \union {d} /\ d \notin Known
    BY <1>1, <1>3, <2>3 DEF Known
  <2>5. LedgerOf(d)' = [phase |-> NewCase(e).phase, status |-> NewCase(e).status,
                        reopens |-> 0, entries |-> 1]
    BY <1>1, <1>3, <2>2, <2>3 DEF LedgerOf
  <2>6. \A c \in Known : LedgerOf(c)' = LedgerOf(c)
    BY <1>1, <1>3, <2>4 DEF LedgerOf, Known
  <2>7. Standings' = [c \in Known \union {d} |->
                        IF c = d
                          THEN [phase |-> NewCase(e).phase,
                                status |-> NewCase(e).status,
                                reopens |-> 0, entries |-> 1]
                          ELSE Standings[c]]
    BY <2>4, <2>5, <2>6 DEF Standings
  <2>8. d \notin DOMAIN Standings /\ DOMAIN Standings = Known
    BY <2>4 DEF Standings
  <2>9. QED
    BY <2>3, <2>7, <2>8, OpenForm
<1>4. ASSUME NEW e \in Events, NEW row \in CaseRow, NEW newRow \in CaseRow,
             NEW entry \in HistoryRow,
             e.dispute \in Disputes, cases[e.dispute] = row,
             \/ Advances(e, row) /\ newRow = AdvancedRow(e, row)
             \/ newRow = StaleRow(row)
             \/ newRow = AmendedRow(e, row),
             cases' = [cases EXCEPT ![e.dispute] = newRow],
             history' = [history EXCEPT ![e.dispute] =
                           Append(history[e.dispute], entry)]
      PROVE  Ledger!Escalate(e.dispute) \/ Ledger!Note(e.dispute)
  <2> DEFINE d == e.dispute
             after == [phase |-> newRow.phase, status |-> newRow.status,
                       reopens |-> newRow.reopenCount,
                       entries |-> Len(history[d]) + 1]
  <2>1. Known' = Known /\ d \in Known
    BY <1>1, <1>4, NoRowAssumption DEF Known
  <2>2. Len(Append(history[d], entry)) = Len(history[d]) + 1
    BY <1>1, <1>4, AppendFacts
  <2>3. LedgerOf(d)' = after
    BY <1>1, <1>4, <2>2 DEF LedgerOf
  <2>4. \A c \in Known \ {d} : LedgerOf(c)' = LedgerOf(c)
    BY <1>1, <1>4 DEF LedgerOf, Known
  <2>5. LedgerOf(d) = [phase |-> row.phase, status |-> row.status,
                       reopens |-> row.reopenCount,
                       entries |-> Len(history[d])]
    BY <1>4 DEF LedgerOf
  <2>6. Standings' = [Standings EXCEPT ![d] = after]
    BY <2>1, <2>3, <2>4 DEF Standings
  <2>7. newRow.phase \in Phases /\ newRow.status \in Statuses
    BY <1>4 DEF CaseRow
  <2>8. Standings[d] = LedgerOf(d) /\ d \in DOMAIN Standings
    BY <2>1 DEF Standings
  <2>9. CASE Advances(e, row) /\ newRow = AdvancedRow(e, row)
    <3>1. /\ newRow.phase > row.phase
          /\ newRow.reopenCount = IF row.status \in Terminal
                                    THEN row.reopenCount + 1
                                    ELSE row.reopenCount
      BY <2>9 DEF Advances, AdvancedRow, IsReopen
    <3>2. after = [phase   |-> newRow.phase,
                   status  |-> newRow.status,
                   reopens |-> IF Standings[d].status \in Terminal
                                 THEN Standings[d].reopens + 1
                                 ELSE Standings[d].reopens,
                   entries |-> Standings[d].entries + 1]
      BY <2>5, <2>8, <3>1
    <3>3. newRow.phase > Standings[d].phase
      BY <2>5, <2>8, <3>1
    <3> HIDE DEF after
    <3>4. Ledger!Escalate(d)
      BY <2>6, <2>7, <2>8, <3>2, <3>3, EscalateForm
    <3>5. QED
      BY <3>4
  <2>10. CASE newRow = StaleRow(row) \/ newRow = AmendedRow(e, row)
    <3>1. newRow.phase = row.phase /\ newRow.reopenCount = row.reopenCount
      BY <2>10 DEF StaleRow, AmendedRow, CaseRow
    <3>2. after = [phase   |-> Standings[d].phase,
                   status  |-> newRow.status,
                   reopens |-> Standings[d].reopens,
                   entries |-> Standings[d].entries + 1]
      BY <2>5, <2>8, <3>1
    <3> HIDE DEF after
    <3>3. Ledger!Note(d)
      BY <2>6, <2>7, <2>8, <3>2, NoteForm
    <3>4. QED
      BY <3>3
  <2>11. QED
    BY <1>4, <2>9, <2>10
<1>5. QED
  BY <1>2, <1>3, <1>4, SerialStep DEF Ledger!Next

(* Served one at a time, the three steps of a webhook are one step of the  *)
(* abstract ledger and no more: its commit opens, escalates or notes the   *)
(* dispute, or leaves it alone (service.py:1-22, 231-362).                 *)
THEOREM RefinesLedger == Overlap = FALSE /\ Spec => ImplementsLedger
<1> SUFFICES ASSUME Overlap = FALSE
             PROVE  Spec => ImplementsLedger
  OBVIOUS
<1>1. Init => Ledger!Init
  <2>1. Init => Known = {}
    BY DEF Init, Known
  <2>2. QED
    BY <2>1 DEF Ledger!Init
<1>2. TypeInv /\ TrailWithCase /\ SerialInv /\ [Next]_ingestVars
        => [Ledger!Next]_Standings
  BY StandingsStep
<1>3. QED
  BY <1>1, <1>2, TypeInvariant, TrailInvariant, SerialInvariant, PTL
     DEF Spec, ImplementsLedger, Ledger!Spec, Standings

-----------------------------------------------------------------------------
(* What a trail says of its case: the columns of its newest row that was   *)
(* not out of order, at a phase no row of it is beyond, and exact counts.  *)
AppliedOf(trail) ==
  {i \in DOMAIN trail : trail[i].transition # "out_of_order"}

Explains(trail, row) ==
  /\ \E i \in AppliedOf(trail) :
       /\ \A j \in AppliedOf(trail) : j <= i
       /\ row.phase = trail[i].phase
       /\ row.status = trail[i].status
       /\ row.respondBy = trail[i].respondBy
  /\ \A i \in DOMAIN trail : trail[i].phase <= row.phase
  /\ row.reopenCount = Cardinality(FlaggedRows(trail))
  /\ row.eventCount = Len(trail)

(* A row that is applied becomes the one the case is read from; one that   *)
(* is out of order leaves the case to the row it was read from.            *)
LEMMA AppliedAppend ==
  ASSUME NEW trail \in Seq(HistoryRow), NEW entry \in HistoryRow,
         NEW row \in CaseRow, NEW newRow \in CaseRow, Explains(trail, row),
         newRow.phase >= row.phase, entry.phase <= newRow.phase,
         IF entry.transition = "out_of_order"
           THEN /\ newRow.phase = row.phase
                /\ newRow.status = row.status
                /\ newRow.respondBy = row.respondBy
           ELSE /\ newRow.phase = entry.phase
                /\ newRow.status = entry.status
                /\ newRow.respondBy = entry.respondBy,
         newRow.reopenCount = IF entry.isReopen THEN row.reopenCount + 1
                                                ELSE row.reopenCount,
         newRow.eventCount = row.eventCount + 1
  PROVE  Explains(Append(trail, entry), newRow)
<1> DEFINE n == Len(trail)
           longer == Append(trail, entry)
<1>1. /\ n \in Nat
      /\ DOMAIN trail = 1..n
      /\ DOMAIN longer = 1..(n + 1)
      /\ Len(longer) = n + 1
      /\ \A i \in 1..n : longer[i] = trail[i]
      /\ longer[n + 1] = entry
  BY AppendFacts
<1>2. \A i : i \in 1..(n + 1) <=> i \in 1..n \/ i = n + 1
  BY <1>1
<1>3. /\ newRow.reopenCount = Cardinality(FlaggedRows(longer))
      /\ newRow.eventCount = Len(longer)
  BY <1>1, FlaggedRowsAppend DEF Explains
<1>4. \A i \in 1..n : trail[i] \in HistoryRow
  BY <1>1
<1> HIDE DEF n, longer
<1>5. \A i \in DOMAIN longer : longer[i].phase <= newRow.phase
  <2>0. ASSUME NEW r, r \in CaseRow \/ r \in HistoryRow
        PROVE  r.phase \in Int
    BY <2>0 DEF CaseRow, HistoryRow, Phases, Fraud, Arbitration
  <2>1. /\ row.phase \in Int /\ newRow.phase \in Int
        /\ \A i \in 1..n : trail[i].phase \in Int
    BY <1>4, <2>0
  <2>2. \A i \in 1..n : trail[i].phase <= row.phase
    BY <1>1 DEF Explains
  <2>3. \A i \in 1..n : longer[i].phase <= newRow.phase
    BY <1>1, <2>1, <2>2
  <2>4. QED
    BY <1>1, <1>2, <2>3
<1>6. \E i \in AppliedOf(longer) :
        /\ \A j \in AppliedOf(longer) : j <= i
        /\ newRow.phase = longer[i].phase
        /\ newRow.status = longer[i].status
        /\ newRow.respondBy = longer[i].respondBy
  <2>1. CASE entry.transition = "out_of_order"
    <3>1. AppliedOf(longer) = AppliedOf(trail)
      BY <1>1, <1>2, <2>1 DEF AppliedOf
    <3>2. PICK i \in AppliedOf(trail) :
            /\ \A j \in AppliedOf(trail) : j <= i
            /\ row.phase = trail[i].phase
            /\ row.status = trail[i].status
            /\ row.respondBy = trail[i].respondBy
      BY DEF Explains
    <3>3. longer[i] = trail[i]
      BY <1>1 DEF AppliedOf
    <3>4. QED
      BY <2>1, <3>1, <3>2, <3>3
  <2>2. CASE entry.transition # "out_of_order"
    <3>1. n + 1 \in AppliedOf(longer)
      BY <1>1, <1>2, <2>2 DEF AppliedOf
    <3>2. \A j \in AppliedOf(longer) : j <= n + 1
      BY <1>1 DEF AppliedOf
    <3>3. QED
      BY <1>1, <2>2, <3>1, <3>2
  <2>3. QED
    BY <2>1, <2>2
<1>7. QED
  BY <1>3, <1>5, <1>6 DEF Explains, longer

LEMMA ExplainedFirst ==
  ASSUME NEW e \in EventFields, NEW first \in HistoryRow,
         first = NewHistoryRow(e, "initial", FALSE, "none")
  PROVE  Explains(Append(<<>>, first), NewCase(e))
<1> DEFINE trail == Append(<<>>, first)
<1>1. trail = <<first>> /\ DOMAIN trail = {1} /\ Len(trail) = 1 /\ trail[1] = first
  OBVIOUS
<1>2. /\ first.phase = e.phase /\ first.status = e.status
      /\ first.respondBy = e.respondBy /\ first.transition = "initial"
      /\ ~first.isReopen
  BY DEF NewHistoryRow
<1>3. /\ NewCase(e).phase = e.phase /\ NewCase(e).status = e.status
      /\ NewCase(e).respondBy = e.respondBy /\ NewCase(e).reopenCount = 0
      /\ NewCase(e).eventCount = 1
  BY DEF NewCase
<1>4. e.phase \in Int
  BY DEF EventFields, Phases, Fraud, Arbitration
<1> HIDE DEF trail
<1>5. FlaggedRows(trail) = {} /\ AppliedOf(trail) = {1}
  BY <1>1, <1>2 DEF FlaggedRows, AppliedOf
<1>6. /\ 1 \in AppliedOf(trail) /\ \A j \in AppliedOf(trail) : j <= 1
      /\ NewCase(e).phase = trail[1].phase
      /\ NewCase(e).status = trail[1].status
      /\ NewCase(e).respondBy = trail[1].respondBy
      /\ \A i \in DOMAIN trail : trail[i].phase <= NewCase(e).phase
  <2>1. /\ NewCase(e).phase = trail[1].phase
        /\ NewCase(e).status = trail[1].status
        /\ NewCase(e).respondBy = trail[1].respondBy
    BY <1>1, <1>2, <1>3
  <2>2. \A i \in DOMAIN trail : i = 1
    BY <1>1
  <2>3. trail[1].phase <= NewCase(e).phase
    <3>1. NewCase(e).phase = e.phase
      BY <1>3
    <3>2. trail[1].phase = e.phase
      BY <2>1, <3>1, Zenon
    <3>3. \A p \in Int : p <= p
      OBVIOUS
    <3>4. QED
      BY <1>4, <3>1, <3>2, <3>3, Zenon
  <2>4. QED
    BY <1>5, <2>1, <2>2, <2>3
<1>7. NewCase(e).reopenCount = Cardinality(FlaggedRows(trail))
  BY <1>3, <1>5, FS_EmptySet
<1>8. QED
  BY <1>1, <1>3, <1>6, <1>7 DEF Explains, trail

LEMMA ExplainedUpdate ==
  ASSUME NEW e \in EventFields, NEW row \in CaseRow, NEW newRow \in CaseRow,
         NEW entry \in HistoryRow, NEW trail \in Seq(HistoryRow),
         UpdateForm(e, row, newRow, entry), Explains(trail, row)
  PROVE  Explains(Append(trail, entry), newRow)
<1>1. ASSUME NEW t, NEW r, entry = NewHistoryRow(e, t, r, row.status)
      PROVE  /\ entry.phase = e.phase
             /\ entry.status = e.status
             /\ entry.respondBy = e.respondBy
             /\ entry.isReopen = r
             /\ entry.transition = t
  BY <1>1 DEF NewHistoryRow
<1>2. e.phase \in Int /\ row.phase \in Int
  BY DEF EventFields, CaseRow, Phases, Fraud, Arbitration
<1>3. CASE /\ Advances(e, row)
           /\ newRow = AdvancedRow(e, row)
           /\ entry = NewHistoryRow(e, "phase_advance", IsReopen(row),
                                    row.status)
  <2>1. /\ entry.phase = e.phase /\ entry.status = e.status
        /\ entry.respondBy = e.respondBy
        /\ entry.isReopen = IsReopen(row)
        /\ entry.transition = "phase_advance"
    BY <1>1, <1>3, Zenon
  <2>2. /\ newRow.phase = e.phase /\ newRow.status = e.status
        /\ newRow.respondBy = e.respondBy
        /\ newRow.eventCount = row.eventCount + 1
        /\ newRow.reopenCount = IF IsReopen(row) THEN row.reopenCount + 1
                                                 ELSE row.reopenCount
    BY <1>3 DEF AdvancedRow
  <2>3. newRow.phase >= row.phase /\ entry.phase <= newRow.phase
    BY <1>2, <1>3, <2>1, <2>2 DEF Advances
  <2>4. QED
    BY <2>1, <2>2, <2>3, AppliedAppend
<1>4. CASE /\ ~Advances(e, row)
           /\ newRow = StaleRow(row)
           /\ entry = NewHistoryRow(e, "out_of_order", FALSE, row.status)
  <2>1. /\ entry.phase = e.phase /\ entry.isReopen = FALSE
        /\ entry.transition = "out_of_order"
    BY <1>1, <1>4, Zenon
  <2>2. /\ newRow.phase = row.phase /\ newRow.status = row.status
        /\ newRow.respondBy = row.respondBy
        /\ newRow.eventCount = row.eventCount + 1
        /\ newRow.reopenCount = row.reopenCount
    BY <1>4 DEF StaleRow, CaseRow
  <2>3. newRow.phase >= row.phase /\ entry.phase <= newRow.phase
    <3>1. ~(e.phase > row.phase)
      BY <1>4, Zenon DEF Advances
    <3> QED
      BY <1>2, <2>1, <2>2, <3>1
  <2>4. QED
    BY <2>1, <2>2, <2>3, AppliedAppend
<1>5. CASE /\ e.phase = row.phase
           /\ newRow = AmendedRow(e, row)
           /\ entry = NewHistoryRow(e, "status_change", FALSE, row.status)
  <2>1. /\ entry.phase = e.phase /\ entry.status = e.status
        /\ entry.respondBy = e.respondBy /\ entry.isReopen = FALSE
        /\ entry.transition = "status_change"
    BY <1>1, <1>5, Zenon
  <2>2. /\ newRow.phase = row.phase /\ newRow.status = e.status
        /\ newRow.respondBy = e.respondBy
        /\ newRow.eventCount = row.eventCount + 1
        /\ newRow.reopenCount = row.reopenCount
    BY <1>5 DEF AmendedRow
  <2>3. newRow.phase >= row.phase /\ entry.phase <= newRow.phase
    <3>1. e.phase = row.phase
      BY <1>5
    <3> QED
      BY <1>2, <2>1, <2>2, <3>1
  <2>4. QED
    BY <1>5, <2>1, <2>2, <2>3, AppliedAppend
<1>6. QED
  BY <1>3, <1>4, <1>5, Zenon DEF UpdateForm

Explained == \A d \in Disputes : cases[d] # NoRow => Explains(history[d], cases[d])

LEMMA ExplainedStep ==
  ASSUME TypeInv, TrailWithCase, SerialInv, Explained, [Next]_ingestVars
  PROVE  Explained'
<1>1. /\ cases \in [Disputes -> CaseRow \union {NoRow}]
      /\ history \in [Disputes -> Seq(HistoryRow)]
      /\ Events \subseteq EventFields
  BY EventsAssumption DEF TypeInv, TypeOK
<1>2. CASE Quiet
  BY <1>2 DEF Quiet, Explained
<1>3. ASSUME NEW e \in Events, NEW first \in HistoryRow,
             e.dispute \in Disputes,
             cases[e.dispute] = NoRow,
             first = NewHistoryRow(e, "initial", FALSE, "none"),
             cases' = [cases EXCEPT ![e.dispute] = NewCase(e)],
             history' = [history EXCEPT ![e.dispute] =
                           Append(history[e.dispute], first)]
      PROVE  Explained'
  <2>1. history[e.dispute] = <<>>
    BY <1>3 DEF TrailWithCase
  <2>2. Explains(Append(history[e.dispute], first), NewCase(e))
    BY <1>1, <1>3, <2>1, ExplainedFirst
  <2>3. QED
    BY <1>1, <1>3, <2>2 DEF Explained
<1>4. ASSUME NEW e \in Events, NEW row \in CaseRow, NEW newRow \in CaseRow,
             NEW entry \in HistoryRow,
             e.dispute \in Disputes, cases[e.dispute] = row,
             UpdateForm(e, row, newRow, entry),
             cases' = [cases EXCEPT ![e.dispute] = newRow],
             history' = [history EXCEPT ![e.dispute] =
                           Append(history[e.dispute], entry)]
      PROVE  Explained'
  <2>1. Explains(history[e.dispute], row)
    BY <1>4, NoRowAssumption DEF Explained
  <2>2. Explains(Append(history[e.dispute], entry), newRow)
    BY <1>1, <1>4, <2>1, ExplainedUpdate
  <2>3. QED
    BY <1>1, <1>4, <2>2 DEF Explained
<1>5. QED
  BY <1>2, <1>3, <1>4, SerialStep

(* Served one at a time, the case row is exactly what its trail says       *)
(* (service.py:296-362): a stale event never reaches the columns, an       *)
(* applied one reaches all of them, and no count is lost.                  *)
THEOREM TrailExplains == Overlap = FALSE /\ Spec => []TrailExplainsCase
<1> SUFFICES ASSUME Overlap = FALSE
             PROVE  Spec => []TrailExplainsCase
  OBVIOUS
<1>1. Init => Explained
  BY DEF Init, Explained
<1>2. TypeInv /\ TrailWithCase /\ SerialInv /\ Explained /\ [Next]_ingestVars
        => Explained'
  BY ExplainedStep
<1>3. Explained => TrailExplainsCase
  BY DEF Explained, Explains, AppliedOf, FlaggedRows, TrailExplainsCase,
         AppliedRows, ReopenRows
<1>4. QED
  BY <1>1, <1>2, <1>3, TypeInvariant, TrailInvariant, SerialInvariant, PTL
     DEF Spec

=============================================================================
