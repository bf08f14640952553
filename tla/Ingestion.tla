------------------------------ MODULE Ingestion ------------------------------
(***************************************************************************)
(* The dispute ingestion router (src/ingestion/service.py): webhook events *)
(* become one DisputeCase row per dispute and an append-only trail of      *)
(* DisputePhaseHistory rows.                                               *)
(*                                                                         *)
(* The HTTP handlers run in a thread pool, and the session reads in        *)
(* autocommit: a handler first loads the case row, then the phase history, *)
(* decides on those two snapshots, and writes both tables in one commit.   *)
(* The three steps of one handler interleave with those of the others when *)
(* Overlap is TRUE; when it is FALSE the requests are served one at a      *)
(* time.  The sender delivers any event any number of times in any order.  *)
(***************************************************************************)
EXTENDS DisputeTypes, FiniteSets

CONSTANTS
  Disputes,    \* dispute ids
  Events,      \* the webhook events the sender may deliver
  Handlers,    \* worker threads serving POST /webhook/dispute-created
  Overlap,     \* may two handlers be in flight at once?
  Watched,     \* the events whose answers the sender remembers
  MaxHistory,  \* bound: no delivery starts once a trail has this many rows
  NoRow        \* "no such row", and "no event" in an idle handler

(* An event as extract_dispute_fields returns it.  eventId "" and stamp 0  *)
(* are the absent (falsy) webhook_event_id and event_created_at.           *)
EventFields ==
  [dispute: Disputes, eventId: STRING, phase: Phases, status: Statuses,
   respondBy: Nat, stamp: Nat, code: STRING]

(* The columns of a DisputeCase that the router owns and that a later      *)
(* decision reads.                                                         *)
CaseRow ==
  [phase: Phases, status: Statuses, respondBy: Nat, category: Categories,
   reopenCount: Nat, eventCount: Nat]

Transitions == {"initial", "phase_advance", "status_change", "out_of_order"}

HistoryRow ==
  [phase: Phases, status: Statuses, respondBy: Nat, transition: Transitions,
   isReopen: BOOLEAN, prevStatus: Statuses \union {"none"},
   eventId: STRING, stamp: Nat]

ASSUME EventsAssumption == Events \subseteq EventFields
ASSUME OverlapAssumption == Overlap \in BOOLEAN
ASSUME BoundAssumption == MaxHistory \in Nat
ASSUME NoRowAssumption == NoRow \notin CaseRow /\ NoRow \notin Events

VARIABLES
  cases,     \* dispute_cases: dispute id -> row
  history,   \* dispute_phase_history: dispute id -> rows in seq order
  handlers,  \* what each handler has in hand
  acked      \* watched events the sender has had a 200 for (no table)

ingestVars == <<cases, history, handlers, acked>>

-----------------------------------------------------------------------------
Idle == [pc |-> "idle", event |-> NoRow, row |-> NoRow, trail |-> <<>>]

HandlerState ==
  [pc: {"idle", "loaded", "ready"}, event: Events \union {NoRow},
   row: CaseRow \union {NoRow}, trail: Seq(HistoryRow)]

TypeOK ==
  /\ cases \in [Disputes -> CaseRow \union {NoRow}]
  /\ history \in [Disputes -> Seq(HistoryRow)]
  /\ handlers \in [Handlers -> HandlerState]
  /\ acked \subseteq Events

Init ==
  /\ cases = [d \in Disputes |-> NoRow]
  /\ history = [d \in Disputes |-> <<>>]
  /\ handlers = [h \in Handlers |-> Idle]
  /\ acked = {}

-----------------------------------------------------------------------------
(* The decisions of ingest_dispute_event, on the snapshots it loaded.      *)

(* Each definition named "...Mutant" is a variant of the one after it, as a *)
(* plausible bug would have it; no action uses it.  This one looks for the *)
(* event id in the newest row only.                                        *)
AlreadyRecordedMutant(e, trail) ==
  /\ e.eventId # "" /\ trail # <<>>
  /\ trail[Len(trail)].eventId = e.eventId

AlreadyRecorded(e, trail) ==
  /\ e.eventId # ""
  /\ \E i \in DOMAIN trail : trail[i].eventId = e.eventId

SameState(e, row) ==
  /\ e.phase = row.phase
  /\ e.status = row.status
  /\ e.respondBy = row.respondBy

Redelivery(e, row, trail) == AlreadyRecorded(e, trail) \/ SameState(e, row)

LooksOlder(e, trail) ==
  e.stamp # 0 /\ \E i \in DOMAIN trail : e.stamp < trail[i].stamp

(* Any other phase counts as an advance.                                   *)
AdvancesMutant(e, row) == e.phase # row.phase
Advances(e, row) == e.phase > row.phase

(* Whatever no one is reviewing counts as resolved.                        *)
IsReopenMutant(row) == row.status # "under_review"
IsReopen(row) == row.status \in Terminal

NewCase(e) ==
  [phase |-> e.phase, status |-> e.status, respondBy |-> e.respondBy,
   category |-> Classify(e.code), reopenCount |-> 0, eventCount |-> 1]

NewHistoryRow(e, transition, isReopen, prevStatus) ==
  [phase |-> e.phase, status |-> e.status, respondBy |-> e.respondBy,
   transition |-> transition, isReopen |-> isReopen,
   prevStatus |-> prevStatus, eventId |-> e.eventId, stamp |-> e.stamp]

(* The reopen is not counted; or every advance is counted as one.          *)
AdvancedRowUncountedMutant(e, row) ==
  [NewCase(e) EXCEPT !.reopenCount = row.reopenCount,
                     !.eventCount = row.eventCount + 1]

AdvancedRowMutant(e, row) ==
  [NewCase(e) EXCEPT !.reopenCount = row.reopenCount + 1,
                     !.eventCount = row.eventCount + 1]

AdvancedRow(e, row) ==
  [phase |-> e.phase, status |-> e.status, respondBy |-> e.respondBy,
   category |-> Classify(e.code),
   reopenCount |-> IF IsReopen(row) THEN row.reopenCount + 1
                                    ELSE row.reopenCount,
   eventCount |-> row.eventCount + 1]

StaleRow(row) == [row EXCEPT !.eventCount = row.eventCount + 1]

(* The amendment forgets the deadline.                                     *)
AmendedRowMutant(e, row) ==
  [row EXCEPT !.status = e.status, !.eventCount = row.eventCount + 1]

AmendedRow(e, row) ==
  [phase |-> row.phase, status |-> e.status, respondBy |-> e.respondBy,
   category |-> row.category, reopenCount |-> row.reopenCount,
   eventCount |-> row.eventCount + 1]

(* The case row after a session that loaded `was` and left `new` commits.  *)
MergedRow(was, new, now) ==
  [phase       |-> Column(was.phase, new.phase, now.phase),
   status      |-> Column(was.status, new.status, now.status),
   respondBy   |-> Column(was.respondBy, new.respondBy, now.respondBy),
   category    |-> Column(was.category, new.category, now.category),
   reopenCount |-> Column(was.reopenCount, new.reopenCount, now.reopenCount),
   eventCount  |-> Column(was.eventCount, new.eventCount, now.eventCount)]

-----------------------------------------------------------------------------
AllIdle == \A h \in Handlers : handlers[h].pc = "idle"

Release(h) == handlers' = [handlers EXCEPT ![h] = Idle]

Acknowledge(h) ==
  /\ Release(h)
  /\ acked' = acked \union ({handlers[h].event} \intersect Watched)

(* A delivery: the handler parses the payload and loads the case row.      *)
Receive(h, e) ==
  /\ handlers[h].pc = "idle"
  /\ Overlap \/ AllIdle
  /\ Len(history[e.dispute]) < MaxHistory
  /\ handlers' = [handlers EXCEPT ![h] =
       [pc |-> "loaded", event |-> e, row |-> cases[e.dispute],
        trail |-> <<>>]]
  /\ UNCHANGED <<cases, history, acked>>

(* No case row was loaded: insert it with the initial history row.         *)
Create(h) ==
  LET e == handlers[h].event IN
  /\ handlers[h].pc = "loaded"
  /\ handlers[h].row = NoRow
  /\ cases[e.dispute] = NoRow
  /\ cases' = [cases EXCEPT ![e.dispute] = NewCase(e)]
  /\ history' = [history EXCEPT ![e.dispute] =
       Append(@, NewHistoryRow(e, "initial", FALSE, "none"))]
  /\ Acknowledge(h)

(* The same insert when another handler has created the row since: the     *)
(* primary key refuses it, the session rolls back, the sender gets a 500.  *)
CreateConflict(h) ==
  /\ handlers[h].pc = "loaded"
  /\ handlers[h].row = NoRow
  /\ cases[handlers[h].event.dispute] # NoRow
  /\ Release(h)
  /\ UNCHANGED <<cases, history, acked>>

(* A case row was loaded: load its phase history, with a second SELECT.    *)
LoadHistory(h) ==
  /\ handlers[h].pc = "loaded"
  /\ handlers[h].row # NoRow
  /\ handlers' = [handlers EXCEPT
       ![h].pc = "ready",
       ![h].trail = history[handlers[h].event.dispute]]
  /\ UNCHANGED <<cases, history, acked>>

(* The new history row replaces the newest one.                            *)
CommitUpdateMutant(h, newRow, historyRow) ==
  LET d == handlers[h].event.dispute IN
  /\ cases' = [cases EXCEPT ![d] = MergedRow(handlers[h].row, newRow, @)]
  /\ history' = [history EXCEPT ![d] =
       Append(SubSeq(@, 1, Len(@) - 1), historyRow)]
  /\ Acknowledge(h)

(* The one commit of the update paths: the changed columns of the case row *)
(* and one appended history row.                                           *)
CommitUpdate(h, newRow, historyRow) ==
  LET d == handlers[h].event.dispute IN
  /\ cases' = [cases EXCEPT ![d] = MergedRow(handlers[h].row, newRow, @)]
  /\ history' = [history EXCEPT ![d] = Append(@, historyRow)]
  /\ Acknowledge(h)

(* Steps 1 and 2: a redelivery changes nothing and records nothing.        *)
Noop(h) ==
  /\ handlers[h].pc = "ready"
  /\ Redelivery(handlers[h].event, handlers[h].row, handlers[h].trail)
  /\ Acknowledge(h)
  /\ UNCHANGED <<cases, history>>

(* Step 3: a later phase updates the case in place.                        *)
Advance(h) ==
  LET e == handlers[h].event
      row == handlers[h].row IN
  /\ handlers[h].pc = "ready"
  /\ ~Redelivery(e, row, handlers[h].trail)
  /\ Advances(e, row)
  /\ CommitUpdate(h, AdvancedRow(e, row),
       NewHistoryRow(e, "phase_advance", IsReopen(row), row.status))

(* Step 4: an earlier phase, or an older timestamp, is only recorded.      *)
RecordStale(h) ==
  LET e == handlers[h].event
      row == handlers[h].row IN
  /\ handlers[h].pc = "ready"
  /\ ~Redelivery(e, row, handlers[h].trail)
  /\ ~Advances(e, row)
  /\ e.phase < row.phase \/ LooksOlder(e, handlers[h].trail)
  /\ CommitUpdate(h, StaleRow(row),
       NewHistoryRow(e, "out_of_order", FALSE, row.status))

(* Step 5: same phase, other status or deadline: amend in place.  The      *)
(* category stays as it was, whatever the event's reason code.             *)
Amend(h) ==
  LET e == handlers[h].event
      row == handlers[h].row IN
  /\ handlers[h].pc = "ready"
  /\ ~Redelivery(e, row, handlers[h].trail)
  /\ e.phase = row.phase
  /\ ~LooksOlder(e, handlers[h].trail)
  /\ CommitUpdate(h, AmendedRow(e, row),
       NewHistoryRow(e, "status_change", FALSE, row.status))

(* The process dies, or the write lock times out, before the commit: the   *)
(* session rolls back and the sender, without a 200, may deliver again.    *)
Abort(h) ==
  /\ handlers[h].pc # "idle"
  /\ Release(h)
  /\ UNCHANGED <<cases, history, acked>>

HandlerStep(h) ==
  \/ Create(h) \/ CreateConflict(h) \/ LoadHistory(h)
  \/ Noop(h) \/ Advance(h) \/ RecordStale(h) \/ Amend(h)

Next ==
  \E h \in Handlers :
    \/ \E e \in Events : Receive(h, e)
    \/ HandlerStep(h)
    \/ Abort(h)

Spec == Init /\ [][Next]_ingestVars

-----------------------------------------------------------------------------
(* Properties that hold however the handlers interleave.                   *)

ReopenRows(d) == {i \in DOMAIN history[d] : history[d][i].isReopen}

(* The trail is the authority on a case: a case row exists exactly when    *)
(* its trail does, only the first row is the initial one, and neither      *)
(* counter of the case row runs ahead of the rows it counts, although two  *)
(* handlers may both increment from the same loaded value                  *)
(* (service.py:239-253, 310-312).                                          *)
CountersBacked ==
  \A d \in Disputes :
    /\ cases[d] = NoRow <=> history[d] = <<>>
    /\ \A i \in DOMAIN history[d] :
         history[d][i].transition = "initial" <=> i = 1
    /\ cases[d] # NoRow =>
         /\ cases[d].reopenCount <= Cardinality(ReopenRows(d))
         /\ cases[d].eventCount <= Len(history[d])

(* A reopen is never invented: before every row flagged is_reopen there is *)
(* a row that put the dispute in a terminal status (service.py:297).       *)
ReopenHasTerminalPast ==
  \A d \in Disputes : \A i \in ReopenRows(d) :
    \E j \in 1..(i - 1) : history[d][j].status \in Terminal

(* The trail is append-only, one row at a time, and no row ever changes    *)
(* (models.py:95-101).                                                     *)
TrailOnlyGrows ==
  [][\A d \in Disputes :
       \/ history'[d] = history[d]
       \/ /\ Len(history'[d]) = Len(history[d]) + 1
          /\ \A i \in DOMAIN history[d] : history'[d][i] = history[d][i]]_history

-----------------------------------------------------------------------------
(* Properties of requests served one at a time (Overlap = FALSE).          *)

(* A case is never rolled back to an earlier phase, whatever the order in  *)
(* which the sender's events arrive (service.py:12-15).  With Overlap the  *)
(* slower of two handlers can do it: its commit, an advance from the row   *)
(* it loaded, goes over the faster one's.                                  *)
NeverRollsBack ==
  [][\A d \in Disputes :
       cases[d] # NoRow => /\ cases'[d] # NoRow
                           /\ cases'[d].phase >= cases[d].phase]_cases

(* The rows of a trail that changed the case.                              *)
AppliedRows(d) ==
  {i \in DOMAIN history[d] : history[d][i].transition # "out_of_order"}

(* The case row is exactly what its trail says: it holds the phase, status *)
(* and deadline of the last row that was not out of order, that phase is   *)
(* the furthest of the whole trail, and both counters are exact            *)
(* (service.py:296-362).                                                   *)
TrailExplainsCase ==
  \A d \in Disputes : cases[d] # NoRow =>
    /\ \E i \in AppliedRows(d) :
         /\ \A j \in AppliedRows(d) : j <= i
         /\ cases[d].phase = history[d][i].phase
         /\ cases[d].status = history[d][i].status
         /\ cases[d].respondBy = history[d][i].respondBy
    /\ \A i \in DOMAIN history[d] : history[d][i].phase <= cases[d].phase
    /\ cases[d].reopenCount = Cardinality(ReopenRows(d))
    /\ cases[d].eventCount = Len(history[d])

(* A webhook event id takes effect at most once: no two rows of a trail    *)
(* carry the same id, however often it is delivered (service.py:274-278).  *)
EventIdAppliedOnce ==
  \A d \in Disputes : \A i, j \in DOMAIN history[d] :
    /\ history[d][i].eventId # ""
    /\ history[d][i].eventId = history[d][j].eventId
    => i = j

(* The docstring's idempotence: an event with an id, for which the sender  *)
(* already has a 200, never mutates the case when it is replayed           *)
(* (service.py:5-7).  The code keeps no record of an id it answered as a   *)
(* step-2 no-op, so this one is refuted.                                   *)
ReplayNeverMutates ==
  [][\A h \in Handlers :
       /\ handlers[h].event \in acked
       /\ handlers[h].event.eventId # ""
       => UNCHANGED cases]_cases

-----------------------------------------------------------------------------
(* Served one at a time, the handlers implement the atomic ledger.         *)

Known == {d \in Disputes : cases[d] # NoRow}

LedgerOf(d) ==
  [phase   |-> cases[d].phase,
   status  |-> cases[d].status,
   reopens |-> cases[d].reopenCount,
   entries |-> Len(history[d])]

Ledger == INSTANCE CaseLedger WITH ledger <- [d \in Known |-> LedgerOf(d)]

(* Every step of the one-at-a-time router is one step of CaseLedger, or    *)
(* leaves every standing as it is.                                         *)
ImplementsLedger == Ledger!Spec

=============================================================================
