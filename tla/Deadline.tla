------------------------------ MODULE Deadline -------------------------------
(***************************************************************************)
(* The 48-hour deadline monitor (src/scoring/deadline.py), over the case   *)
(* rows the ingestion router keeps.                                        *)
(*                                                                         *)
(* A scan loads every case row, then every flag, decides case by case and  *)
(* writes all its flags in one commit.  Nothing starts a scan but a        *)
(* trigger outside the program (POST /internal/deadline-scan), so two may  *)
(* overlap, and webhooks are ingested meanwhile (Overlap = TRUE).          *)
(***************************************************************************)
EXTENDS Ingestion

CONSTANTS
  Scanners,   \* worker threads serving POST /internal/deadline-scan
  Times       \* bound: the hours the wall clock may show

DeadlineWindowHours == 48

Flag ==
  [firstFlagged: Times, lastScanned: Times, respondBy: Nat,
   overdue: BOOLEAN, status: Statuses, resolved: BOOLEAN]

ASSUME TimesAssumption == Times \subseteq Nat /\ 0 \in Times
ASSUME NoFlagAssumption == NoRow \notin Flag

VARIABLES
  flags,     \* deadline_flags: dispute id -> its one row
  scanners,  \* what each scan has loaded
  now        \* wall clock, in hours

deadlineVars == <<flags, scanners, now>>
monitorVars  == <<ingestVars, deadlineVars>>

NoCases == [d \in Disputes |-> NoRow]

IdleScan == [pc |-> "idle", at |-> 0, cases |-> NoCases, flags |-> NoCases]

ScanState ==
  [pc: {"idle", "loaded", "scanning"}, at: Times,
   cases: [Disputes -> CaseRow \union {NoRow}],
   flags: [Disputes -> Flag \union {NoRow}]]

DeadlineTypeOK ==
  /\ TypeOK
  /\ flags \in [Disputes -> Flag \union {NoRow}]
  /\ scanners \in [Scanners -> ScanState]
  /\ now \in Times

DeadlineInit ==
  /\ Init
  /\ flags = NoCases
  /\ scanners = [s \in Scanners |-> IdleScan]
  /\ now = 0

-----------------------------------------------------------------------------
(* What a scan decides of one case row at time t.                          *)

(* Each definition named "...Mutant" is a variant of the one after it, as a *)
(* plausible bug would have it; no action uses it.  This one forgets       *)
(* under_review.                                                           *)
IsUnresolvedMutant(case) == case.status = "open"
IsUnresolved(case) == case.status \in Unresolved

(* An overdue case has left the window.                                    *)
WithinWindowMutant(case, t) ==
  case.respondBy # 0 /\ case.respondBy - t \in 0..DeadlineWindowHours

(* A respond_by of 0 counts as none.                                       *)
WithinWindow(case, t) ==
  case.respondBy # 0 /\ case.respondBy - t <= DeadlineWindowHours

Urgent(case, t) ==
  case # NoRow /\ IsUnresolved(case) /\ WithinWindow(case, t)

IsActive(flag) == flag # NoRow /\ ~flag.resolved

(* first_flagged_at is the opening of the window; or that of each scan.    *)
FlagRowWindowMutant(case, flag, t) ==
  [firstFlagged |-> case.respondBy - DeadlineWindowHours, lastScanned |-> t,
   respondBy |-> case.respondBy, overdue |-> case.respondBy < t,
   status |-> case.status, resolved |-> FALSE]

FlagRowMutant(case, flag, t) ==
  [firstFlagged |-> t, lastScanned |-> t,
   respondBy |-> case.respondBy, overdue |-> case.respondBy < t,
   status |-> case.status, resolved |-> FALSE]

FlagRow(case, flag, t) ==
  [firstFlagged |-> IF flag = NoRow THEN t ELSE flag.firstFlagged,
   lastScanned  |-> t,
   respondBy    |-> case.respondBy,
   overdue      |-> case.respondBy < t,
   status       |-> case.status,
   resolved     |-> FALSE]

RetiredFlag(case, flag, t) ==
  [flag EXCEPT !.resolved = TRUE, !.lastScanned = t, !.status = case.status]

(* A flag is retired whenever its case is not urgent.                      *)
ScannedFlagMutant(case, flag, t) ==
  IF Urgent(case, t) THEN FlagRow(case, flag, t)
  ELSE IF case # NoRow /\ IsActive(flag)
         THEN RetiredFlag(case, flag, t)
         ELSE flag

(* The flag a scan leaves for a case: a terminal status retires an active  *)
(* one, an urgent case gets or renews one, anything else is left alone.    *)
ScannedFlag(case, flag, t) ==
  IF Urgent(case, t) THEN FlagRow(case, flag, t)
  ELSE IF case # NoRow /\ ~IsUnresolved(case) /\ IsActive(flag)
         THEN RetiredFlag(case, flag, t)
         ELSE flag

(* A flag after a session that loaded `was` and left `new` commits.        *)
MergedFlag(was, new, stored) ==
  IF was = NoRow THEN (IF new = NoRow THEN stored ELSE new)
  ELSE [firstFlagged |-> Column(was.firstFlagged, new.firstFlagged,
                                stored.firstFlagged),
        lastScanned  |-> Column(was.lastScanned, new.lastScanned,
                                stored.lastScanned),
        respondBy    |-> Column(was.respondBy, new.respondBy,
                                stored.respondBy),
        overdue      |-> Column(was.overdue, new.overdue, stored.overdue),
        status       |-> Column(was.status, new.status, stored.status),
        resolved     |-> Column(was.resolved, new.resolved, stored.resolved)]

-----------------------------------------------------------------------------
ScansIdle == \A s \in Scanners : scanners[s].pc = "idle"

ScannerMoves(s, state) == scanners' = [scanners EXCEPT ![s] = state]

StartScan(s) ==
  /\ scanners[s].pc = "idle"
  /\ Overlap \/ (ScansIdle /\ AllIdle)
  /\ ScannerMoves(s, [pc |-> "loaded", at |-> now, cases |-> cases,
                      flags |-> NoCases])
  /\ UNCHANGED <<ingestVars, flags, now>>

LoadFlags(s) ==
  /\ scanners[s].pc = "loaded"
  /\ ScannerMoves(s, [scanners[s] EXCEPT !.pc = "scanning", !.flags = flags])
  /\ UNCHANGED <<ingestVars, flags, now>>

ScanResult(s) ==
  [d \in Disputes |-> ScannedFlag(scanners[s].cases[d], scanners[s].flags[d],
                                  scanners[s].at)]

(* Another scan has flagged a dispute this one is about to insert.         *)
Conflicts(s) ==
  \E d \in Disputes : /\ scanners[s].flags[d] = NoRow
                      /\ ScanResult(s)[d] # NoRow
                      /\ flags[d] # NoRow

CommitScan(s) ==
  /\ scanners[s].pc = "scanning"
  /\ ~Conflicts(s)
  /\ flags' = [d \in Disputes |->
       MergedFlag(scanners[s].flags[d], ScanResult(s)[d], flags[d])]
  /\ ScannerMoves(s, IdleScan)
  /\ UNCHANGED <<ingestVars, now>>

(* The unique dispute_id refuses one insert: the whole scan rolls back.    *)
ScanConflict(s) ==
  /\ scanners[s].pc = "scanning"
  /\ Conflicts(s)
  /\ ScannerMoves(s, IdleScan)
  /\ UNCHANGED <<ingestVars, flags, now>>

ScanAbort(s) ==
  /\ scanners[s].pc # "idle"
  /\ ScannerMoves(s, IdleScan)
  /\ UNCHANGED <<ingestVars, flags, now>>

Tick ==
  /\ \E t \in Times : t > now /\ now' = t
  /\ UNCHANGED <<ingestVars, flags, scanners>>

Ingest ==
  /\ Overlap \/ ScansIdle
  /\ Next
  /\ UNCHANGED deadlineVars

ScannerStep(s) ==
  \/ StartScan(s) \/ LoadFlags(s)
  \/ CommitScan(s) \/ ScanConflict(s) \/ ScanAbort(s)

DeadlineNext ==
  \/ Ingest
  \/ \E s \in Scanners : ScannerStep(s)
  \/ Tick

DeadlineSpec == DeadlineInit /\ [][DeadlineNext]_monitorVars

(* The trigger keeps calling, and its calls do not all fail for ever: a    *)
(* scan that may commit again and again at last commits.  Nothing is       *)
(* assumed of the webhooks or of the clock.                                *)
ScanFairness ==
  \A s \in Scanners : /\ WF_monitorVars(StartScan(s))
                      /\ SF_monitorVars(LoadFlags(s))
                      /\ SF_monitorVars(CommitScan(s))

FairDeadlineSpec == DeadlineSpec /\ ScanFairness

-----------------------------------------------------------------------------
(* Properties that hold however scans and webhooks interleave.             *)

(* A flag is retired only for a dispute that has been seen in a terminal   *)
(* status, though the scan that retires it may be the slower one and the   *)
(* dispute open again (deadline.py:97-104).                                *)
RetiredWithCause ==
  \A d \in Disputes : flags[d] # NoRow /\ flags[d].resolved =>
    \E i \in DOMAIN history[d] : history[d][i].status \in Terminal

(* first_flagged_at is the first: no later scan, nor one that lost the     *)
(* race to insert the flag, moves it or drops the flag                     *)
(* (deadline.py:121-126).                                                  *)
FirstFlagStands ==
  [][\A d \in Disputes : flags[d] # NoRow =>
       /\ flags'[d] # NoRow
       /\ flags'[d].firstFlagged = flags[d].firstFlagged]_flags

(* What the monitor promises to flag, in the words of deadline.py:8-11.    *)
MustFlag(case, t) ==
  /\ case # NoRow
  /\ case.status \in {"open", "under_review"}
  /\ case.respondBy \in 1..(t + 48)

(* The monitor catches up: a dispute that stays urgent is at last flagged  *)
(* for good, and one that stays terminal is at last not flagged, for good  *)
(* (deadline.py:8-15, 97-104).                                             *)
FlagsSettle ==
  \A d \in Disputes :
    /\ <>[]MustFlag(cases[d], now) => <>[]IsActive(flags[d])
    /\ <>[](cases[d] # NoRow /\ cases[d].status \in Terminal)
         => <>[]~IsActive(flags[d])

(* A scan that nothing overtook leaves the flags complete: every case that *)
(* is urgent at its time is actively flagged with its present status and   *)
(* deadline, no terminal case is, and none that is early or has no         *)
(* deadline becomes flagged (deadline.py:8-11, 89-137).                    *)
NotOvertaken(s) == scanners[s].cases = cases /\ scanners[s].flags = flags

ScanComplete ==
  [][\A s \in Scanners : CommitScan(s) /\ NotOvertaken(s) =>
       \A d \in Disputes :
         /\ MustFlag(cases[d], scanners[s].at) =>
              /\ IsActive(flags'[d])
              /\ flags'[d].status = cases[d].status
              /\ flags'[d].respondBy = cases[d].respondBy
         /\ IsActive(flags'[d]) =>
              /\ cases[d].status \notin Terminal
              /\ ~IsActive(flags[d]) => MustFlag(cases[d], scanners[s].at)
    ]_monitorVars

-----------------------------------------------------------------------------
(* An active flag says "within 48h of respond_by and still unresolved"     *)
(* (scoring/models.py:227).  When an event moves the deadline out of the   *)
(* window a scan leaves the flag as it is, so this one is refuted.         *)
ActiveFlagsUrgent ==
  [][\A s \in Scanners : CommitScan(s) /\ NotOvertaken(s) =>
       \A d \in Disputes :
         IsActive(flags'[d]) => MustFlag(cases[d], scanners[s].at)]_monitorVars

=============================================================================
