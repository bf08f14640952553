---------------------------- MODULE DeadlineProofs ---------------------------
(***************************************************************************)
(* Theorems about the deadline monitor, for every set of disputes, events, *)
(* handlers, scanners and times, however scans and webhooks interleave.    *)
(***************************************************************************)
EXTENDS Deadline, IngestionProofs

(* A flag is of a case that exists, and a retired one has its cause in the *)
(* trail of the dispute.                                                   *)
FlagsBacked ==
  \A d \in Disputes : flags[d] # NoRow =>
    /\ cases[d] # NoRow
    /\ flags[d].resolved => TerminalPast(d)

(* The same of what a scan has loaded, however old it is; and a flag, once *)
(* loaded, is never deleted.                                               *)
ScanHolds(s) ==
  \A d \in Disputes :
    /\ scanners[s].cases[d] # NoRow =>
         /\ cases[d] # NoRow
         /\ scanners[s].cases[d].status \in Terminal => TerminalPast(d)
    /\ scanners[s].flags[d] # NoRow =>
         /\ flags[d] # NoRow
         /\ scanners[s].flags[d].resolved => TerminalPast(d)

ScansHold == \A s \in Scanners : ScanHolds(s)

DeadlineInv ==
  TypeInv /\ ReopenInv /\ DeadlineTypeOK /\ FlagsBacked /\ ScansHold

-----------------------------------------------------------------------------
(* What a scan decides of a flag: it keeps the first hour, drops no flag,  *)
(* makes none without a case, and retires only for a terminal status.      *)
LEMMA ScannedFlagFacts ==
  ASSUME NEW case \in CaseRow \union {NoRow}, NEW flag \in Flag \union {NoRow},
         NEW t \in Times
  PROVE  LET new == ScannedFlag(case, flag, t) IN
         /\ new \in Flag \union {NoRow}
         /\ flag # NoRow => new # NoRow /\ new.firstFlagged = flag.firstFlagged
         /\ new # NoRow => flag # NoRow \/ case # NoRow
         /\ new # NoRow /\ new.resolved =>
              \/ flag # NoRow /\ flag.resolved
              \/ case # NoRow /\ case.status \in Terminal
<1> DEFINE new == ScannedFlag(case, flag, t)
<1>1. CASE Urgent(case, t)
  <2>1. case \in CaseRow /\ case # NoRow
    BY <1>1 DEF Urgent
  <2>2. new = FlagRow(case, flag, t)
    BY <1>1 DEF ScannedFlag
  <2>3. FlagRow(case, flag, t) \in Flag
    BY <2>1 DEF FlagRow, Flag, CaseRow
  <2>4. /\ flag # NoRow =>
             FlagRow(case, flag, t).firstFlagged = flag.firstFlagged
        /\ ~FlagRow(case, flag, t).resolved
    BY DEF FlagRow
  <2>5. QED
    BY <2>1, <2>2, <2>3, <2>4, NoFlagAssumption
<1>2. CASE ~Urgent(case, t) /\ case # NoRow /\ ~IsUnresolved(case)
             /\ IsActive(flag)
  <2>1. case \in CaseRow /\ flag \in Flag /\ flag # NoRow
    BY <1>2 DEF IsActive
  <2>2. new = RetiredFlag(case, flag, t)
    BY <1>2 DEF ScannedFlag
  <2>3. /\ RetiredFlag(case, flag, t) \in Flag
        /\ RetiredFlag(case, flag, t).firstFlagged = flag.firstFlagged
    BY <2>1 DEF RetiredFlag, Flag, CaseRow
  <2>4. case.status \in Terminal
    BY <1>2, <2>1 DEF IsUnresolved, CaseRow, Statuses
  <2>5. QED
    BY <1>2, <2>1, <2>2, <2>3, <2>4, NoFlagAssumption
<1>3. CASE /\ ~Urgent(case, t)
           /\ ~(case # NoRow /\ ~IsUnresolved(case) /\ IsActive(flag))
  BY <1>3 DEF ScannedFlag
<1>4. QED
  BY <1>1, <1>2, <1>3

(* What a commit leaves of a flag that no insert collides with.            *)
LEMMA MergedFlagFacts ==
  ASSUME NEW was \in Flag \union {NoRow}, NEW new \in Flag \union {NoRow},
         NEW stored \in Flag \union {NoRow},
         was # NoRow => /\ new # NoRow /\ stored # NoRow
                        /\ new.firstFlagged = was.firstFlagged,
         was = NoRow /\ new # NoRow => stored = NoRow
  PROVE  LET merged == MergedFlag(was, new, stored) IN
         /\ merged \in Flag \union {NoRow}
         /\ stored # NoRow => /\ merged # NoRow
                              /\ merged.firstFlagged = stored.firstFlagged
         /\ merged # NoRow => stored # NoRow \/ new # NoRow
         /\ merged # NoRow /\ merged.resolved =>
              \/ stored # NoRow /\ stored.resolved
              \/ new # NoRow /\ new.resolved
<1>1. CASE was = NoRow
  BY <1>1 DEF MergedFlag
<1>2. CASE was # NoRow
  <2>1. was \in Flag /\ new \in Flag /\ stored \in Flag
    BY <1>2
  <2> DEFINE merged == MergedFlag(was, new, stored)
  <2>2. merged \in Flag
    BY <1>2, <2>1 DEF MergedFlag, Column, Flag
  <2>3. merged.firstFlagged = stored.firstFlagged
    BY <1>2 DEF MergedFlag, Column
  <2>4. merged.resolved = Column(was.resolved, new.resolved, stored.resolved)
    BY <1>2 DEF MergedFlag
  <2>5. merged.resolved \in {new.resolved, stored.resolved}
    BY <2>4 DEF Column
  <2> HIDE DEF merged
  <2>6. QED
    BY <1>2, <2>1, <2>2, <2>3, <2>5, NoFlagAssumption DEF merged
<1>3. QED
  BY <1>1, <1>2

-----------------------------------------------------------------------------
(* What one scan's commit does to the flag of one dispute.                 *)
LEMMA CommitScanFacts ==
  ASSUME DeadlineInv, NEW s \in Scanners, CommitScan(s), NEW d \in Disputes
  PROVE  /\ flags'[d] = MergedFlag(scanners[s].flags[d], ScanResult(s)[d],
                                   flags[d])
         /\ ScanResult(s)[d] = ScannedFlag(scanners[s].cases[d],
                                           scanners[s].flags[d],
                                           scanners[s].at)
         /\ flags'[d] \in Flag \union {NoRow}
         /\ flags[d] # NoRow => /\ flags'[d] # NoRow
                                /\ flags'[d].firstFlagged = flags[d].firstFlagged
         /\ flags'[d] # NoRow => /\ cases[d] # NoRow
                                 /\ flags'[d].resolved => TerminalPast(d)
<1> DEFINE case == scanners[s].cases[d]
           was == scanners[s].flags[d]
           new == ScannedFlag(case, was, scanners[s].at)
<1>1. /\ case \in CaseRow \union {NoRow}
      /\ was \in Flag \union {NoRow}
      /\ flags[d] \in Flag \union {NoRow}
      /\ scanners[s].at \in Times
  BY DEF DeadlineInv, DeadlineTypeOK, ScanState
<1>2. /\ ScanResult(s)[d] = new
      /\ flags'[d] = MergedFlag(was, new, flags[d])
  BY DEF CommitScan, ScanResult
<1>3. was = NoRow /\ new # NoRow => flags[d] = NoRow
  BY <1>2 DEF CommitScan, Conflicts
<1>4. /\ was # NoRow => /\ flags[d] # NoRow
                        /\ was.resolved => TerminalPast(d)
      /\ case # NoRow => /\ cases[d] # NoRow
                         /\ case.status \in Terminal => TerminalPast(d)
      /\ flags[d] # NoRow => /\ cases[d] # NoRow
                             /\ flags[d].resolved => TerminalPast(d)
  BY DEF DeadlineInv, ScansHold, ScanHolds, FlagsBacked
<1>5. /\ new \in Flag \union {NoRow}
      /\ was # NoRow => new # NoRow /\ new.firstFlagged = was.firstFlagged
      /\ new # NoRow => was # NoRow \/ case # NoRow
      /\ new # NoRow /\ new.resolved =>
           \/ was # NoRow /\ was.resolved
           \/ case # NoRow /\ case.status \in Terminal
  BY <1>1, ScannedFlagFacts
<1> HIDE DEF case, was, new
<1>6. LET merged == MergedFlag(was, new, flags[d]) IN
      /\ merged \in Flag \union {NoRow}
      /\ flags[d] # NoRow => /\ merged # NoRow
                             /\ merged.firstFlagged = flags[d].firstFlagged
      /\ merged # NoRow => flags[d] # NoRow \/ new # NoRow
      /\ merged # NoRow /\ merged.resolved =>
           \/ flags[d] # NoRow /\ flags[d].resolved
           \/ new # NoRow /\ new.resolved
  BY <1>1, <1>3, <1>4, <1>5, MergedFlagFacts
<1>7. /\ flags'[d] \in Flag \union {NoRow}
      /\ flags[d] # NoRow => /\ flags'[d] # NoRow
                             /\ flags'[d].firstFlagged = flags[d].firstFlagged
      /\ flags'[d] # NoRow => /\ cases[d] # NoRow
                              /\ flags'[d].resolved => TerminalPast(d)
  BY <1>2, <1>4, <1>5, <1>6
<1>8. QED
  BY <1>2, <1>7 DEF case, was, new

(* A flag that is there stays, whatever else the step does; the step adds  *)
(* none without a case, and retires none without a cause.                  *)
LEMMA FlagsStep ==
  ASSUME DeadlineInv, [DeadlineNext]_monitorVars, NEW d \in Disputes
  PROVE  /\ flags[d] # NoRow => /\ flags'[d] # NoRow
                                /\ flags'[d].firstFlagged = flags[d].firstFlagged
         /\ flags'[d] # NoRow => /\ cases[d] # NoRow
                                 /\ flags'[d].resolved => TerminalPast(d)
<1>1. CASE flags' = flags
  BY <1>1 DEF DeadlineInv, FlagsBacked
<1>2. ASSUME NEW s \in Scanners, CommitScan(s)
      PROVE  /\ flags[d] # NoRow =>
                  /\ flags'[d] # NoRow
                  /\ flags'[d].firstFlagged = flags[d].firstFlagged
             /\ flags'[d] # NoRow => /\ cases[d] # NoRow
                                     /\ flags'[d].resolved => TerminalPast(d)
  BY <1>2, CommitScanFacts
<1>3. flags' = flags \/ \E s \in Scanners : CommitScan(s)
  BY DEF DeadlineNext, Ingest, ScannerStep, StartScan, LoadFlags, ScanConflict,
         ScanAbort, Tick, deadlineVars, monitorVars
<1>4. QED
  BY <1>1, <1>2, <1>3

(* Cases are never deleted, and a terminal past is never forgotten.        *)
LEMMA CasesStep ==
  ASSUME TypeInv, [Next]_ingestVars, NEW d \in Disputes
  PROVE  /\ cases[d] # NoRow => cases'[d] # NoRow
         /\ TerminalPast(d) => TerminalPast(d)'
<1>1. history[d] \in Seq(HistoryRow)
  BY DEF TypeInv, TypeOK
<1>2. QED
  BY <1>1, TrailStep, AppendFacts, NoRowAssumption DEF TerminalPast

(* A step of the monitor is a step of the router or leaves it alone.       *)
LEMMA RouterStep ==
  ASSUME [DeadlineNext]_monitorVars
  PROVE  [Next]_ingestVars
BY DEF DeadlineNext, Ingest, ScannerStep, StartScan, LoadFlags, CommitScan,
       ScanConflict, ScanAbort, Tick, monitorVars

(* What a scan has in hand after a step: what it had, or the tables of     *)
(* this moment.                                                            *)
LEMMA ScannerStepFacts ==
  ASSUME DeadlineInv, [DeadlineNext]_monitorVars, NEW s \in Scanners
  PROVE  /\ scanners'[s] \in ScanState
         /\ \A d \in Disputes :
              /\ scanners'[s].cases[d] \in {scanners[s].cases[d], cases[d], NoRow}
              /\ scanners'[s].flags[d] \in {scanners[s].flags[d], flags[d], NoRow}
<1>1. /\ scanners \in [Scanners -> ScanState]
      /\ cases \in [Disputes -> CaseRow \union {NoRow}]
      /\ flags \in [Disputes -> Flag \union {NoRow}]
      /\ now \in Times
  BY DEF DeadlineInv, DeadlineTypeOK, TypeInv, TypeOK
<1>2. IdleScan \in ScanState /\ NoCases \in [Disputes -> {NoRow}]
  BY TimesAssumption DEF IdleScan, ScanState, NoCases
<1>3. CASE scanners' = scanners
  BY <1>1, <1>3
<1>4. ASSUME NEW r \in Scanners, ScannerMoves(r, IdleScan)
      PROVE  \/ scanners'[s] = scanners[s]
             \/ scanners'[s] = IdleScan
  BY <1>1, <1>4 DEF ScannerMoves
<1>5. ASSUME NEW r \in Scanners, StartScan(r)
      PROVE  \/ scanners'[s] = scanners[s]
             \/ scanners'[s] = [pc |-> "loaded", at |-> now, cases |-> cases,
                                flags |-> NoCases]
  BY <1>1, <1>5 DEF StartScan, ScannerMoves
<1>6. ASSUME NEW r \in Scanners, LoadFlags(r)
      PROVE  \/ scanners'[s] = scanners[s]
             \/ scanners'[s] = [pc |-> "scanning", at |-> scanners[s].at,
                                cases |-> scanners[s].cases, flags |-> flags]
  BY <1>1, <1>6 DEF LoadFlags, ScannerMoves, ScanState
<1>7. ASSUME scanners'[s] = scanners[s] \/ scanners'[s] = IdleScan
      PROVE  /\ scanners'[s] \in ScanState
             /\ \A d \in Disputes :
                  /\ scanners'[s].cases[d] \in {scanners[s].cases[d], NoRow}
                  /\ scanners'[s].flags[d] \in {scanners[s].flags[d], NoRow}
  BY <1>1, <1>2, <1>7 DEF IdleScan, NoCases
<1>8. \/ scanners' = scanners
      \/ \E r \in Scanners : \/ StartScan(r) \/ LoadFlags(r)
                             \/ ScannerMoves(r, IdleScan)
  BY DEF DeadlineNext, Ingest, ScannerStep, CommitScan, ScanConflict,
         ScanAbort, Tick, deadlineVars, monitorVars
<1>9. QED
  BY <1>1, <1>2, <1>3, <1>4, <1>5, <1>6, <1>7, <1>8 DEF ScanState, NoCases

-----------------------------------------------------------------------------
LEMMA DeadlineInvStep ==
  ASSUME DeadlineInv, [DeadlineNext]_monitorVars
  PROVE  DeadlineInv'
<1>1. TypeInv' /\ ReopenInv'
  BY RouterStep, TypeInvStep, ReopenInvStep DEF DeadlineInv
<1>2. ASSUME NEW d \in Disputes
      PROVE  /\ cases[d] # NoRow => cases'[d] # NoRow
             /\ TerminalPast(d) => TerminalPast(d)'
             /\ cases[d] # NoRow /\ cases[d].status \in Terminal
                  => TerminalPast(d)
             /\ flags[d] # NoRow => flags'[d] # NoRow
             /\ flags[d] # NoRow /\ flags[d].resolved => TerminalPast(d)
             /\ flags'[d] # NoRow => /\ cases[d] # NoRow
                                     /\ flags'[d].resolved => TerminalPast(d)
  BY RouterStep, CasesStep, FlagsStep
     DEF DeadlineInv, ReopenInv, CasesBacked, FlagsBacked
<1>3. FlagsBacked'
  BY <1>2 DEF FlagsBacked
<1>4. ASSUME NEW s \in Scanners, NEW d \in Disputes
      PROVE  /\ scanners'[s].cases[d] # NoRow =>
                  /\ cases'[d] # NoRow
                  /\ scanners'[s].cases[d].status \in Terminal
                       => TerminalPast(d)'
             /\ scanners'[s].flags[d] # NoRow =>
                  /\ flags'[d] # NoRow
                  /\ scanners'[s].flags[d].resolved => TerminalPast(d)'
  <2>1. /\ scanners'[s].cases[d] \in {scanners[s].cases[d], cases[d], NoRow}
        /\ scanners'[s].flags[d] \in {scanners[s].flags[d], flags[d], NoRow}
    BY ScannerStepFacts
  <2>2. /\ scanners[s].cases[d] # NoRow =>
             /\ cases[d] # NoRow
             /\ scanners[s].cases[d].status \in Terminal => TerminalPast(d)
        /\ scanners[s].flags[d] # NoRow =>
             /\ flags[d] # NoRow
             /\ scanners[s].flags[d].resolved => TerminalPast(d)
    BY DEF DeadlineInv, ScansHold, ScanHolds
  <2>3. QED
    BY <1>2, <2>1, <2>2
<1>5. ScansHold'
  BY <1>4 DEF ScansHold, ScanHolds
<1>6. DeadlineTypeOK'
  <2>1. scanners' \in [Scanners -> ScanState]
    <3>1. \E f : scanners' = [s \in Scanners |-> f[s]]
      BY DEF DeadlineNext, Ingest, ScannerStep, StartScan, LoadFlags, CommitScan,
             ScanConflict, ScanAbort, Tick, ScannerMoves, deadlineVars,
             monitorVars, DeadlineInv, DeadlineTypeOK
    <3>2. QED
      BY <3>1, ScannerStepFacts
  <2>2. flags' \in [Disputes -> Flag \union {NoRow}]
    <3>1. CASE flags' = flags
      BY <3>1 DEF DeadlineInv, DeadlineTypeOK
    <3>2. ASSUME NEW s \in Scanners, CommitScan(s)
          PROVE  flags' \in [Disputes -> Flag \union {NoRow}]
      <4>1. \A d \in Disputes : flags'[d] \in Flag \union {NoRow}
        BY <3>2, CommitScanFacts
      <4>2. flags' = [d \in Disputes |-> flags'[d]]
        BY <3>2 DEF CommitScan
      <4>3. QED
        BY <4>1, <4>2
    <3>3. flags' = flags \/ \E s \in Scanners : CommitScan(s)
      BY DEF DeadlineNext, Ingest, ScannerStep, StartScan, LoadFlags,
             ScanConflict, ScanAbort, Tick, deadlineVars, monitorVars
    <3>4. QED
      BY <3>1, <3>2, <3>3
  <2>3. now' \in Times
    BY DEF DeadlineNext, Ingest, ScannerStep, StartScan, LoadFlags, CommitScan,
           ScanConflict, ScanAbort, Tick, deadlineVars, monitorVars,
           DeadlineInv, DeadlineTypeOK
  <2>4. QED
    BY <1>1, <2>1, <2>2, <2>3 DEF DeadlineTypeOK, TypeInv
<1>7. QED
  BY <1>1, <1>3, <1>5, <1>6 DEF DeadlineInv

LEMMA DeadlineInvInit ==
  ASSUME DeadlineInit
  PROVE  DeadlineInv
<1>1. TypeInv
  BY NoRowAssumption
     DEF DeadlineInit, Init, TypeInv, TypeOK, HandlersHold, Idle, HandlerState
<1>2. ReopenInv
  BY DEF DeadlineInit, Init, ReopenInv, ReopenHasTerminalPast, ReopenRows,
         CasesBacked, SnapshotsBacked, Idle
<1>3. DeadlineTypeOK
  BY <1>1, TimesAssumption
     DEF DeadlineInit, DeadlineTypeOK, TypeInv, NoCases, IdleScan, ScanState
<1>4. FlagsBacked /\ ScansHold
  BY DEF DeadlineInit, FlagsBacked, ScansHold, ScanHolds, NoCases, IdleScan
<1>5. QED
  BY <1>1, <1>2, <1>3, <1>4 DEF DeadlineInv

LEMMA DeadlineInvariant == DeadlineSpec => []DeadlineInv
BY DeadlineInvInit, DeadlineInvStep, PTL DEF DeadlineSpec

(* Every reachable state of the flags and of the scans at work is well     *)
(* typed (scoring/models.py:222-257).                                      *)
THEOREM DeadlineTypeCorrect == DeadlineSpec => []DeadlineTypeOK
BY DeadlineInvariant, PTL DEF DeadlineInv

(* A flag is retired only for a dispute whose trail shows a terminal       *)
(* status, however stale the scan that retires it (deadline.py:97-104).    *)
THEOREM RetiredSound == DeadlineSpec => []RetiredWithCause
<1>1. DeadlineInv => RetiredWithCause
  BY DEF DeadlineInv, FlagsBacked, TerminalPast, RetiredWithCause
<1>2. QED
  BY <1>1, DeadlineInvariant, PTL

(* No scan moves first_flagged_at or drops a flag, though several commit   *)
(* over each other (deadline.py:121-126).                                  *)
THEOREM FirstFlagKept == DeadlineSpec => FirstFlagStands
<1> DEFINE Stands(d) ==
      flags[d] # NoRow => /\ flags'[d] # NoRow
                          /\ flags'[d].firstFlagged = flags[d].firstFlagged
<1>1. DeadlineInv /\ [DeadlineNext]_monitorVars
        => [\A d \in Disputes : Stands(d)]_flags
  BY FlagsStep
<1>2. QED
  BY <1>1, DeadlineInvariant, PTL DEF DeadlineSpec, FirstFlagStands

(* A session that commits over the flag it loaded leaves the flag it built. *)
LEMMA MergedFlagIdentity ==
  ASSUME NEW was \in Flag \union {NoRow}, NEW new \in Flag \union {NoRow},
         was # NoRow => new # NoRow
  PROVE  MergedFlag(was, new, was) = new
BY DEF MergedFlag, Column, Flag

(* A scan that nothing overtook leaves the promised flags active, leaves   *)
(* none of a terminal case active, and makes none active of a case that    *)
(* is early or has no deadline (deadline.py:8-11, 89-137).                 *)
THEOREM ScansComplete == DeadlineSpec => ScanComplete
<1> DEFINE Complete(d, t) ==
      /\ MustFlag(cases[d], t) => /\ IsActive(flags'[d])
                                  /\ flags'[d].status = cases[d].status
                                  /\ flags'[d].respondBy = cases[d].respondBy
      /\ IsActive(flags'[d]) =>
           /\ cases[d].status \notin Terminal
           /\ ~IsActive(flags[d]) => MustFlag(cases[d], t)
<1>1. ASSUME DeadlineInv, NEW s \in Scanners, CommitScan(s), NotOvertaken(s),
             NEW d \in Disputes
      PROVE  Complete(d, scanners[s].at)
  <2> DEFINE case == cases[d]
             flag == flags[d]
             t == scanners[s].at
             new == ScannedFlag(case, flag, t)
  <2>1. /\ case \in CaseRow \union {NoRow} /\ flag \in Flag \union {NoRow}
        /\ t \in Times /\ t \in Nat
    BY <1>1, TimesAssumption
       DEF DeadlineInv, TypeInv, TypeOK, DeadlineTypeOK, ScanState
  <2>2. flags'[d] = new
    <3>1. /\ scanners[s].cases[d] = case /\ scanners[s].flags[d] = flag
          /\ CommitScan(s)
      BY <1>1 DEF NotOvertaken
    <3>2. flags'[d] = MergedFlag(flag, new, flag)
      <4>1. /\ flags'[d] = MergedFlag(scanners[s].flags[d], ScanResult(s)[d],
                                      flag)
            /\ ScanResult(s)[d] = ScannedFlag(scanners[s].cases[d],
                                              scanners[s].flags[d], t)
        BY <1>1, CommitScanFacts
      <4>2. QED
        BY <3>1, <4>1, Zenon
    <3>3. new \in Flag \union {NoRow} /\ (flag # NoRow => new # NoRow)
      <4>1. \A c \in CaseRow \union {NoRow}, f \in Flag \union {NoRow},
               x \in Times :
              /\ ScannedFlag(c, f, x) \in Flag \union {NoRow}
              /\ f # NoRow => ScannedFlag(c, f, x) # NoRow
        BY ScannedFlagFacts
      <4>2. QED
        BY <2>1, <4>1, Zenon
    <3> HIDE DEF new, flag
    <3>4. QED
      BY <2>1, <3>2, <3>3, MergedFlagIdentity
  <2>3. flag # NoRow => case # NoRow
    BY <1>1 DEF DeadlineInv, FlagsBacked
  <2> HIDE DEF case, flag, t
  <2>4. MustFlag(case, t) <=> Urgent(case, t)
    BY <2>1
       DEF MustFlag, Urgent, IsUnresolved, Unresolved, WithinWindow,
           DeadlineWindowHours, CaseRow
  <2>5. CASE Urgent(case, t)
    <3>1. FlagRow(case, flag, t) \in Flag
      BY <2>1, <2>5, NoRowAssumption DEF Urgent, FlagRow, Flag, CaseRow
    <3>2. new = FlagRow(case, flag, t) /\ new # NoRow
      BY <2>5, <3>1, NoFlagAssumption DEF ScannedFlag
    <3>3. case.status \notin Terminal
      BY <2>5 DEF Urgent, IsUnresolved, Unresolved, Terminal
    <3>4. IsActive(new) /\ new.status = case.status
            /\ new.respondBy = case.respondBy
      BY <3>2 DEF IsActive, FlagRow
    <3>5. QED
      BY <2>2, <2>4, <2>5, <3>3, <3>4 DEF case, t
  <2>6. CASE ~Urgent(case, t)
    <3>1. IsActive(new) => case.status \notin Terminal /\ IsActive(flag)
      <4>1. CASE case # NoRow /\ ~IsUnresolved(case) /\ IsActive(flag)
        <5>1. new = RetiredFlag(case, flag, t)
          BY <2>6, <4>1 DEF ScannedFlag
        <5>2. RetiredFlag(case, flag, t).resolved = TRUE
          BY <2>1, <4>1 DEF RetiredFlag, Flag, IsActive
        <5>3. QED
          BY <5>1, <5>2 DEF IsActive
      <4>2. CASE ~(case # NoRow /\ ~IsUnresolved(case) /\ IsActive(flag))
        <5>1. new = flag
          BY <2>6, <4>2 DEF ScannedFlag
        <5>2. QED
          BY <2>3, <4>2, <5>1 DEF IsActive, IsUnresolved, Unresolved, Terminal,
                                  case, flag
      <4>3. QED
        BY <4>1, <4>2
    <3>2. QED
      BY <2>2, <2>4, <2>6, <3>1 DEF case, flag, t
  <2>7. QED
    BY <2>5, <2>6 DEF t
<1>2. DeadlineInv /\ [DeadlineNext]_monitorVars
        => [\A s \in Scanners : CommitScan(s) /\ NotOvertaken(s) =>
              \A d \in Disputes : Complete(d, scanners[s].at)]_monitorVars
  BY <1>1
<1>3. QED
  BY <1>2, DeadlineInvariant, PTL DEF DeadlineSpec, ScanComplete

=============================================================================
