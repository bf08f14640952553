----------------------------- MODULE CaseLedger -----------------------------
(***************************************************************************)
(* What the ingestion router promises of a dispute, without handlers,      *)
(* snapshots or events: one standing per dispute whose phase only ever     *)
(* moves forward, a reopen counted exactly when the dispute leaves a       *)
(* terminal status for a later phase, and one trail entry per accepted     *)
(* event (the guarantees at the head of src/ingestion/service.py).         *)
(***************************************************************************)
EXTENDS DisputeTypes

CONSTANT Disputes

VARIABLE ledger   \* the disputes known so far, each with its standing

Init == ledger = [d \in {} |-> 0]

(* First contact, at whatever phase the first event happens to describe.   *)
Open(d) ==
  /\ d \notin DOMAIN ledger
  /\ \E p \in Phases, s \in Statuses :
       ledger' = [c \in DOMAIN ledger \union {d} |->
         IF c = d THEN [phase |-> p, status |-> s, reopens |-> 0, entries |-> 1]
                  ELSE ledger[c]]

(* A later phase; out of a terminal status it is a reopen.                 *)
Escalate(d) ==
  /\ d \in DOMAIN ledger
  /\ \E p \in Phases, s \in Statuses :
       /\ p > ledger[d].phase
       /\ ledger' = [ledger EXCEPT ![d] =
            [phase   |-> p,
             status  |-> s,
             reopens |-> IF ledger[d].status \in Terminal
                           THEN ledger[d].reopens + 1
                           ELSE ledger[d].reopens,
             entries |-> ledger[d].entries + 1]]

(* An event at the same phase may change the status; a stale one may not   *)
(* change anything but the trail.                                          *)
Note(d) ==
  /\ d \in DOMAIN ledger
  /\ \E s \in Statuses :
       ledger' = [ledger EXCEPT ![d] =
         [phase   |-> ledger[d].phase,
          status  |-> s,
          reopens |-> ledger[d].reopens,
          entries |-> ledger[d].entries + 1]]

Next == \E d \in Disputes : Open(d) \/ Escalate(d) \/ Note(d)

Spec == Init /\ [][Next]_ledger

=============================================================================
