----------------------------- MODULE RiskGraph -------------------------------
(***************************************************************************)
(* What the nightly risk batch computes (src/risk/graph.py and the pure    *)
(* part of src/risk/batch.py): from a log of transfers and the account     *)
(* table to one graph profile per account, and from a return history to a  *)
(* returns signal.  No state: RiskBatch reads the inputs and stores the    *)
(* results.                                                                *)
(*                                                                         *)
(* A timestamp is its day.  Deviations, z-scores and fractions are in      *)
(* hundredths, centralities in ten-thousandths, and divisions round down.  *)
(* PageRank, a float iteration, is a parameter; betweenness is exact.      *)
(***************************************************************************)
EXTENDS Integers, Sequences, FiniteSetsExt

CONSTANTS
  Accounts,
  PageRank(_, _)  \* PageRank of an account in the graph of some transfers

ASSUME AccountsAssumption == IsFiniteSet(Accounts)

WindowDays == 14
StepDays   == 7
MinWindowsForDeviation == 3
BetweennessCap         == 1500
PageRankCap            == 800
HighDeviation          == 800
ElevatedDeviation      == 400

(* count transfers from src to dst on one day, worth amount together.  A   *)
(* log is a set of these; nobody pays to himself.                          *)
Transfer ==
  {t \in [day: Nat, src: Accounts, dst: Accounts, count: Nat \ {0},
          amount: Nat \ {0}] : t.src # t.dst}

Node == [type: {"consumer", "merchant", "payroll", "fringe"},
         cluster: {"core", "market_a", "market_b", "fringe"}]

Percents == 0..100

History ==
  [rate: Percents, ratio: Percents, refusals: Nat, disputes: Nat,
   multi: BOOLEAN, other: BOOLEAN, young: BOOLEAN]

Bands == {"low", "elevated", "high"}

AtMost(x, cap)   == IF x < cap THEN x ELSE cap
AtLeast(x, low)  == IF x > low THEN x ELSE low
Size(x)          == AtLeast(x, -x)

-----------------------------------------------------------------------------
(* Windows.                                                                *)

FirstDay(log) == Min({t.day : t \in log})
LastDay(log)  == Max({t.day : t \in log})

(* How many steps start before the last day.  A definition named           *)
(* "...Mutant" is a variant of the one after it, as a plausible bug would  *)
(* have it, and is used nowhere: this one rounds down.                     *)
StepsMutant(span) == span \div StepDays

Steps(span) == (span + StepDays - 1) \div StepDays

(* The last regular window always ends after the last day, as StepDays is  *)
(* less than WindowDays: the code's closing window is never appended.      *)
WindowsBetween(first, last, n) ==
  LET regular == [i \in 1..n |->
                    [start |-> first + (i - 1) * StepDays,
                     end |-> first + (i - 1) * StepDays + WindowDays]] IN
  IF n > 0 /\ first + (n - 1) * StepDays + WindowDays <= last
    THEN Append(regular, [start |-> first + n * StepDays, end |-> last + 1])
    ELSE regular

RollingWindows(log) ==
  IF log = {} THEN <<>>
  ELSE WindowsBetween(FirstDay(log), LastDay(log),
                      Steps(LastDay(log) - FirstDay(log)))

EdgesInWindow(log, w) == {t \in log : w.start <= t.day /\ t.day < w.end}

-----------------------------------------------------------------------------
(* The graph of some transfers, and what one window says of each account.  *)

Members(ts) == {t.src : t \in ts} \union {t.dst : t \in ts}

Counterparties(ts, a) ==
  {t.dst : t \in {x \in ts : x.src = a}}
    \union {t.src : t \in {x \in ts : x.dst = a}}

TxnCount(ts, a) ==
  MapThenSumSet(LAMBDA t : t.count, {t \in ts : a \in {t.src, t.dst}})

(* Walks of k steps between two accounts of an undirected graph; those of  *)
(* the least length are their shortest paths.                              *)
Walks(ts, n) ==
  LET walks[k \in 0..n] ==
        [s \in Members(ts) |-> [t \in Members(ts) |->
           IF k = 0 THEN (IF s = t THEN 1 ELSE 0)
           ELSE MapThenSumSet(LAMBDA v : walks[k - 1][s][v],
                              Counterparties(ts, t))]] IN
  walks

Distance(walks, n, s, t) == Min({k \in 0..n : k = n \/ walks[k][s][t] > 0})

(* Of the shortest paths of len steps from s to t, the share by way of a,  *)
(* which is there steps from s.                                            *)
Through(walks, s, a, t, len, there) ==
  (10000 * walks[there][s][a] * walks[len - there][a][t])
    \div walks[len][s][t]

(* The mean of that share over all pairs of others that are connected.     *)
BetweennessIn(nodes, walks, n, a) ==
  MapThenSumSet(
    LAMBDA p : LET len == Distance(walks, n, p[1], p[2])
                   there == Distance(walks, n, p[1], a) IN
               IF there <= len /\ len < n
                 THEN Through(walks, p[1], a, p[2], len, there) ELSE 0,
    {p \in (nodes \ {a}) \X (nodes \ {a}) : p[1] # p[2]})
    \div ((n - 1) * (n - 2))

Betweenness(ts, a) ==
  LET n == Cardinality(Members(ts)) IN
  IF a \notin Members(ts) \/ n < 3 THEN 0
  ELSE BetweennessIn(Members(ts), Walks(ts, n), n, a)

WindowSignals(log, w) ==
  LET ts == EdgesInWindow(log, w) IN
  [parties     |-> [a \in Accounts |-> Counterparties(ts, a)],
   count       |-> [a \in Accounts |-> TxnCount(ts, a)],
   betweenness |-> [a \in Accounts |-> Betweenness(ts, a)],
   pagerank    |-> [a \in Accounts |-> PageRank(ts, a)]]

-----------------------------------------------------------------------------
(* Risky counterparties and robust deviations.                             *)

(* Core accounts are not exempt.                                           *)
RiskyMutant(home, cp, nodes) ==
  /\ cp \in DOMAIN nodes
  /\ \/ nodes[cp].type = "fringe"
     \/ nodes[cp].cluster # home

(* One outside the account table is not risky; neither is a core one.      *)
Risky(home, cp, nodes) ==
  /\ cp \in DOMAIN nodes
  /\ \/ "fringe" \in {nodes[cp].type, nodes[cp].cluster}
     \/ /\ "core" \notin {home, nodes[cp].cluster}
        /\ nodes[cp].cluster # home

IllicitFraction(home, cps, nodes) ==
  IF cps = {} THEN 0
  ELSE (100 * Cardinality({cp \in cps : Risky(home, cp, nodes)}))
         \div Cardinality(cps)

(* Twice the median of the values of a function on a non-empty finite set. *)
Middle(f) ==
  LET n == Cardinality(DOMAIN f)
      rank(v) == Cardinality({k \in DOMAIN f : f[k] <= v})
      nth(i) == Min({f[k] : k \in {x \in DOMAIN f : rank(f[x]) >= i}}) IN
  nth((n + 1) \div 2) + nth(n \div 2 + 1)

Median(f) == Middle(f) \div 2

(* The median positive value, over all windows and accounts; 1 stands for  *)
(* the code's 1e-6, when none is positive.                                 *)
Floor(f) ==
  LET positive == {k \in DOMAIN f : f[k] > 0} IN
  IF positive = {} THEN 1
  ELSE AtLeast(Median([k \in positive |-> f[k]]), 1)

Total(f) == MapThenSumSet(LAMBDA k : f[k], DOMAIN f)

(* The square root of v, without its fraction, where it is at most most.   *)
Root(v, most) == Cardinality({r \in 1..most : r * r <= v})

(* Twice the standard deviation of a function to naturals, which is at     *)
(* most its greatest value.                                                *)
Spread(f) ==
  LET n == Cardinality(DOMAIN f)
      mean == (2 * Total(f)) \div n
      squares == [k \in DOMAIN f |-> (2 * f[k] - mean) * (2 * f[k] - mean)] IN
  Root(Total(squares) \div n, Max({f[k] : k \in DOMAIN f}))

(* Deviation of a value from the median of the baseline, in units of the   *)
(* baseline's median absolute or standard deviation, or half the floor,    *)
(* whichever is greatest.  Both are doubled here, as Middle doubles.       *)
RobustZ(value, history, floor, cap) ==
  LET middle == Middle(history)
      off == [k \in DOMAIN history |-> Size(2 * history[k] - middle)]
      scale == AtLeast(AtLeast((14826 * Middle(off)) \div 20000,
                               Spread(history)), floor)
      z == (100 * (2 * value - middle)) \div scale IN
  AtLeast(AtMost(z, cap), -cap)

(* Structural movement counts for little unless it is towards the risky.   *)
Gated(x, il) == (x * (1500 + 85 * il)) \div 10000

-----------------------------------------------------------------------------
(* The profile of one account.                                             *)

NoWindow == 0

UnmeasuredProfile ==
  [deviation |-> 0, fraction |-> 0, peak |-> NoWindow, windows |-> 0,
   baseline |-> 0, insufficient |-> TRUE]

BaselineSize(n) == AtLeast((4 * n + 9) \div 10, 2)

Active(signals, a) == {i \in DOMAIN signals : signals[i].parties[a] # {}}

BaselineWindows(active) ==
  {i \in active :
     Cardinality({k \in active : k <= i}) <= BaselineSize(Cardinality(active))}

(* All that the profiles of one log are computed from.                     *)
MeasuredIn(windows, signals) ==
  [windows |-> windows, signals |-> signals,
   midpoint |-> windows[Len(windows) \div 2 + 1].start,
   btwFloor |-> Floor([p \in (DOMAIN windows) \X Accounts |->
                         signals[p[1]].betweenness[p[2]]]),
   prFloor  |-> Floor([p \in (DOMAIN windows) \X Accounts |->
                         signals[p[1]].pagerank[p[2]]])]

Illicit(m, a, nodes, i) ==
  IllicitFraction(nodes[a].cluster, m.signals[i].parties[a], nodes)

(* What a late, thin account scores in window i.                           *)
EmergenceAt(m, a, nodes, i) ==
  LET s == m.signals[i]
      il == Illicit(m, a, nodes, i) IN
  Gated(AtMost((100 * s.betweenness[a]) \div m.btwFloor, 2000), il)
    + (30 * AtMost(s.count[a], 20) * il) \div 100

(* What an account scores in window i against its baseline.                *)
DeviationAt(m, a, nodes, i) ==
  LET s == m.signals[i]
      base == BaselineWindows(Active(m.signals, a))
      btwZ == RobustZ(s.betweenness[a],
                      [k \in base |-> m.signals[k].betweenness[a]],
                      m.btwFloor, BetweennessCap)
      prZ == RobustZ(s.pagerank[a], [k \in base |-> m.signals[k].pagerank[a]],
                     m.prFloor, PageRankCap)
      il == Illicit(m, a, nodes, i)
      known == UNION {m.signals[k].parties[a] : k \in base}
      turnover == (100 * Cardinality(s.parties[a] \ known))
                    \div AtLeast(Cardinality(s.parties[a]), 1)
      ramp == (100 * Cardinality(base) * s.count[a])
                \div (Total([k \in base |-> m.signals[k].count[a]])
                        + Cardinality(base)) IN
  Gated(AtLeast(btwZ, 0), il) + (Size(prZ) * il) \div 100
    + (3 * turnover * il) \div 100 + (60 * AtMost(ramp, 1000) * il) \div 10000

NoScore == [score |-> 0, at |-> NoWindow]

(* The first window where a value, given for some, is greatest.            *)
Peak(f) == Min({i \in DOMAIN f : \A k \in DOMAIN f : f[k] <= f[i]})

(* An account that was hardly there in the first half.                     *)
Emergence(m, a, nodes, active) ==
  LET late == {i \in active : m.windows[i].start >= m.midpoint} IN
  IF Cardinality(active \ late) > 1 \/ late = {} THEN NoScore
  ELSE LET hub == Peak([i \in late |-> m.signals[i].betweenness[a]]) IN
       [score |-> EmergenceAt(m, a, nodes, hub), at |-> hub]

AtPeak(f) == [score |-> f[Peak(f)], at |-> Peak(f)]

(* Its greatest deviation in a window after its baseline.                  *)
Shift(m, a, nodes, candidates) ==
  IF candidates = {} THEN NoScore
  ELSE AtPeak([i \in candidates |-> DeviationAt(m, a, nodes, i)])

Candidates(active) ==
  IF Cardinality(active) >= MinWindowsForDeviation
    THEN active \ BaselineWindows(active) ELSE {}

(* The shift comes second and overwrites the explanation.                  *)
PeakWindow(emergence, shift) ==
  IF shift.score > 0 THEN shift.at
  ELSE IF emergence.score > 0 THEN emergence.at ELSE NoWindow

GraphProfile(m, a, nodes, n, emergence, shift) ==
  [deviation |-> AtLeast(shift.score, emergence.score),
   fraction |-> IF PeakWindow(emergence, shift) = NoWindow THEN 0
                ELSE Illicit(m, a, nodes, PeakWindow(emergence, shift)),
   peak |-> PeakWindow(emergence, shift),
   windows |-> n,
   baseline |-> IF n >= MinWindowsForDeviation THEN BaselineSize(n) ELSE 0,
   insufficient |-> emergence.score > shift.score \/ shift.at = NoWindow]

(* An account without an active window keeps the default profile.          *)
Profile(m, a, nodes, active) ==
  IF active = {} THEN UnmeasuredProfile
  ELSE GraphProfile(m, a, nodes, Cardinality(active),
                    Emergence(m, a, nodes, active),
                    Shift(m, a, nodes, Candidates(active)))

ProfilesIn(m, nodes) ==
  [a \in DOMAIN nodes |-> Profile(m, a, nodes, Active(m.signals, a))]

(* So does every account of a log that has no window.                      *)
GraphProfiles(windows, m, nodes) ==
  IF windows = <<>> THEN [a \in DOMAIN nodes |-> UnmeasuredProfile]
  ELSE ProfilesIn(m, nodes)

DeviationBand(deviation) ==
  IF deviation >= HighDeviation THEN "high"
  ELSE IF deviation >= ElevatedDeviation THEN "elevated" ELSE "low"

-----------------------------------------------------------------------------
(* The returns signal, in ten-thousandths; the ratio is that of returns to *)
(* orders over a lifetime, in percent.                                     *)
ReturnsPoints(h, dense) ==
  45 * AtMost(2 * h.rate, 100) + 15 * AtMost(2 * h.ratio, 100)
    + 400 * AtMost(h.refusals, 3) + (1000 * AtMost(h.disputes, 3)) \div 3
    + (IF h.multi THEN 800 ELSE 0) + (IF h.other THEN 600 ELSE 0)
    + (IF dense THEN 400 ELSE 0)

(* A young account is excused instead of charged.                          *)
SurchargeMutant(h) == IF h.young /\ h.rate > 25 THEN -500 ELSE 0

Surcharge(h) == IF h.young /\ h.rate > 25 THEN 500 ELSE 0

(* The cap is left out.                                                    *)
ReturnsScoreMutant(h, dense) == ReturnsPoints(h, dense) + Surcharge(h)

ReturnsScore(h, dense) ==
  AtMost(ReturnsPoints(h, dense) + Surcharge(h), 10000)

ReturnsBand(score) ==
  IF score >= 6000 THEN "high"
  ELSE IF score >= 3500 THEN "elevated" ELSE "low"

=============================================================================
