-------------------------------- MODULE MCRisk -------------------------------
(***************************************************************************)
(* Constants for TLC: a market with a regular account and two shops, a     *)
(* payroll and a fringe account, and logs in which the regular account     *)
(* does the usual, bursts or turns to the fringe, on each of a few days.   *)
(***************************************************************************)
EXTENDS RiskBatch, TLC

CONSTANTS acc, shopA, shopB, thin, payer, b1, b2, none

Everyone == {acc, shopA, shopB, thin, payer}

(* The first step of the power iteration, from the uniform rank.           *)
FirstRank(ts, a) ==
  LET n == Cardinality(Members(ts))
      out(x) == MapThenSumSet(LAMBDA t : t.amount, {t \in ts : t.src = x}) IN
  IF a \notin Members(ts) THEN 0
  ELSE (1500
          + MapThenSumSet(LAMBDA t : (8500 * t.amount) \div out(t.src),
                          {t \in ts : t.dst = a})
          + (8500 * Cardinality({x \in Members(ts) : out(x) = 0})) \div n)
         \div n

Pays(src, dst, count) ==
  [src |-> src, dst |-> dst, count |-> count, amount |-> count]

On(day, payments) ==
  {[day |-> day, src |-> t.src, dst |-> t.dst, count |-> t.count,
    amount |-> t.amount] : t \in payments}

Quiet  == {}
Usual  == {Pays(payer, acc, 1), Pays(acc, shopA, 1), Pays(shopA, shopB, 1)}
Burst  == {Pays(payer, acc, 1), Pays(acc, shopA, 20), Pays(acc, shopB, 20)}
Payday == {Pays(payer, acc, 20), Pays(payer, shopA, 20)}
Fringe == {Pays(acc, thin, 20), Pays(thin, shopB, 1)}

Log(g) == UNION {On(day, g[day]) : day \in DOMAIN g}

Clusters ==
  [a \in Everyone |->
     CASE a = payer -> [type |-> "payroll", cluster |-> "core"]
       [] a = thin -> [type |-> "fringe", cluster |-> "fringe"]
       [] a = shopB -> [type |-> "merchant", cluster |-> "market_a"]
       [] a = shopA -> [type |-> "merchant", cluster |-> "market_a"]
       [] a = acc -> [type |-> "consumer", cluster |-> "market_a"]]

Returns(rate, disputes, young) ==
  [rate |-> rate, ratio |-> rate, refusals |-> disputes, disputes |-> disputes,
   multi |-> disputes > 3, other |-> disputes > 3, young |-> young]

(* Of the same returns, one account young and one not.                     *)
Histories ==
  [a \in {acc, shopA, thin} |->
     CASE a = acc -> Returns(30, 1, TRUE)
       [] a = shopA -> Returns(30, 1, FALSE)
       [] a = thin -> Returns(90, 4, TRUE)]

Corpus(log, nodes, histories) ==
  [edges |-> log, nodes |-> nodes, history |-> histories, dense |-> {thin}]

Full(log) == Corpus(log, Clusters, Histories)

Before == Log((0 :> Usual) @@ (14 :> Usual) @@ (35 :> Burst))
After  == Log((0 :> Usual) @@ (14 :> Usual) @@ (35 :> Fringe))

(* The rebuilt store has lost shopB, and the history of shopA.             *)
Rebuilt ==
  Corpus(After, [a \in Everyone \ {shopB} |-> Clusters[a]],
         [a \in {acc, thin} |-> Histories[a]])

(* Logs in which the regular account starts at once or late, and then does *)
(* one thing or another in the last two weeks.                             *)
Turn(start, next, last) ==
  Log((0 :> start) @@ (14 :> Usual) @@ (28 :> next) @@ (35 :> last))
Turning ==
  <<Turn(Usual, Quiet, Burst), Turn(Quiet, Quiet, Fringe),
    Turn(Usual, Burst, Fringe), Turn(Quiet, Payday, Quiet),
    Turn(Quiet, Fringe, Quiet), Turn(Usual, Fringe, Quiet)>>

(* Logs of three months and thirteen windows, in which a baseline may have *)
(* five: one that does not move (its floor counts), one that moves once    *)
(* (its standard deviation counts), one that moves to and fro (its median  *)
(* deviation counts), each before a turn in the twelfth week; and a        *)
(* regular account seen once early, and then from the ninth week on.       *)
Steady   == [week \in 0..8 |-> IF week % 2 = 0 THEN Usual ELSE Quiet]
Jolted   == [week \in 0..8 |-> IF week = 0 THEN Payday
                              ELSE IF week % 2 = 0 THEN Burst ELSE Quiet]
Wavering == [week \in 0..8 |-> IF week \in {0, 1} THEN Payday
                              ELSE IF week \in {4, 5} THEN Burst
                              ELSE IF week % 2 = 0 THEN Usual ELSE Quiet]
Absent   == [week \in 0..8 |-> IF week \in {0, 8} THEN Usual ELSE Quiet]

Season(early, turn) ==
  {[t EXCEPT !.day = 7 * t.day] :
     t \in Log([week \in 0..8 |-> early[week]] @@ (11 :> turn) @@ (13 :> Usual))}

Seasons ==
  <<Season(Steady, Burst), Season(Jolted, Fringe \union Usual),
    Season(Wavering, Fringe \union Usual), Season(Absent, Payday)>>

(* The stores by number; the third has one instant, the fourth four days.  *)
Stores ==
  <<Full(Before), Rebuilt, Full(Log(5 :> Fringe)),
    Full(Log((0 :> Usual) @@ (3 :> Burst)))>>
    \o [i \in DOMAIN Turning |-> Full(Turning[i])]
    \o [i \in DOMAIN Seasons |-> Full(Seasons[i])]
StoreNumbered(c) == IF c = none THEN EmptyStore ELSE Stores[c]
ManyCorpora == DOMAIN Stores
Rebuilds    == {<<1, 2>>}
SomeCorpora == {1, 3}

TwoBatches == {b1, b2}
=============================================================================
