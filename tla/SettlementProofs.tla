------------------------- MODULE SettlementProofs --------------------------
(***************************************************************************)
(* The laws of SettlementLaws for every line, every score and every offer, *)
(* what the batch of Settlement pays, whoever reports the match, and what  *)
(* it books.                                                               *)
(*                                                                         *)
(* The argument: the two components of a split line are multiples of half  *)
(* a point and half a point apart, a score is a multiple of a point, so    *)
(* how far the score is beyond the lower component, in half points, grades *)
(* the bet (Graded).                                                       *)
(***************************************************************************)
EXTENDS Settlement, FiniteSetTheorems, TLAPS

\* The lower component of a split line, in half points.
HalfPoints(l) == (RoundQuarter(l) - 1) \div 2

\* Result of a split bet whose lesser component is k half points ahead.
Graded(k) ==
    IF k > 0 THEN "WIN" ELSE IF k = 0 THEN "HALF_WIN" ELSE IF k = -1 THEN "HALF_LOSS" ELSE "LOSS"

\* Lines and their opposites round alike.
LEMMA RoundingMirror ==
  ASSUME NEW l \in Int
  PROVE  RoundQuarter(-l) = -RoundQuarter(l)
  BY DEF RoundQuarter, Quarter

LEMMA RoundingType ==
  ASSUME NEW l \in Int
  PROVE  RoundQuarter(l) \in Int /\ HalfPoints(l) \in Int
  BY DEF RoundQuarter, Quarter, HalfPoints

\* The components of a split line are neighbouring half points.
LEMMA Components ==
  ASSUME NEW l \in Int, IsSplit(l)
  PROVE  /\ Lower(l) = 20 * HalfPoints(l)
         /\ Upper(l) = 20 * HalfPoints(l) + 20
<1>1. RoundQuarter(l) \in Int /\ HalfPoints(l) \in Int
  BY RoundingType
<1>2. RoundQuarter(l) - 1 = 2 * HalfPoints(l)
  BY <1>1 DEF IsSplit, HalfPoints
<1>3. ASSUME NEW q \in Int, NEW h \in Int, q - 1 = 2 * h
      PROVE  10 * (q - 1) = 20 * h /\ 10 * (q + 1) = 20 * h + 20
  BY <1>3
<1> QED
  BY <1>1, <1>2, <1>3 DEF Lower, Upper, Quarter

LEMMA SplitMirror ==
  ASSUME NEW l \in Int
  PROVE  /\ IsSplit(-l) <=> IsSplit(l)
         /\ IsSplit(l) => HalfPoints(-l) = -HalfPoints(l) - 1
<1>1. RoundQuarter(l) \in Int /\ RoundQuarter(-l) = -RoundQuarter(l)
  BY RoundingMirror, RoundingType
<1>2. ASSUME NEW q \in Int
      PROVE  /\ (-q) % 2 # 0 <=> q % 2 # 0
             /\ q % 2 # 0 => (-q - 1) \div 2 = -((q - 1) \div 2) - 1
  OBVIOUS
<1> QED
  BY <1>1, <1>2 DEF IsSplit, HalfPoints

\* Two components half a point apart are graded by the lesser one, in either order.
LEMMA Grading ==
  ASSUME NEW k \in Int
  PROVE  /\ CombineAsian(SingleLineResult(20 * k), SingleLineResult(20 * k + 20)) = Graded(k)
         /\ CombineAsian(SingleLineResult(20 * k + 20), SingleLineResult(20 * k)) = Graded(k)
<1>1. CASE k > 0
  BY <1>1 DEF CombineAsian, SingleLineResult, Score, Graded
<1>2. CASE k = 0
  BY <1>2 DEF CombineAsian, SingleLineResult, Score, Graded
<1>3. CASE k = -1
  BY <1>3 DEF CombineAsian, SingleLineResult, Score, Graded
<1>4. CASE k < -1
  BY <1>4 DEF CombineAsian, SingleLineResult, Score, Graded
<1> QED
  BY <1>1, <1>2, <1>3, <1>4

\* A bet on a line, for whole scores.
LEMMA LineForm ==
  ASSUME NEW m \in Int, NEW l \in Int
  PROVE  /\ LineResult(m * Point, 1, l) =
              IF IsSplit(l) THEN Graded(2 * m + HalfPoints(l))
              ELSE SingleLineResult(40 * m + l)
         /\ LineResult(m * Point, -1, l) =
              IF IsSplit(l) THEN Graded(2 * m - HalfPoints(l) - 1)
              ELSE SingleLineResult(40 * m - l)
<1> DEFINE h == HalfPoints(l)
<1>1. h \in Int
  BY RoundingType
<1>2. CASE IsSplit(l)
  <2>1. Lower(l) = 20 * h /\ Upper(l) = 20 * h + 20
    BY <1>2, Components
  <2>2. /\ m * Point + 1 * Lower(l) = 20 * (2 * m + h)
        /\ m * Point + 1 * Upper(l) = 20 * (2 * m + h) + 20
        /\ m * Point + (-1) * Lower(l) = 20 * (2 * m - h - 1) + 20
        /\ m * Point + (-1) * Upper(l) = 20 * (2 * m - h - 1)
    BY <1>1, <2>1 DEF Point, Quarter
  <2>3. 2 * m + h \in Int /\ 2 * m - h - 1 \in Int
    BY <1>1
  <2> HIDE DEF h
  <2> QED
    BY <1>2, <2>2, <2>3, Grading DEF LineResult, h
<1>3. CASE ~IsSplit(l)
  BY <1>3 DEF LineResult, Point, Quarter
<1> QED
  BY <1>2, <1>3

\* The four bets on a line, for any score.
LEMMA BetForms ==
  ASSUME NEW l \in Int, NEW x \in Nat, NEW y \in Nat
  PROVE  LET t == x + y
             m == x - y
             h == HalfPoints(l)
         IN  /\ TotalsResult("over", x, y, l)
                  = IF IsSplit(l) THEN Graded(2 * t - h - 1) ELSE SingleLineResult(40 * t - l)
             /\ TotalsResult("under", x, y, l)
                  = IF IsSplit(l) THEN Graded(2 * (-t) + h) ELSE SingleLineResult(40 * (-t) + l)
             /\ HandicapResult("home", x, y, l)
                  = IF IsSplit(l) THEN Graded(2 * m + h) ELSE SingleLineResult(40 * m + l)
             /\ HandicapResult("away", x, y, -l)
                  = IF IsSplit(l) THEN Graded(2 * (-m) - h - 1)
                    ELSE SingleLineResult(40 * (-m) - l)
<1> DEFINE t == x + y
           m == x - y
           h == HalfPoints(l)
<1>1. /\ t \in Int /\ m \in Int /\ -t \in Int /\ -m \in Int /\ -l \in Int /\ h \in Int
  BY RoundingType
<1>2. TotalsResult("over", x, y, l) = LineResult(t * Point, -1, l)
  BY DEF TotalsResult
<1>3. TotalsResult("under", x, y, l) = LineResult((-t) * Point, 1, l)
  BY <1>1 DEF TotalsResult, Point, Quarter
<1>4. HandicapResult("home", x, y, l) = LineResult(m * Point, 1, l)
  BY DEF HandicapResult
<1>5. y - x = -m
  BY <1>1
<1>6. HandicapResult("away", x, y, -l) = LineResult((-m) * Point, 1, -l)
  BY <1>5 DEF HandicapResult
<1> HIDE DEF t, m, h
<1>7. LineResult((-m) * Point, 1, -l)
         = IF IsSplit(l) THEN Graded(2 * (-m) + HalfPoints(-l))
           ELSE SingleLineResult(40 * (-m) + (-l))
  BY <1>1, LineForm, SplitMirror
<1>8. /\ IsSplit(l) => 2 * (-m) + HalfPoints(-l) = 2 * (-m) - h - 1
      /\ 40 * (-m) + (-l) = 40 * (-m) - l
  <2>1. IsSplit(l) => HalfPoints(-l) = -h - 1
    BY SplitMirror DEF h
  <2> QED
    BY <1>1, <2>1
<1>9. TotalsResult("over", x, y, l)
         = IF IsSplit(l) THEN Graded(2 * t - h - 1) ELSE SingleLineResult(40 * t - l)
  BY <1>1, <1>2, LineForm DEF h
<1>10. TotalsResult("under", x, y, l)
          = IF IsSplit(l) THEN Graded(2 * (-t) + h) ELSE SingleLineResult(40 * (-t) + l)
  BY <1>1, <1>3, LineForm DEF h
<1>11. HandicapResult("home", x, y, l)
          = IF IsSplit(l) THEN Graded(2 * m + h) ELSE SingleLineResult(40 * m + l)
  BY <1>1, <1>4, LineForm DEF h
<1> QED
  BY <1>6, <1>7, <1>8, <1>9, <1>10, <1>11 DEF t, m, h

---------------------------------------------------------------------------
\* Lines stay whole numbers and scores natural ones.
THEOREM LawsTypeCorrect == Spec => []TypeOK
<1>1. Init => TypeOK
  BY OfferAssumption DEF Init, TypeOK
<1>2. TypeOK /\ [Next]_vars => TypeOK'
  BY OfferAssumption DEF TypeOK, Next, HomeScores, AwayScores, vars
<1> QED
  BY <1>1, <1>2, PTL DEF Spec

\* No push on a quarter line, no half result on any other.
THEOREM NoQuarterPush == Spec => []QuartersNeverPush
<1>1. ASSUME NEW k PROVE Graded(k) \in Result \ {"PUSH"}
  BY DEF Graded, Result
<1>2. ASSUME NEW v PROVE SingleLineResult(v) \in {"WIN", "PUSH", "LOSS"}
  BY DEF SingleLineResult
<1>3. TypeOK => QuartersNeverPush
  <2> SUFFICES ASSUME TypeOK PROVE QuartersNeverPush
    OBVIOUS
  <2> DEFINE t == home + away
             m == home - away
             h == HalfPoints(line)
  <2>1. /\ Over = IF IsSplit(line) THEN Graded(2 * t - h - 1) ELSE SingleLineResult(40 * t - line)
        /\ Under = IF IsSplit(line) THEN Graded(2 * (-t) + h) ELSE SingleLineResult(40 * (-t) + line)
        /\ HomeBet = IF IsSplit(line) THEN Graded(2 * m + h) ELSE SingleLineResult(40 * m + line)
        /\ AwayBet = IF IsSplit(line) THEN Graded(2 * (-m) - h - 1)
                     ELSE SingleLineResult(40 * (-m) - line)
    BY BetForms DEF TypeOK, Over, Under, HomeBet, AwayBet
  <2> HIDE DEF t, m, h
  <2>2. CASE IsSplit(line)
    BY <1>1, <2>1, <2>2 DEF QuartersNeverPush
  <2>3. CASE ~IsSplit(line)
    BY <1>2, <2>1, <2>3 DEF QuartersNeverPush
  <2> QED
    BY <2>2, <2>3
<1> QED
  BY <1>3, LawsTypeCorrect, PTL

\* Both sides of every market settle oppositely.
THEOREM Mirror == Spec => []SidesMirror
<1>1. ASSUME NEW k \in Int, NEW j \in Int, j = -k - 1
      PROVE  Rank(Graded(j)) = -Rank(Graded(k))
  BY <1>1 DEF Graded, Rank
<1>2. ASSUME NEW v \in Int, NEW u \in Int, u = -v
      PROVE  Rank(SingleLineResult(u)) = -Rank(SingleLineResult(v))
  BY <1>2 DEF SingleLineResult, Rank
<1>3. TypeOK => SidesMirror
  <2> SUFFICES ASSUME TypeOK PROVE SidesMirror
    OBVIOUS
  <2> DEFINE t == home + away
             m == home - away
             h == HalfPoints(line)
  <2>1. t \in Int /\ m \in Int /\ h \in Int /\ line \in Int
    BY RoundingType DEF TypeOK
  <2>2. /\ Over = IF IsSplit(line) THEN Graded(2 * t - h - 1) ELSE SingleLineResult(40 * t - line)
        /\ Under = IF IsSplit(line) THEN Graded(2 * (-t) + h) ELSE SingleLineResult(40 * (-t) + line)
        /\ HomeBet = IF IsSplit(line) THEN Graded(2 * m + h) ELSE SingleLineResult(40 * m + line)
        /\ AwayBet = IF IsSplit(line) THEN Graded(2 * (-m) - h - 1)
                     ELSE SingleLineResult(40 * (-m) - line)
    BY BetForms DEF TypeOK, Over, Under, HomeBet, AwayBet
  <2> HIDE DEF t, m, h
  <2>3. /\ 2 * (-t) + h = -(2 * t - h - 1) - 1
        /\ 2 * (-m) - h - 1 = -(2 * m + h) - 1
        /\ 40 * (-t) + line = -(40 * t - line)
        /\ 40 * (-m) - line = -(40 * m + line)
    BY <2>1
  <2>4. /\ 2 * t - h - 1 \in Int /\ 2 * m + h \in Int /\ 2 * (-t) + h \in Int
        /\ 2 * (-m) - h - 1 \in Int /\ 40 * t - line \in Int /\ 40 * m + line \in Int
        /\ 40 * (-t) + line \in Int /\ 40 * (-m) - line \in Int
    BY <2>1
  <2>5. CASE IsSplit(line)
    BY <1>1, <2>2, <2>3, <2>4, <2>5 DEF SidesMirror
  <2>6. CASE ~IsSplit(line)
    BY <1>2, <2>2, <2>3, <2>4, <2>6 DEF SidesMirror
  <2> QED
    BY <2>5, <2>6
<1> QED
  BY <1>3, LawsTypeCorrect, PTL

\* A quarter line pays what two bets of half the stake on its neighbours pay.
LEMMA QuarterLine ==
  ASSUME NEW l \in Int, l % (2 * Quarter) = Quarter
  PROVE  IsSplit(l) /\ Lower(l) = l - Quarter /\ Upper(l) = l + Quarter
  BY DEF IsSplit, Lower, Upper, RoundQuarter, Quarter

\* The payments of a graded bet and of its two halves.
LEMMA GradedPays ==
  ASSUME NEW a, NEW b, NEW stake \in Nat, NEW odds \in Nat,
         a \in {"WIN", "PUSH", "LOSS"}, b \in {"WIN", "PUSH", "LOSS"},
         a = "WIN" => b # "LOSS", a = "LOSS" => b # "WIN"
  PROVE  SettleProfit(CombineAsian(a, b), stake, odds)
            = Half(a, stake, odds) + Half(b, stake, odds)
<1> DEFINE x == stake * (odds - Even)
           y == stake * Even
<1>1. x \in Int /\ y \in Int
  BY DEF Even
<1>2. 2 * stake * (odds - Even) = x + x /\ 2 * stake * Even = y + y
  BY DEF Even
<1>3. \A r : SettleProfit(r, stake, odds) =
               IF r = "WIN" THEN x + x ELSE IF r = "HALF_WIN" THEN x
               ELSE IF r = "HALF_LOSS" THEN -y ELSE IF r = "LOSS" THEN -(y + y) ELSE 0
  BY <1>2 DEF SettleProfit
<1>4. \A r : Half(r, stake, odds) = IF r = "WIN" THEN x ELSE IF r = "LOSS" THEN -y ELSE 0
  BY DEF Half
<1> HIDE DEF x, y
<1>5. CASE a = "WIN"
  BY <1>1, <1>3, <1>4, <1>5 DEF CombineAsian, Score
<1>6. CASE a = "PUSH"
  BY <1>1, <1>3, <1>4, <1>6 DEF CombineAsian, Score
<1>7. CASE a = "LOSS"
  BY <1>1, <1>3, <1>4, <1>7 DEF CombineAsian, Score
<1> QED
  BY <1>5, <1>6, <1>7

THEOREM HalfStakes == Spec => []SplitStake
<1>1. TypeOK => SplitStake
  <2> SUFFICES ASSUME TypeOK, line % (2 * Quarter) = Quarter,
                      NEW stake \in Stake, NEW odds \in Odds
               PROVE  LET total == (home + away) * Point
                          margin == (home - away) * Point
                          Two(a, b) == Half(SingleLineResult(a), stake, odds)
                                          + Half(SingleLineResult(b), stake, odds)
                      IN  /\ SettleProfit(Over, stake, odds)
                               = Two(total - line + Quarter, total - line - Quarter)
                          /\ SettleProfit(HomeBet, stake, odds)
                               = Two(margin + line - Quarter, margin + line + Quarter)
    BY DEF SplitStake
  <2>1. stake \in Nat /\ odds \in Nat
    BY OfferAssumption
  <2>2. line \in Int /\ IsSplit(line) /\ Lower(line) = line - Quarter
           /\ Upper(line) = line + Quarter
    BY QuarterLine DEF TypeOK
  \* Neighbouring components never settle as a win and a loss.
  <2>3. ASSUME NEW m \in Int
        PROVE  LET a == SingleLineResult(m * Point - line + Quarter)
                   b == SingleLineResult(m * Point - line - Quarter)
                   c == SingleLineResult(m * Point + line - Quarter)
                   d == SingleLineResult(m * Point + line + Quarter)
               IN  /\ a = "WIN" => b # "LOSS"
                   /\ a = "LOSS" => b # "WIN"
                   /\ c = "WIN" => d # "LOSS"
                   /\ c = "LOSS" => d # "WIN"
    <3>1. PICK k \in Int : line = 20 * k + 10
      <4>1. line = 20 * (line \div 20) + (line % 20) /\ line \div 20 \in Int
        BY <2>2
      <4>2. line % 20 = 10
        BY DEF Quarter
      <4>3. line = 20 * (line \div 20) + 10
        BY <4>1, <4>2
      <4> QED
        BY <4>1, <4>3
    <3> QED
      BY <3>1 DEF SingleLineResult, Point, Quarter
  <2>4. \A v : SingleLineResult(v) \in {"WIN", "PUSH", "LOSS"}
    BY DEF SingleLineResult
  <2>5. ASSUME NEW m \in Int
        PROVE  /\ SettleProfit(LineResult(m * Point, -1, line), stake, odds)
                     = Half(SingleLineResult(m * Point - line + Quarter), stake, odds)
                         + Half(SingleLineResult(m * Point - line - Quarter), stake, odds)
               /\ SettleProfit(LineResult(m * Point, 1, line), stake, odds)
                     = Half(SingleLineResult(m * Point + line - Quarter), stake, odds)
                         + Half(SingleLineResult(m * Point + line + Quarter), stake, odds)
    <3>1. /\ m * Point + (-1) * Lower(line) = m * Point - line + Quarter
          /\ m * Point + (-1) * Upper(line) = m * Point - line - Quarter
          /\ m * Point + 1 * Lower(line) = m * Point + line - Quarter
          /\ m * Point + 1 * Upper(line) = m * Point + line + Quarter
      BY <2>2 DEF Point, Quarter
    <3>2. /\ LineResult(m * Point, -1, line)
                = CombineAsian(SingleLineResult(m * Point - line + Quarter),
                               SingleLineResult(m * Point - line - Quarter))
          /\ LineResult(m * Point, 1, line)
                = CombineAsian(SingleLineResult(m * Point + line - Quarter),
                               SingleLineResult(m * Point + line + Quarter))
      BY <2>2, <3>1 DEF LineResult
    <3> DEFINE a == SingleLineResult(m * Point - line + Quarter)
               b == SingleLineResult(m * Point - line - Quarter)
               c == SingleLineResult(m * Point + line - Quarter)
               d == SingleLineResult(m * Point + line + Quarter)
    <3>3. /\ a \in {"WIN", "PUSH", "LOSS"} /\ b \in {"WIN", "PUSH", "LOSS"}
          /\ c \in {"WIN", "PUSH", "LOSS"} /\ d \in {"WIN", "PUSH", "LOSS"}
      BY <2>4
    <3>4. /\ a = "WIN" => b # "LOSS"
          /\ a = "LOSS" => b # "WIN"
          /\ c = "WIN" => d # "LOSS"
          /\ c = "LOSS" => d # "WIN"
      BY <2>3
    <3> HIDE DEF a, b, c, d
    <3>5. SettleProfit(CombineAsian(a, b), stake, odds)
            = Half(a, stake, odds) + Half(b, stake, odds)
      BY <2>1, <3>3, <3>4, GradedPays
    <3>6. SettleProfit(CombineAsian(c, d), stake, odds)
            = Half(c, stake, odds) + Half(d, stake, odds)
      BY <2>1, <3>3, <3>4, GradedPays
    <3> QED
      BY <3>2, <3>5, <3>6 DEF a, b, c, d
  <2>6. home + away \in Int /\ home - away \in Int
    BY DEF TypeOK
  <2> QED
    BY <2>5, <2>6 DEF Over, TotalsResult, HomeBet, HandicapResult
<1> QED
  BY <1>1, LawsTypeCorrect, PTL

\* One selection of three wins.
THEOREM SingleWinner == Spec => []OneWinner
<1>1. TypeOK => OneWinner
  BY DEF OneWinner, MoneylineResult, TypeOK
<1> QED
  BY <1>1, LawsTypeCorrect, PTL

\* Scoring moves every bet the way its market says.
THEOREM MonotoneInScore == Spec => ScoringHelps
<1>1. ASSUME NEW k \in Int, NEW j \in Int, k <= j
      PROVE  Rank(Graded(k)) <= Rank(Graded(j))
  BY <1>1 DEF Graded, Rank
<1>2. ASSUME NEW u \in Int, NEW v \in Int, u <= v
      PROVE  Rank(SingleLineResult(u)) <= Rank(SingleLineResult(v))
  BY <1>2 DEF SingleLineResult, Rank
\* The bets grow with the total, or with the margin, of a score.
<1>3. ASSUME NEW l \in Int, NEW x \in Nat, NEW y \in Nat, NEW x1 \in Nat, NEW y1 \in Nat
      PROVE  /\ x + y <= x1 + y1 =>
                  /\ Rank(TotalsResult("over", x, y, l)) <= Rank(TotalsResult("over", x1, y1, l))
                  /\ Rank(TotalsResult("under", x1, y1, l)) <= Rank(TotalsResult("under", x, y, l))
             /\ x - y <= x1 - y1 =>
                  /\ Rank(HandicapResult("home", x, y, l)) <= Rank(HandicapResult("home", x1, y1, l))
                  /\ Rank(HandicapResult("away", x1, y1, -l)) <= Rank(HandicapResult("away", x, y, -l))
  <2> DEFINE t == x + y
             m == x - y
             t1 == x1 + y1
             m1 == x1 - y1
             h == HalfPoints(l)
  <2>1. t \in Int /\ m \in Int /\ t1 \in Int /\ m1 \in Int /\ h \in Int
    BY RoundingType
  <2>2. /\ TotalsResult("over", x, y, l)
             = IF IsSplit(l) THEN Graded(2 * t - h - 1) ELSE SingleLineResult(40 * t - l)
        /\ TotalsResult("under", x, y, l)
             = IF IsSplit(l) THEN Graded(2 * (-t) + h) ELSE SingleLineResult(40 * (-t) + l)
        /\ HandicapResult("home", x, y, l)
             = IF IsSplit(l) THEN Graded(2 * m + h) ELSE SingleLineResult(40 * m + l)
        /\ HandicapResult("away", x, y, -l)
             = IF IsSplit(l) THEN Graded(2 * (-m) - h - 1) ELSE SingleLineResult(40 * (-m) - l)
    BY BetForms
  <2>3. /\ TotalsResult("over", x1, y1, l)
             = IF IsSplit(l) THEN Graded(2 * t1 - h - 1) ELSE SingleLineResult(40 * t1 - l)
        /\ TotalsResult("under", x1, y1, l)
             = IF IsSplit(l) THEN Graded(2 * (-t1) + h) ELSE SingleLineResult(40 * (-t1) + l)
        /\ HandicapResult("home", x1, y1, l)
             = IF IsSplit(l) THEN Graded(2 * m1 + h) ELSE SingleLineResult(40 * m1 + l)
        /\ HandicapResult("away", x1, y1, -l)
             = IF IsSplit(l) THEN Graded(2 * (-m1) - h - 1) ELSE SingleLineResult(40 * (-m1) - l)
    BY BetForms
  <2>4. SUFFICES
          /\ t <= t1 =>
               /\ Rank(TotalsResult("over", x, y, l)) <= Rank(TotalsResult("over", x1, y1, l))
               /\ Rank(TotalsResult("under", x1, y1, l)) <= Rank(TotalsResult("under", x, y, l))
          /\ m <= m1 =>
               /\ Rank(HandicapResult("home", x, y, l)) <= Rank(HandicapResult("home", x1, y1, l))
               /\ Rank(HandicapResult("away", x1, y1, -l)) <= Rank(HandicapResult("away", x, y, -l))
    OBVIOUS
  <2> HIDE DEF t, m, t1, m1, h
  <2>5. CASE IsSplit(l)
    <3>1. /\ t <= t1 => /\ Rank(Graded(2 * t - h - 1)) <= Rank(Graded(2 * t1 - h - 1))
                        /\ Rank(Graded(2 * (-t1) + h)) <= Rank(Graded(2 * (-t) + h))
          /\ m <= m1 => /\ Rank(Graded(2 * m + h)) <= Rank(Graded(2 * m1 + h))
                        /\ Rank(Graded(2 * (-m1) - h - 1)) <= Rank(Graded(2 * (-m) - h - 1))
      BY <1>1, <2>1
    <3> QED
      BY <2>2, <2>3, <2>5, <3>1
  <2>6. CASE ~IsSplit(l)
    <3>1. /\ t <= t1 =>
               /\ Rank(SingleLineResult(40 * t - l)) <= Rank(SingleLineResult(40 * t1 - l))
               /\ Rank(SingleLineResult(40 * (-t1) + l)) <= Rank(SingleLineResult(40 * (-t) + l))
          /\ m <= m1 =>
               /\ Rank(SingleLineResult(40 * m + l)) <= Rank(SingleLineResult(40 * m1 + l))
               /\ Rank(SingleLineResult(40 * (-m1) - l)) <= Rank(SingleLineResult(40 * (-m) - l))
      BY <1>2, <2>1
    <3> QED
      BY <2>2, <2>3, <2>6, <3>1
  <2> QED
    BY <2>5, <2>6
<1>4. \A r : Rank(r) \in Int
  BY DEF Rank
<1>5. ASSUME TypeOK, TypeOK', Next
      PROVE  /\ Rank(Over') >= Rank(Over)
             /\ Rank(Under') <= Rank(Under)
             /\ home' > home => Rank(HomeBet') >= Rank(HomeBet) /\ Rank(AwayBet') <= Rank(AwayBet)
             /\ away' > away => Rank(HomeBet') <= Rank(HomeBet) /\ Rank(AwayBet') >= Rank(AwayBet)
  <2>1. /\ line \in Int /\ home \in Nat /\ away \in Nat
        /\ home' \in Nat /\ away' \in Nat /\ line' = line
    BY <1>5 DEF TypeOK, Next, HomeScores, AwayScores
  <2>2. /\ home + away <= home' + away'
        /\ home' > home => home - away <= home' - away'
        /\ away' > away => home' - away' <= home - away
    <3>1. CASE home' = home + 1 /\ away' = away
      BY <2>1, <3>1
    <3>2. CASE away' = away + 1 /\ home' = home
      BY <2>1, <3>2
    <3> QED
      BY <1>5, <3>1, <3>2 DEF Next, HomeScores, AwayScores
  <2>3. /\ Over' = TotalsResult("over", home', away', line)
        /\ Under' = TotalsResult("under", home', away', line)
        /\ HomeBet' = HandicapResult("home", home', away', line)
        /\ AwayBet' = HandicapResult("away", home', away', -line)
    BY <2>1 DEF Over, Under, HomeBet, AwayBet
  <2>4. /\ Rank(TotalsResult("over", home, away, line))
             <= Rank(TotalsResult("over", home', away', line))
        /\ Rank(TotalsResult("under", home', away', line))
             <= Rank(TotalsResult("under", home, away, line))
    BY <1>3, <2>1, <2>2
  <2>5. home' > home =>
          /\ Rank(HandicapResult("home", home, away, line))
               <= Rank(HandicapResult("home", home', away', line))
          /\ Rank(HandicapResult("away", home', away', -line))
               <= Rank(HandicapResult("away", home, away, -line))
    BY <1>3, <2>1, <2>2
  <2>6. away' > away =>
          /\ Rank(HandicapResult("home", home', away', line))
               <= Rank(HandicapResult("home", home, away, line))
          /\ Rank(HandicapResult("away", home, away, -line))
               <= Rank(HandicapResult("away", home', away', -line))
    BY <1>3, <2>1, <2>2
  <2> QED
    BY <1>4, <2>3, <2>4, <2>5, <2>6 DEF Over, Under, HomeBet, AwayBet
<1>6. TypeOK /\ TypeOK' /\ [Next]_vars =>
        [/\ Rank(Over') >= Rank(Over)
         /\ Rank(Under') <= Rank(Under)
         /\ home' > home => Rank(HomeBet') >= Rank(HomeBet) /\ Rank(AwayBet') <= Rank(AwayBet)
         /\ away' > away => Rank(HomeBet') <= Rank(HomeBet) /\ Rank(AwayBet') >= Rank(AwayBet)]_vars
  BY <1>5
<1> QED
  BY <1>6, LawsTypeCorrect, PTL DEF Spec, ScoringHelps

---------------------------------------------------------------------------
(* The batch *)

Over90 == phase \in {"FT", "AET", "PEN"}

BatchTypes ==
    /\ TypeOK
    /\ client \in {"api_football", "sportmonks", "api_tennis"}
    /\ alike \in SUBSET {"home", "away"}
    /\ phase \in {"play", "FT", "ET", "AET", "PEN"}
    /\ extra \in [{"home", "away"} -> Nat]
    /\ phase \in {"play", "FT"} => extra["home"] = 0 /\ extra["away"] = 0
    /\ phase = "FT" /\ client = "api_tennis" => home # away
    /\ DOMAIN event = {"status", "score", "winner", "spelled"}

\* A final score is that of regulation time, a named winner is its winner.
Reported ==
    event.status = "FINAL" =>
        /\ Over90
        /\ event.score \in {NoScore, Regular}
        /\ client = "api_tennis" => event.score = NoScore
        /\ event.winner # "none" =>
            /\ client = "api_tennis" /\ event.score = NoScore /\ home # away
            /\ event.winner = IF home > away THEN "home" ELSE "away"

\* What a pick is settled for: what it is owed, and a lost bet under a name of its own.
SettledFor(p) == IF OnStranger(p) THEN "LOSS" ELSE Owed(p)

\* Results of picks of this match that are settled, and for what.
Settled(r) ==
    /\ DOMAIN r = Offered
    /\ \A p \in Offered : r[p] # NoResult => Over90 /\ r[p].result = SettledFor(p)

\* A batch is about a match that is final; it never starts over a batch that is booked.
Session ==
    \/ batch = NoBatch
    \/ /\ batch.open
       /\ batch = [open |-> TRUE, results |-> batch.results, bankroll |-> batch.bankroll]
       /\ event.status = "FINAL"
       /\ Settled(batch.results)
       /\ Due(results) = DOMAIN results \/ (batch.results = results /\ batch.bankroll = bankroll)

\* All the picks are settled, or none.
AllOrNone == Due(results) \in {DOMAIN results, {}}

BatchInv == BatchTypes /\ Reported /\ Settled(results) /\ Session /\ AllOrNone

\* The score of a match: what it is and what it is not.
LEMMA Scores ==
    ASSUME NEW x, NEW y
    PROVE  <<x, y>> # NoScore /\ <<x, y>>[1] = x /\ <<x, y>>[2] = y
BY DEF NoScore

\* With a winner named, a pick on a player is settled by the spelling of the two names.
LEMMA PaysNamed ==
    ASSUME BatchTypes, Reported, event.status = "FINAL", event.winner # "none", NEW p \in Offered
    PROVE  MoneylineResult(p.selection, 0, 0, Winner)
             = IF OnStranger(p) THEN "LOSS" ELSE MoneylineResult(p.selection, home, away, "none")
<1>1. /\ client = "api_tennis" /\ home \in Nat /\ away \in Nat /\ home # away
      /\ event.winner = IF home > away THEN "home" ELSE "away"
    BY DEF Reported, BatchTypes, TypeOK
<1>2. p.selection \in {"home", "away", "draw", "over", "under"}
    BY BatchAssumption DEF Offered
<1>3. alike \in SUBSET {"home", "away"}
    BY DEF BatchTypes
<1>4. MoneylineResult(p.selection, home, away, "none")
        = IF p.selection = event.winner THEN "WIN" ELSE "LOSS"
    BY <1>1 DEF MoneylineResult
<1>5. Winner # "none"
    BY <1>1 DEF Winner
<1>6. MoneylineResult(p.selection, 0, 0, Winner)
        = IF p.selection = Winner THEN "WIN" ELSE "LOSS"
    BY <1>5 DEF MoneylineResult
<1>7. CASE p.selection \in alike
    <2>1. p.selection = Winner <=> p.selection = event.winner
        BY <1>1, <1>2, <1>3, <1>7 DEF Winner
    <2> QED
        BY <1>4, <1>6, <1>7, <2>1 DEF OnStranger
<1>8. CASE p.selection \notin alike
    <2>1. p.selection # Winner
        BY <1>1, <1>2, <1>3, <1>8 DEF Winner
    <2> QED
        BY <1>1, <1>6, <1>8, <2>1 DEF OnStranger
<1> QED
    BY <1>7, <1>8

\* What a pick is settled for, if it can be.
LEMMA Pays ==
    ASSUME BatchTypes, Reported, event.status = "FINAL", NEW p \in Offered, Settleable(p)
    PROVE  Over90 /\ SettleMarket(p, event.score) = SettledFor(p)
<1>1. Over90
    BY DEF Reported
<1>2. CASE event.score = NoScore
    <2>1. p.market = "MONEYLINE" /\ event.winner # "none"
        BY <1>2 DEF Settleable
    <2>2. SettleMarket(p, event.score) = MoneylineResult(p.selection, 0, 0, Winner)
        BY <1>2, <2>1 DEF SettleMarket
    <2>3. Owed(p) = MoneylineResult(p.selection, home, away, "none")
        BY <2>1 DEF Owed
    <2> QED
        BY <1>1, <2>1, <2>2, <2>3, PaysNamed DEF SettledFor
<1>3. CASE event.score # NoScore
    <2>1. event.score = <<home, away>> /\ event.winner = "none" /\ client # "api_tennis"
        BY <1>3 DEF Reported, Regular
    <2>2. event.score[1] = home /\ event.score[2] = away
        BY <2>1, Scores
    <2>3. Winner = "none"
        BY <2>1 DEF Winner
    <2>4. SettledFor(p) = Owed(p)
        BY <2>1 DEF SettledFor, OnStranger
    <2> QED
        BY <1>1, <1>3, <2>2, <2>3, <2>4 DEF SettleMarket, Owed
<1> QED
    BY <1>2, <1>3

\* Moves of a match that is not over: nothing is final, and no batch is open.
LEMMA MatchMoves ==
    ASSUME BatchInv, ~Over90, UNCHANGED <<reporters, event, ledger, batch>>
    PROVE  (Reported /\ Settled(results) /\ Session /\ AllOrNone)'
<1>1. event.status # "FINAL"
    BY DEF BatchInv, Reported
<1>2. /\ Offered' = Offered /\ event' = event /\ results' = results /\ batch' = batch
      /\ DOMAIN results = Offered
    BY DEF Offered, reporters, ledger, BatchInv, Settled
<1>3. \A p \in Offered : results[p] = NoResult
    BY DEF BatchInv, Settled
<1>4. batch = NoBatch
    BY <1>1 DEF BatchInv, Session
<1>5. NoBatch' = NoBatch /\ NoResult' = NoResult
    BY DEF NoBatch, NoResult
<1>6. Due(results)' = DOMAIN results'
    BY <1>2, <1>3, <1>5 DEF Due
<1> QED
    BY <1>1, <1>2, <1>3, <1>4, <1>5, <1>6 DEF Reported, Settled, Session, AllOrNone

\* What the invariant says holds when recommendations are made.
LEMMA InitBatch == BatchInit => BatchInv
<1> SUFFICES ASSUME BatchInit PROVE BatchInv
    OBVIOUS
<1>1. BatchTypes
    BY BatchAssumption, OfferAssumption DEF BatchInit, Init, BatchTypes, TypeOK
<1>2. Reported
    BY DEF BatchInit, Reported
<1>3. DOMAIN results = Offered /\ \A p \in Offered : results[p] = NoResult
    BY DEF BatchInit
<1>4. Settled(results) /\ AllOrNone /\ Session
    BY <1>3 DEF Settled, AllOrNone, Due, Session, BatchInit
<1> QED
    BY <1>1, <1>2, <1>4 DEF BatchInv

\* Types, one step later.
LEMMA BatchTypesStep == BatchTypes /\ [BatchNext]_batchVars => BatchTypes'
<1> SUFFICES ASSUME BatchTypes, [BatchNext]_batchVars PROVE BatchTypes'
    OBVIOUS
<1> USE DEF BatchTypes, TypeOK
<1>1. CASE Play
    BY <1>1, OfferAssumption DEF Play, Next, HomeScores, AwayScores, reporters
<1>2. CASE Whistle
    BY <1>2 DEF Whistle, reporters
<1>3. CASE ExtraGoal
    BY <1>3, BatchAssumption DEF ExtraGoal, reporters
<1>4. CASE EndExtra
    BY <1>4 DEF EndExtra, reporters
<1>5. CASE SyncFixture
    <2>1. DOMAIN event' = {"status", "score", "winner", "spelled"}
        BY <1>5 DEF SyncFixture, ApiFootballEvent, SportmonksEvent, TennisEvent
    <2> QED
        BY <1>5, <2>1 DEF SyncFixture, match, reporters
<1>6. CASE SyncOdds
    BY <1>6 DEF SyncOdds, match, reporters
<1>7. CASE BeginBatch \/ (\E p \in Offered : SettleNext(p)) \/ CommitBatch \/ FailBatch
    BY <1>7 DEF BeginBatch, SettleNext, CommitBatch, FailBatch, match, reporters
<1>8. CASE UNCHANGED batchVars
    BY <1>8 DEF batchVars, match, reporters
<1> QED
    BY <1>1, <1>2, <1>3, <1>4, <1>5, <1>6, <1>7, <1>8 DEF BatchNext

\* What a sync reports of a match, whichever provider does.
LEMMA ReportedStep ==
    ASSUME BatchInv, SyncFixture
    PROVE  Reported'
<1>1. UNCHANGED <<home, away, phase, client>>
    BY DEF SyncFixture, match, reporters
<1>2. PICK fulltime \in {"score", "nulls", "absent"}, marked \in BOOLEAN :
        event' = CASE client = "api_football" -> ApiFootballEvent(fulltime)
                   [] client = "sportmonks" -> SportmonksEvent
                   [] OTHER -> TennisEvent(marked)
    BY DEF SyncFixture
<1>3. phase = "FT" => Current = Regular
    BY DEF BatchInv, BatchTypes, TypeOK, Current, Regular
<1>4. CASE client = "api_football"
    <2>1. event' = ApiFootballEvent(fulltime)
        BY <1>2, <1>4
    <2> QED
        BY <1>1, <1>3, <1>4, <2>1 DEF ApiFootballEvent, Reported, Over90, Regular, BatchInv, BatchTypes
<1>5. CASE client = "sportmonks"
    <2>1. event' = SportmonksEvent
        BY <1>2, <1>5
    <2> QED
        BY <1>1, <1>3, <1>5, <2>1 DEF SportmonksEvent, Reported, Over90, Regular, BatchInv, BatchTypes
<1>6. CASE client = "api_tennis"
    <2>1. event' = TennisEvent(marked)
        BY <1>2, <1>6
    <2> QED
        BY <1>1, <1>6, <2>1 DEF TennisEvent, Reported, Over90, Regular, NoScore, BatchInv, BatchTypes
<1> QED
    BY <1>4, <1>5, <1>6 DEF BatchInv, BatchTypes

\* Results stay what they are owed while the match does not move.
LEMMA SettledFrame ==
    ASSUME NEW r, Settled(r), UNCHANGED match
    PROVE  DOMAIN r = Offered' /\ \A p \in Offered' : r[p] # NoResult => Over90' /\ r[p].result = SettledFor(p)'
<1>1. Offered' = Offered /\ (Over90' <=> Over90) /\ \A p : SettledFor(p)' = SettledFor(p)
    BY DEF Offered, match, reporters, Over90, SettledFor, Owed, OnStranger
<1> QED
    BY <1>1 DEF Settled

\* Every step of the batch and of the syncs keeps what is known of results.
LEMMA BatchStep == BatchInv /\ [BatchNext]_batchVars => BatchInv'
<1> SUFFICES ASSUME BatchInv, [BatchNext]_batchVars PROVE BatchInv'
    OBVIOUS
<1>1. BatchTypes'
    BY BatchTypesStep DEF BatchInv
<1>2. SUFFICES (Reported /\ Settled(results) /\ Session /\ AllOrNone)'
    BY <1>1 DEF BatchInv
<1>3. CASE Play \/ Whistle \/ ExtraGoal \/ EndExtra
    <2>1. ~Over90 /\ UNCHANGED <<reporters, event, ledger, batch>>
        BY <1>3 DEF Play, Whistle, ExtraGoal, EndExtra, Over90
    <2> QED
        BY <2>1, MatchMoves
<1> SUFFICES ASSUME UNCHANGED match
             PROVE  (Reported /\ Settled(results) /\ Session /\ AllOrNone)'
    BY <1>3 DEF BatchNext, batchVars, SyncFixture, SyncOdds, BeginBatch, SettleNext, CommitBatch,
                FailBatch
<1>4. /\ Offered' = Offered /\ (Over90' <=> Over90) /\ Regular' = Regular
      /\ home' = home /\ away' = away /\ client' = client
      /\ NoBatch' = NoBatch /\ NoScore' = NoScore
      /\ \A r : Settled(r) => DOMAIN r = Offered' /\ \A p \in Offered' :
                                  r[p] # NoResult => Over90' /\ r[p].result = SettledFor(p)'
      /\ \A r : Due(r)' = Due(r)
    BY SettledFrame DEF Offered, match, reporters, Over90, Regular, NoBatch, NoScore, Due, NoResult
<1>5. ASSUME Settled(results'), Settled(results) PROVE Settled(results)'
    BY <1>4, <1>5 DEF Settled, NoResult
<1>6. CASE SyncFixture
    <2>1. Reported'
        BY <1>6, ReportedStep
    <2>2. results' = results /\ batch' = batch /\ batch = NoBatch
        BY <1>6 DEF SyncFixture, ledger
    <2> QED
        BY <1>4, <1>5, <2>1, <2>2 DEF BatchInv, Session, AllOrNone
<1>7. CASE SyncOdds
    <2>1. /\ event'.status = event.status /\ event'.score = event.score
          /\ event'.winner = event.winner
        BY <1>7 DEF SyncOdds, BatchInv, BatchTypes
    <2>2. results' = results /\ batch' = batch /\ batch = NoBatch
        BY <1>7 DEF SyncOdds, ledger
    <2> QED
        BY <1>4, <1>5, <2>1, <2>2 DEF BatchInv, Reported, Session, AllOrNone
<1>8. ASSUME event' = event PROVE Reported'
    BY <1>4, <1>8 DEF BatchInv, Reported
<1>9. CASE BeginBatch
    <2>1. /\ event' = event /\ results' = results /\ bankroll' = bankroll
          /\ event.status = "FINAL"
          /\ batch' = [open |-> TRUE, results |-> results, bankroll |-> bankroll]
        BY <1>9 DEF BeginBatch, ledger
    <2>2. /\ batch'.open /\ batch'.results = results /\ batch'.bankroll = bankroll
        BY <2>1
    <2> QED
        BY <1>4, <1>5, <1>8, <2>1, <2>2 DEF BatchInv, Session, AllOrNone, Settled, NoResult
<1>10. ASSUME NEW p \in Offered, SettleNext(p)
       PROVE  (Reported /\ Settled(results) /\ Session /\ AllOrNone)'
    <2> DEFINE r == [batch.results EXCEPT ![p] = BetResult(p)]
    <2>1. /\ event' = event /\ results' = results /\ bankroll' = bankroll /\ Settleable(p)
          /\ batch.open /\ p \in Due(batch.results)
          /\ batch' = [open |-> TRUE, results |-> r, bankroll |-> Booked(p)]
        BY <1>10 DEF SettleNext, ledger
    <2>2. batch # NoBatch
        BY <2>1 DEF NoBatch
    <2>3. event.status = "FINAL" /\ Settled(batch.results)
        BY <2>2 DEF BatchInv, Session
    <2>4. BetResult(p).result = SettledFor(p) /\ Over90
        BY <2>1, <2>3, Pays DEF BatchInv, BetResult
    <2>5. Due(results) = DOMAIN results
        BY <2>1, <2>2 DEF BatchInv, Session, AllOrNone
    <2>6. DOMAIN r = Offered /\ r[p] = BetResult(p)
          /\ \A q \in Offered \ {p} : r[q] = batch.results[q]
        BY <2>3 DEF Settled
    <2> HIDE DEF r
    <2>7. Settled(r)
        BY <2>3, <2>4, <2>6 DEF Settled
    <2>8. batch'.open /\ batch'.results = r /\ batch'.bankroll = Booked(p)
        BY <2>1
    <2>9. Settled(batch.results)'
        BY <1>4, <2>7, <2>8 DEF Settled, NoResult
    <2> QED
        BY <1>4, <1>5, <1>8, <2>1, <2>3, <2>5, <2>8, <2>9 DEF BatchInv, Session, AllOrNone
<1>11. CASE CommitBatch
    <2>1. /\ event' = event /\ batch' = NoBatch /\ batch.open
          /\ results' = batch.results /\ Due(batch.results) = {}
        BY <1>11 DEF CommitBatch
    <2>2. Settled(results')
        BY <2>1 DEF BatchInv, Session, NoBatch
    <2> QED
        BY <1>4, <1>5, <1>8, <2>1, <2>2 DEF BatchInv, Session, AllOrNone
<1>12. CASE FailBatch
    <2>1. event' = event /\ batch' = NoBatch /\ results' = results
        BY <1>12 DEF FailBatch, ledger
    <2> QED
        BY <1>4, <1>5, <1>8, <2>1 DEF BatchInv, Session, AllOrNone
<1>13. CASE UNCHANGED batchVars
    <2>1. event' = event /\ batch' = batch /\ results' = results /\ bankroll' = bankroll
        BY <1>13 DEF batchVars, ledger
    <2> QED
        BY <1>4, <1>5, <1>8, <2>1 DEF BatchInv, Session, AllOrNone, Settled, NoResult
<1> QED
    BY <1>3, <1>6, <1>7, <1>9, <1>10, <1>11, <1>12, <1>13 DEF BatchNext

\* The inductive invariant of a match, what is reported of it, and the batch that settles
\* its picks.
THEOREM BatchInvariance == BatchSpec => []BatchInv
BY InitBatch, BatchStep, PTL DEF BatchSpec

\* Whatever is settled is paid for the score after regulation time, except for a pick on a
\* tennis player whom the providers spell differently, which is settled as lost: for any picks
\* and lines, any number of goals in extra time, any of the three providers, whichever names
\* are spelled alike and whoever named the event last (_api_football_event, _sportmonks_event,
\* normalize_tennis_fixture, upsert_event, settle_market, settle_finished_events).
THEOREM SpecRegulationPaid == BatchSpec => []RegulationPaid
<1>1. BatchInv => RegulationPaid
    BY DEF BatchInv, Settled, RegulationPaid, SettledFor
<1> QED
    BY <1>1, BatchInvariance, PTL

\* The picks of a match are settled all at once and only once: what changes the ledger is a
\* commit that found none of them settled, and leaves none.
LEMMA SettledAtOnce ==
    ASSUME BatchInv, BatchNext, ledger' # ledger
    PROVE  /\ CommitBatch /\ batch # NoBatch
           /\ Due(results) = DOMAIN results /\ Due(results') = {}
<1>1. CommitBatch
    BY DEF BatchNext, Play, Whistle, ExtraGoal, EndExtra, SyncFixture, SyncOdds, BeginBatch,
           SettleNext, FailBatch
<1>2. /\ batch # NoBatch /\ results' = batch.results /\ bankroll' = batch.bankroll
      /\ Due(batch.results) = {}
    BY <1>1 DEF CommitBatch, NoBatch
<1> QED
    BY <1>1, <1>2 DEF BatchInv, Session, ledger

---------------------------------------------------------------------------
(* What the ledger moves by *)

\* A set of numbers that has 0, and the next of each, has them all.
LEMMA Counting ==
    ASSUME NEW Good, 0 \in Good, \A n \in Nat : n \in Good => n + 1 \in Good
    PROVE  Nat \subseteq Good
<1> SUFFICES ASSUME Nat \ Good # {} PROVE FALSE
    OBVIOUS
<1>1. PICK m \in Nat \ Good : \A y \in Nat \ Good : ~(<<y, m>> \in OpToRel(<, Nat))
    BY NatLessThanWellFounded, WFMin
<1>2. \A y \in Nat \ Good : ~(y < m)
    BY <1>1 DEF OpToRel
<1>3. m \in Nat /\ m \notin Good /\ m # 0
    BY <1>1
<1>4. m - 1 \in Nat /\ m - 1 < m /\ (m - 1) + 1 = m
    BY <1>3
<1> QED
    BY <1>2, <1>3, <1>4

First(s) == CHOOSE x \in s : TRUE

Rest(s) == s \ {First(s)}

\* What is left of a finite set is one element smaller.
LEMMA RestSmaller ==
    ASSUME NEW s, IsFiniteSet(s), s # {}
    PROVE  /\ First(s) \in s /\ First(s) \notin Rest(s) /\ s = Rest(s) \cup {First(s)}
           /\ IsFiniteSet(Rest(s)) /\ Cardinality(s) \in Nat
           /\ Cardinality(Rest(s)) \in Nat /\ Cardinality(Rest(s)) + 1 = Cardinality(s)
<1>1. First(s) \in s
    BY DEF First
<1>2. IsFiniteSet(Rest(s)) /\ Cardinality(Rest(s)) = Cardinality(s) - 1
    BY <1>1, FS_RemoveElement DEF Rest
<1>3. Cardinality(s) \in Nat /\ Cardinality(Rest(s)) \in Nat
    BY <1>2, FS_CardinalityType
<1> QED
    BY <1>1, <1>2, <1>3 DEF Rest

\* Sets of parts of S that grow by their first element are all of them.
LEMMA Growing ==
    ASSUME NEW S, IsFiniteSet(S), NEW Good, {} \in Good,
           \A s \in SUBSET S : s # {} /\ Rest(s) \in Good => s \in Good
    PROVE  SUBSET S \subseteq Good
<1> DEFINE Sizes == {n \in Nat : \A s \in SUBSET S : Cardinality(s) = n => s \in Good}
<1>1. \A s \in SUBSET S : IsFiniteSet(s) /\ Cardinality(s) \in Nat
    BY FS_Subset, FS_CardinalityType
<1>2. 0 \in Sizes
    BY <1>1, FS_EmptySet
<1>3. ASSUME NEW n \in Nat, n \in Sizes PROVE n + 1 \in Sizes
    <2> SUFFICES ASSUME NEW s \in SUBSET S, Cardinality(s) = n + 1 PROVE s \in Good
        OBVIOUS
    <2>1. s # {}
        BY FS_EmptySet
    <2>2. Cardinality(Rest(s)) = n
        BY <1>1, <2>1, RestSmaller
    <2>3. Rest(s) \in SUBSET S
        BY DEF Rest
    <2> QED
        BY <1>3, <2>1, <2>2, <2>3
<1>4. Nat \subseteq Sizes
    <2> HIDE DEF Sizes
    <2> QED
        BY <1>2, <1>3, Counting
<1> QED
    BY <1>1, <1>4

\* The recursion of sums over a function, for the parts of its domain.
Unfolds(it, f, T) ==
    it = [s \in T |-> IF s = {} THEN 0 ELSE f[First(s)] + it[Rest(s)]]

Sums(f) == CHOOSE it : Unfolds(it, f, SUBSET DOMAIN f)

\* The recursion has a solution: one for the parts of each size, the next from the last.
LEMMA SumsUnfold ==
    ASSUME NEW f, IsFiniteSet(DOMAIN f)
    PROVE  Unfolds(Sums(f), f, SUBSET DOMAIN f)
<1> DEFINE S == DOMAIN f
           Small(n) == {s \in SUBSET S : Cardinality(s) <= n}
           Sizes == {n \in Nat : \E it : Unfolds(it, f, Small(n))}
<1>1. \A s \in SUBSET S : IsFiniteSet(s) /\ Cardinality(s) \in Nat /\ Cardinality(s) <= Cardinality(S)
    BY FS_Subset, FS_CardinalityType
<1>2. 0 \in Sizes
    <2> DEFINE it == [s \in Small(0) |-> 0]
    <2>1. \A s \in Small(0) : s = {}
        BY <1>1, FS_EmptySet
    <2>2. Unfolds(it, f, Small(0))
        BY <2>1 DEF Unfolds
    <2> QED
        BY <2>2
<1>3. ASSUME NEW n \in Nat, n \in Sizes PROVE n + 1 \in Sizes
    <2>1. PICK it : Unfolds(it, f, Small(n))
        BY <1>3
    <2> DEFINE next == [s \in Small(n + 1) |-> IF s = {} THEN 0 ELSE f[First(s)] + it[Rest(s)]]
    <2>2. ASSUME NEW s \in Small(n + 1), s # {} PROVE Rest(s) \in Small(n)
        <3>1. Cardinality(Rest(s)) \in Nat /\ Cardinality(Rest(s)) + 1 = Cardinality(s)
            BY <1>1, <2>2, RestSmaller
        <3>2. Rest(s) \in SUBSET S
            BY DEF Rest
        <3> QED
            BY <3>1, <3>2
    <2>3. Small(n) \subseteq Small(n + 1)
        BY <1>1
    <2>4. \A s \in Small(n) : it[s] = IF s = {} THEN 0 ELSE f[First(s)] + it[Rest(s)]
        <3> HIDE DEF Small
        <3> QED
            BY <2>1 DEF Unfolds
    <2> HIDE DEF Small
    <2>5. \A s \in Small(n) : next[s] = it[s]
        BY <2>3, <2>4
    <2>6. Unfolds(next, f, Small(n + 1))
        <3>1. ASSUME NEW s \in Small(n + 1)
              PROVE  (IF s = {} THEN 0 ELSE f[First(s)] + it[Rest(s)])
                        = (IF s = {} THEN 0 ELSE f[First(s)] + next[Rest(s)])
            BY <2>2, <2>5
        <3> DEFINE again == [s \in Small(n + 1) |-> IF s = {} THEN 0 ELSE f[First(s)] + next[Rest(s)]]
        <3>2. next = again
            BY <3>1
        <3> QED
            BY <3>2 DEF Unfolds
    <2> HIDE DEF next
    <2> QED
        BY <2>6
<1>4. Cardinality(S) \in Sizes
    <2>1. Nat \subseteq Sizes
        <3> HIDE DEF Sizes
        <3> QED
            BY <1>2, <1>3, Counting
    <2> QED
        BY <2>1, FS_CardinalityType
<1>5. Small(Cardinality(S)) = SUBSET S
    BY <1>1
<1>6. \E it : Unfolds(it, f, SUBSET S)
    <2> HIDE DEF Small
    <2> QED
        BY <1>4, <1>5
<1> QED
    BY <1>6 DEF Sums

\* Sums are those of the library.
LEMMA SumIs ==
    ASSUME NEW f
    PROVE  SumFunction(f) = Sums(f)[DOMAIN f]
BY DEF SumFunction, SumFunctionOnSet, FoldFunctionOnSet, MapThenFoldSet, Sums, Unfolds, First, Rest

\* Numbers sum to a number; the sum of nothing but zeros is zero; and a term that was zero
\* adds what it becomes.
LEMMA SumMoves ==
    ASSUME NEW S, IsFiniteSet(S), NEW f \in [S -> Int]
    PROVE  /\ SumFunction(f) \in Int
           /\ (\A x \in S : f[x] = 0) => SumFunction(f) = 0
           /\ \A p \in S, v \in Int :
                f[p] = 0 => SumFunction([f EXCEPT ![p] = v]) = SumFunction(f) + v
<1>1. DOMAIN f = S
    OBVIOUS
<1>2. \A s \in SUBSET S : Sums(f)[s] = IF s = {} THEN 0 ELSE f[First(s)] + Sums(f)[Rest(s)]
    BY <1>1, SumsUnfold DEF Unfolds
<1>3. \A s \in SUBSET S : s # {} =>
        First(s) \in s /\ First(s) \notin Rest(s) /\ s = Rest(s) \cup {First(s)} /\ Rest(s) \in SUBSET S
    <2> SUFFICES ASSUME NEW s \in SUBSET S, s # {}
                 PROVE  First(s) \in s /\ First(s) \notin Rest(s)
                        /\ s = Rest(s) \cup {First(s)} /\ Rest(s) \in SUBSET S
        OBVIOUS
    <2>1. IsFiniteSet(s)
        BY FS_Subset
    <2> QED
        BY <2>1, RestSmaller
<1>4. \A s \in SUBSET S : Sums(f)[s] \in Int
    <2> DEFINE Good == {s \in SUBSET S : Sums(f)[s] \in Int}
    <2>1. {} \in Good
        <3>1. {} \in SUBSET S
            OBVIOUS
        <3>2. Sums(f)[{}] = 0
            BY <1>2, <3>1
        <3> QED
            BY <3>1, <3>2
    <2>2. ASSUME NEW s \in SUBSET S, s # {}, Rest(s) \in Good PROVE s \in Good
        BY <1>2, <1>3, <2>2
    <2> HIDE DEF Good
    <2>3. SUBSET S \subseteq Good
        BY <2>1, <2>2, Growing
    <2> QED
        BY <2>3 DEF Good
<1>5. ASSUME \A x \in S : f[x] = 0 PROVE \A s \in SUBSET S : Sums(f)[s] = 0
    <2> DEFINE Good == {s \in SUBSET S : Sums(f)[s] = 0}
    <2>1. {} \in Good
        BY <1>2
    <2>2. ASSUME NEW s \in SUBSET S, s # {}, Rest(s) \in Good PROVE s \in Good
        BY <1>2, <1>3, <1>5, <2>2
    <2> HIDE DEF Good
    <2>3. SUBSET S \subseteq Good
        BY <2>1, <2>2, Growing
    <2> QED
        BY <2>3 DEF Good
<1>6. ASSUME NEW p \in S, NEW v \in Int, f[p] = 0
      PROVE  SumFunction([f EXCEPT ![p] = v]) = SumFunction(f) + v
    <2> DEFINE g == [f EXCEPT ![p] = v]
    <2>1. DOMAIN g = S /\ g[p] = v /\ \A x \in S : x # p => g[x] = f[x]
        OBVIOUS
    <2>2. \A s \in SUBSET S : Sums(g)[s] = IF s = {} THEN 0 ELSE g[First(s)] + Sums(g)[Rest(s)]
        <3> HIDE DEF g
        <3>1. IsFiniteSet(DOMAIN g)
            BY <2>1
        <3>2. Unfolds(Sums(g), g, SUBSET DOMAIN g)
            BY <3>1, SumsUnfold
        <3>3. DOMAIN g = S
            BY <2>1
        <3> QED
            BY <3>2, <3>3 DEF Unfolds
    <2> HIDE DEF g
    <2> DEFINE Good == {s \in SUBSET S : Sums(g)[s] = Sums(f)[s] + (IF p \in s THEN v ELSE 0)}
    <2>3. {} \in Good
        BY <1>2, <2>2
    <2>4. ASSUME NEW s \in SUBSET S, s # {}, Rest(s) \in Good PROVE s \in Good
        <3>1. /\ First(s) \in S /\ First(s) \notin Rest(s) /\ s = Rest(s) \cup {First(s)}
              /\ Sums(f)[Rest(s)] \in Int /\ f[First(s)] \in Int
              /\ Sums(g)[Rest(s)] = Sums(f)[Rest(s)] + (IF p \in Rest(s) THEN v ELSE 0)
              /\ Sums(f)[s] = f[First(s)] + Sums(f)[Rest(s)]
              /\ Sums(g)[s] = g[First(s)] + Sums(g)[Rest(s)]
            BY <1>2, <1>3, <1>4, <2>2, <2>4
        <3>2. CASE p = First(s)
            BY <1>6, <2>1, <3>1, <3>2
        <3>3. CASE p # First(s)
            <4>1. p \in s <=> p \in Rest(s)
                BY <3>1, <3>3
            <4>2. g[First(s)] = f[First(s)]
                BY <2>1, <3>1, <3>3
            <4> QED
                BY <3>1, <4>1, <4>2
        <3> QED
            BY <3>2, <3>3
    <2> HIDE DEF Good
    <2>5. SUBSET S \subseteq Good
        BY <2>3, <2>4, Growing
    <2>6. Sums(g)[S] = Sums(f)[S] + v
        BY <2>5 DEF Good
    <2>7. SumFunction(f) = Sums(f)[S]
        BY <1>1, SumIs
    <2>8. SumFunction(g) = Sums(g)[S]
        BY <2>1, SumIs
    <2>9. SumFunction(g) = SumFunction(f) + v
        BY <2>6, <2>7, <2>8
    <2> QED
        BY <2>9 DEF g
<1>7. SumFunction(f) \in Int /\ ((\A x \in S : f[x] = 0) => SumFunction(f) = 0)
    BY <1>1, <1>4, <1>5, SumIs
<1> QED
    BY <1>6, <1>7

\* Profits are numbers.
Paid(r) == \A p \in DOMAIN r : r[p] # NoResult => r[p].profit \in Int

\* The ledger is there for a whole batch or not at all, and what an open batch has booked is
\* what its picks pay.
BookInv ==
    /\ bankroll \in Int \cup {NoLedger}
    /\ Paid(results)
    /\ batch # NoBatch =>
        /\ Paid(batch.results)
        /\ batch.bankroll \in Int \cup {NoLedger}
        /\ batch.bankroll = NoLedger <=> bankroll = NoLedger
        /\ bankroll # NoLedger /\ Due(results) = DOMAIN results =>
             batch.bankroll = bankroll + Profit(batch.results)

\* A settled pick has a profit, which is a number.
LEMMA BetResultIs ==
    ASSUME NEW p \in Pick
    PROVE  BetResult(p) # NoResult /\ BetResult(p).profit \in Int
<1>1. p.odds \in Nat /\ Bet \in Nat
    BY BatchAssumption
<1>2. ASSUME NEW r PROVE SettleProfit(r, Bet, p.odds) \in Int
    <2>1. 2 * Bet * (p.odds - Even) \in Int /\ Bet * (p.odds - Even) \in Int
          /\ Bet * Even \in Int /\ 2 * Bet * Even \in Int
        BY <1>1 DEF Even
    <2> QED
        BY <2>1 DEF SettleProfit
<1> DEFINE result == SettleMarket(p, event.score)
           closing == IF Closing[p] = {} THEN 0
                      ELSE CHOOSE c \in Closing[p] : \A d \in Closing[p] : d <= c
<1>3. BetResult(p) = [result |-> result, profit |-> SettleProfit(result, Bet, p.odds),
                      closing |-> closing]
    BY DEF BetResult
<1> HIDE DEF result, closing
<1>4. BetResult(p).profit \in Int
    BY <1>2, <1>3
<1>5. DOMAIN BetResult(p) # DOMAIN NoResult
    <2>1. DOMAIN BetResult(p) = {"result", "profit", "closing"} /\ DOMAIN NoResult = {"result"}
        BY <1>3 DEF NoResult
    <2> QED
        BY <2>1
<1> QED
    BY <1>4, <1>5

\* What a batch pays moves by one pick at a time, from nothing.
LEMMA ProfitMoves ==
    ASSUME NEW r, DOMAIN r = Offered, Paid(r)
    PROVE  /\ Profit(r) \in Int
           /\ Due(r) = DOMAIN r => Profit(r) = 0
           /\ \A p \in Due(r) :
                Profit([r EXCEPT ![p] = BetResult(p)]) = Profit(r) + BetResult(p).profit
<1> DEFINE f == [p \in DOMAIN r |-> IF r[p] = NoResult THEN 0 ELSE r[p].profit]
<1>1. f \in [Offered -> Int]
    BY DEF Paid
<1>2. IsFiniteSet(Offered)
    BY BatchAssumption, FS_Subset DEF Offered
<1>3. Profit(r) = SumFunction(f)
    BY DEF Profit
<1>4. Due(r) = DOMAIN r => \A p \in Offered : f[p] = 0
    BY DEF Due
<1>5. ASSUME NEW p \in Due(r)
      PROVE  Profit([r EXCEPT ![p] = BetResult(p)]) = Profit(r) + BetResult(p).profit
    <2> DEFINE s == [r EXCEPT ![p] = BetResult(p)]
               g == [q \in DOMAIN s |-> IF s[q] = NoResult THEN 0 ELSE s[q].profit]
    <2>1. p \in Offered /\ p \in Pick /\ f[p] = 0
        BY <1>5 DEF Due, Offered
    <2>2. BetResult(p) # NoResult /\ BetResult(p).profit \in Int
        BY <2>1, BetResultIs
    <2>3. DOMAIN s = Offered /\ s[p] = BetResult(p) /\ \A q \in Offered : q # p => s[q] = r[q]
        BY <2>1
    <2>4. g = [f EXCEPT ![p] = BetResult(p).profit]
        <3> HIDE DEF s
        <3> QED
            BY <2>1, <2>2, <2>3
    <2>5. Profit(s) = SumFunction(g)
        BY DEF Profit
    <2> HIDE DEF f, g, s
    <2>6. SumFunction([f EXCEPT ![p] = BetResult(p).profit])
            = SumFunction(f) + BetResult(p).profit
        <3> DEFINE v == BetResult(p).profit
        <3>1. v \in Int
            BY <2>2
        <3> HIDE DEF v
        <3>2. \A q \in Offered, w \in Int :
                f[q] = 0 => SumFunction([f EXCEPT ![q] = w]) = SumFunction(f) + w
            BY <1>1, <1>2, SumMoves
        <3>3. SumFunction([f EXCEPT ![p] = v]) = SumFunction(f) + v
            BY <2>1, <3>1, <3>2
        <3> QED
            BY <3>3 DEF v
    <2>7. Profit(s) = Profit(r) + BetResult(p).profit
        BY <1>3, <2>4, <2>5, <2>6
    <2> QED
        BY <2>7 DEF s
<1> HIDE DEF f
<1>6. SumFunction(f) \in Int /\ ((\A p \in Offered : f[p] = 0) => SumFunction(f) = 0)
    BY <1>1, <1>2, SumMoves
<1> QED
    BY <1>3, <1>4, <1>5, <1>6

\* A batch books what it settles, step by step.
LEMMA BookStep == BatchInv /\ BookInv /\ [BatchNext]_batchVars => BookInv'
<1> SUFFICES ASSUME BatchInv, BookInv, [BatchNext]_batchVars PROVE BookInv'
    OBVIOUS
<1>1. NoBatch' = NoBatch /\ NoResult' = NoResult
    BY DEF NoBatch, NoResult
<1>2. /\ \A r : Due(r)' = Due(r) /\ Profit(r)' = Profit(r) /\ (Paid(r)' <=> Paid(r))
    BY <1>1 DEF Due, Profit, Paid
<1>3. CASE UNCHANGED <<ledger, batch>>
    <2>1. results' = results /\ bankroll' = bankroll /\ batch' = batch
        BY <1>3 DEF ledger
    <2> QED
        BY <1>1, <2>1 DEF BookInv, Due, Profit, Paid, NoResult
<1>4. CASE BeginBatch
    <2>1. /\ results' = results /\ bankroll' = bankroll
          /\ batch'.results = results /\ batch'.bankroll = bankroll
        BY <1>4 DEF BeginBatch, ledger
    <2>2. Due(results) = DOMAIN results => Profit(results) = 0
        BY ProfitMoves DEF BatchInv, Settled, BookInv
    <2>3. bankroll # NoLedger => bankroll \in Int /\ bankroll + 0 = bankroll
        BY DEF BookInv
    <2>4. Paid(results)' /\ Paid(batch.results)'
        BY <2>1 DEF BookInv, Paid, NoResult
    <2>5. Due(results)' = Due(results) /\ Profit(batch.results)' = Profit(results)
        BY <2>1 DEF Due, Profit, NoResult
    <2> QED
        BY <2>1, <2>2, <2>3, <2>4, <2>5 DEF BookInv
<1>5. ASSUME NEW p \in Offered, SettleNext(p) PROVE BookInv'
    <2> DEFINE r == [batch.results EXCEPT ![p] = BetResult(p)]
    <2>1. /\ results' = results /\ bankroll' = bankroll /\ batch.open
          /\ p \in Due(batch.results)
          /\ batch' = [open |-> TRUE, results |-> r, bankroll |-> Booked(p)]
        BY <1>5 DEF SettleNext, ledger
    <2>2. batch # NoBatch
        BY <2>1 DEF NoBatch
    <2>3. DOMAIN batch.results = Offered /\ Paid(batch.results)
        BY <2>2 DEF BatchInv, Session, Settled, BookInv
    <2>4. BetResult(p).profit \in Int /\ p \in Pick
        BY BetResultIs DEF Offered
    <2>5. Profit(r) = Profit(batch.results) + BetResult(p).profit
          /\ Profit(batch.results) \in Int
        BY <2>1, <2>3, ProfitMoves
    <2>6. Paid(r)
        BY <2>3, <2>4 DEF Paid
    <2> HIDE DEF r
    <2>7. batch'.results = r /\ batch'.bankroll = Booked(p)
        BY <2>1
    <2>8. /\ Booked(p) \in Int \cup {NoLedger}
          /\ Booked(p) = NoLedger <=> bankroll = NoLedger
          /\ bankroll # NoLedger /\ Due(results) = DOMAIN results =>
               Booked(p) = bankroll + Profit(r)
        <3>1. CASE batch.bankroll = NoLedger
            BY <2>2, <3>1 DEF Booked, BookInv
        <3>2. CASE batch.bankroll # NoLedger
            <4>1. /\ batch.bankroll \in Int /\ bankroll # NoLedger /\ bankroll \in Int
                  /\ Due(results) = DOMAIN results =>
                       batch.bankroll = bankroll + Profit(batch.results)
                BY <2>2, <3>2 DEF BookInv
            <4>2. Booked(p) = batch.bankroll + BetResult(p).profit
                BY <3>2 DEF Booked
            <4>3. Booked(p) \in Int /\ Booked(p) # NoLedger
                BY <2>4, <4>1, <4>2, BatchAssumption
            <4> QED
                BY <2>4, <2>5, <4>1, <4>2, <4>3
        <3> QED
            BY <3>1, <3>2
    <2>9. Paid(results)' /\ Paid(batch.results)'
        BY <2>1, <2>6, <2>7 DEF BookInv, Paid, NoResult
    <2>10. Due(results)' = Due(results) /\ Profit(batch.results)' = Profit(r)
        BY <2>1, <2>7 DEF Due, Profit, NoResult
    <2> QED
        BY <2>1, <2>7, <2>8, <2>9, <2>10 DEF BookInv
<1>6. CASE CommitBatch
    <2>1. /\ batch # NoBatch /\ batch' = NoBatch
          /\ results' = batch.results /\ bankroll' = batch.bankroll
        BY <1>6 DEF CommitBatch, NoBatch
    <2>2. Paid(results)'
        BY <2>1 DEF BookInv, Paid, NoResult
    <2> QED
        BY <1>1, <2>1, <2>2 DEF BookInv
<1>7. CASE FailBatch
    <2>1. batch' = NoBatch /\ results' = results /\ bankroll' = bankroll
        BY <1>7 DEF FailBatch, ledger
    <2>2. Paid(results)'
        BY <2>1 DEF BookInv, Paid, NoResult
    <2> QED
        BY <1>1, <2>1, <2>2 DEF BookInv
<1> QED
    BY <1>3, <1>4, <1>5, <1>6, <1>7
       DEF BatchNext, batchVars, Play, Whistle, ExtraGoal, EndExtra, SyncFixture, SyncOdds

\* The ledger moves by whole batches: a batch that commits found no pick of the match settled,
\* leaves none unsettled, and has moved the bankroll by exactly what all of them pay, for any
\* set of picks, odds, stake and opening balance (settle_finished_events).
THEOREM SpecBatchesBooked == BatchSpec => BatchesBooked
<1>1. BatchInit => BookInv
    <2> SUFFICES ASSUME BatchInit PROVE BookInv
        OBVIOUS
    <2>1. bankroll \in Int \cup {NoLedger} /\ batch = NoBatch
        BY BatchAssumption DEF BatchInit
    <2>2. Paid(results)
        BY DEF BatchInit, Paid
    <2> QED
        BY <2>1, <2>2 DEF BookInv
<1>2. BatchInv /\ BookInv /\ [BatchNext]_batchVars =>
        (ledger' # ledger =>
            /\ Due(results) = DOMAIN results /\ Due(results') = {}
            /\ bankroll # NoLedger => bankroll' = bankroll + Profit(results'))
    <2> SUFFICES ASSUME BatchInv, BookInv, BatchNext, ledger' # ledger
                 PROVE  /\ Due(results) = DOMAIN results /\ Due(results') = {}
                        /\ bankroll # NoLedger => bankroll' = bankroll + Profit(results')
        BY DEF batchVars, ledger
    <2>1. /\ CommitBatch /\ batch # NoBatch
          /\ Due(results) = DOMAIN results /\ Due(results') = {}
        BY SettledAtOnce
    <2>2. results' = batch.results /\ bankroll' = batch.bankroll
        BY <2>1 DEF CommitBatch
    <2> QED
        BY <2>1, <2>2 DEF BookInv
<1> QED
    BY <1>1, <1>2, BookStep, BatchInvariance, PTL DEF BatchSpec, BatchesBooked

\* The match beside a batch is one that the laws are about.
THEOREM BatchPlaysByTheLaws == BatchSpec => Spec
<1>1. BatchInit => Init
    BY DEF BatchInit
<1>2. [BatchNext]_batchVars => [Next]_vars
    BY DEF BatchNext, batchVars, Play, Whistle, ExtraGoal, EndExtra, SyncFixture, SyncOdds,
           BeginBatch, SettleNext, CommitBatch, FailBatch, match, vars
<1> QED
    BY <1>1, <1>2, PTL DEF BatchSpec, Spec

===========================================================================
