---------------------------- MODULE PicksProofs ----------------------------
(***************************************************************************)
(* Proofs about Picks for every set of matches, books and versions, every  *)
(* answer of the providers and every length of a run.                      *)
(***************************************************************************)
EXTENDS Picks, FiniteSetTheorems, TLAPS

Row == [status : {"ABSENT", "PRODUCTION", "RETIRED"}, promotedAt : Nat]

Types ==
    /\ now \in Nat
    /\ registry \in [Version -> Row]
    /\ promotion # Idle =>
        promotion \in [pc : {"stamped"}, version : Version, ok : BOOLEAN, at : Nat]
    /\ inference # Idle =>
        /\ inference.at \in Nat
        /\ inference.pc \in {"begun", "loaded"}
        /\ inference.pc = "loaded" => DOMAIN inference.loaded \subseteq Version
        /\ DOMAIN inference = {"pc", "at", "loaded"}

\* A row in production stands for a recorded promotion that passed.
Recorded(v, at) == \E a \in attempts : a.ok /\ a.version = v /\ a.at = at

RegistryRecorded ==
    \A v \in Version :
        registry[v].status = "PRODUCTION" => Recorded(v, registry[v].promotedAt)

\* So does a row an inference has loaded, whatever has become of it since.
LoadedRecorded ==
    inference # Idle /\ inference.pc = "loaded" =>
        \A v \in DOMAIN inference.loaded : Recorded(v, inference.loaded[v].promotedAt)

\* Prices are delivered for the keys that have a row, and a row has these columns.
SameKeys ==
    /\ DOMAIN odds = DOMAIN delivered
    /\ \A k \in DOMAIN odds : DOMAIN odds[k] = {"price", "status", "live", "fetched"}

Priced == \A k \in DOMAIN odds : odds[k].price \in Nat

\* The latest odds of a pick are no later than the pick.
Timed == \A r \in recommendations : r.at \in Nat /\ r.oddsAt \in Int /\ r.oddsAt <= r.at

IInv == /\ Types /\ OneServing /\ RegistryRecorded /\ LoadedRecorded /\ PredictedByPromoted
        /\ SameKeys /\ ValidIsUndisputed /\ Priced /\ Timed /\ Corroborated

---------------------------------------------------------------------------
(* Prices that agree *)

\* A set of natural numbers has a least one.
LEMMA Least ==
    ASSUME NEW S \in SUBSET Nat, S # {}
    PROVE  \E m \in S : \A y \in S : m <= y
<1>1. PICK m \in S : \A y \in S : ~(<<y, m>> \in OpToRel(<, Nat))
  BY NatLessThanWellFounded, WFMin
<1>2. \A y \in S : ~(y < m)
  BY <1>1 DEF OpToRel
<1> QED BY <1>2

\* Finitely many values have a bound: the smallest set without one would have one, the
\* larger of a value in it and a bound of the others.
LEMMA Bounded ==
    ASSUME NEW D, IsFiniteSet(D), NEW f \in [D -> Nat]
    PROVE  \E b \in Nat : \A i \in D : f[i] <= b
<1> DEFINE Below(T) == \E b \in Nat : \A i \in T : f[i] <= b
           Bad == {T \in SUBSET D : ~Below(T)}
           Sizes == {Cardinality(T) : T \in Bad}
<1>1. SUFFICES ASSUME Bad # {} PROVE FALSE
  <2>1. Bad = {} => Below(D)
    OBVIOUS
  <2> QED BY <2>1
<1>2. \A T \in Bad : IsFiniteSet(T) /\ Cardinality(T) \in Nat
  BY FS_Subset, FS_CardinalityType
<1>3. PICK n \in Sizes : \A y \in Sizes : n <= y
  <2>1. Sizes \in SUBSET Nat /\ Sizes # {}
    BY <1>1, <1>2
  <2> HIDE DEF Sizes
  <2> QED BY <2>1, Least
<1>4. PICK T \in Bad : Cardinality(T) = n
  BY <1>3
<1>5. PICK x \in T : TRUE
  <2>1. T = {} => Below(T)
    OBVIOUS
  <2> QED BY <1>4, <2>1
<1>6. IsFiniteSet(T \ {x}) /\ Cardinality(T \ {x}) = n - 1 /\ n \in Nat
  BY <1>2, <1>4, <1>5, FS_RemoveElement
<1>7. T \ {x} \notin Bad
  BY <1>3, <1>6
<1>8. PICK b \in Nat : \A i \in T \ {x} : f[i] <= b
  BY <1>4, <1>7
<1>9. f[x] \in Nat
  BY <1>4, <1>5
<1>10. CASE f[x] <= b
  <2>1. \A i \in T : f[i] <= b
    BY <1>8, <1>10
  <2> QED BY <1>4, <2>1
<1>11. CASE b <= f[x]
  <2>1. \A i \in T : f[i] <= f[x]
    BY <1>4, <1>8, <1>9, <1>11
  <2> QED BY <1>4, <1>9, <2>1
<1> QED BY <1>8, <1>9, <1>10, <1>11

\* The k-th smallest of at least k values is one of them.
LEMMA NthIsValue ==
    ASSUME NEW D, IsFiniteSet(D), NEW f \in [D -> Nat], NEW k \in 1..Cardinality(D)
    PROVE  Nth(f, k) \in Nat
<1> DEFINE upTo(v) == {i \in D : f[i] <= v}
           below(v) == {i \in D : f[i] < v}
           enough == {v \in Nat : Cardinality(upTo(v)) >= k}
<1>1. \A v : /\ IsFiniteSet(upTo(v)) /\ Cardinality(upTo(v)) \in Nat
             /\ IsFiniteSet(below(v)) /\ Cardinality(below(v)) \in Nat
  <2>1. \A v : upTo(v) \in SUBSET D /\ below(v) \in SUBSET D
    OBVIOUS
  <2> HIDE DEF upTo, below
  <2> QED BY <2>1, FS_Subset, FS_CardinalityType
<1>2. Cardinality(D) \in Nat /\ k \in Nat /\ k > 0
  BY FS_CardinalityType
<1>3. enough # {}
  <2>1. PICK b \in Nat : \A i \in D : f[i] <= b
    BY Bounded
  <2>2. upTo(b) = D
    BY <2>1
  <2> QED BY <1>2, <2>1, <2>2
<1>4. PICK v \in enough : \A w \in enough : v <= w
  BY <1>3, Least
<1>5. Cardinality(below(v)) < k
  <2>1. CASE v = 0
    <3>1. below(v) = {}
      BY <2>1
    <3> QED BY <1>2, <3>1, FS_EmptySet
  <2>2. CASE v > 0
    <3>1. v - 1 \in Nat /\ v - 1 \notin enough
      BY <1>4, <2>2
    <3>2. below(v) = upTo(v - 1)
      BY <1>4, <3>1
    <3> QED BY <1>1, <1>2, <3>1, <3>2
  <2> QED BY <1>4, <2>1, <2>2
<1>6. v \in Range(f)
  <2>1. ASSUME v \notin Range(f) PROVE FALSE
    <3>1. upTo(v) = below(v)
      BY <1>4, <2>1 DEF Range
    <3> QED BY <1>1, <1>2, <1>4, <1>5, <3>1
  <2> QED BY <2>1
<1>7. \E u \in Range(f) : /\ Cardinality({i \in DOMAIN f : f[i] < u}) < k
                          /\ Cardinality({i \in DOMAIN f : f[i] <= u}) >= k
  BY <1>4, <1>5, <1>6
<1>8. Nth(f, k) \in Range(f)
  BY <1>7 DEF Nth
<1> QED BY <1>8 DEF Range

\* Some value has a median.
LEMMA MedianIsNumber ==
    ASSUME NEW D, IsFiniteSet(D), D # {}, NEW f \in [D -> Nat]
    PROVE  Median(f) \in Nat
<1> DEFINE n == Cardinality(D)
<1>1. n \in Nat /\ n # 0
  BY FS_CardinalityType, FS_EmptySet
<1>2. (n + 1) \div 2 \in 1..n /\ n \div 2 + 1 \in 1..n
  BY <1>1
<1>3. Nth(f, (n + 1) \div 2) \in Nat /\ Nth(f, n \div 2 + 1) \in Nat
  BY <1>2, NthIsValue
<1>4. \A a, b \in Nat : (a + b) \div 2 \in Nat
  OBVIOUS
<1> QED BY <1>3, <1>4 DEF Median

\* Prices that agree are near one centre.
LEMMA NearCentre ==
    ASSUME NEW D, IsFiniteSet(D), NEW price \in [D -> Nat]
    PROVE  \E c \in Nat : \A i \in Agreeing(price) :
                i \in D /\ 5 * (8 * price[i] - c) <= c /\ 5 * (c - 8 * price[i]) <= c
<1> DEFINE finite == {i \in DOMAIN price : price[i] > Unit}
           center == Median([i \in finite |-> 8 * price[i]])
<1>1. CASE finite = {}
  <2>1. \A i \in DOMAIN price : ClassifyPrices(price)[i] = "REJECTED"
    BY <1>1 DEF ClassifyPrices
  <2> QED BY <2>1 DEF Agreeing
<1>2. CASE finite # {}
  <2>1. center \in Nat
    <3>1. IsFiniteSet(finite)
      BY FS_Subset
    <3>2. [i \in finite |-> 8 * price[i]] \in [finite -> Nat]
      OBVIOUS
    <3> QED BY <1>2, <3>1, <3>2, MedianIsNumber
  <2>2. ASSUME NEW i \in Agreeing(price)
        PROVE  i \in D /\ ~(5 * Abs(8 * price[i] - center) > center)
    BY <2>2 DEF Agreeing, ClassifyPrices
  <2>3. ASSUME NEW i \in Agreeing(price)
        PROVE  /\ i \in D /\ 5 * (8 * price[i] - center) <= center
               /\ 5 * (center - 8 * price[i]) <= center
    <3> HIDE DEF center
    <3>1. i \in D /\ price[i] \in Nat
      BY <2>2
    <3> QED BY <2>1, <2>2, <3>1 DEF Abs
  <2> HIDE DEF center
  <2> QED BY <2>1, <2>3
<1> QED BY <1>1, <1>2

\* Of two prices that agree neither is more than half as much again as the other.
LEMMA AgreeingWithinHalf ==
    ASSUME NEW D, IsFiniteSet(D), NEW price \in [D -> Nat],
           NEW i \in Agreeing(price), NEW j \in Agreeing(price)
    PROVE  2 * price[i] <= 3 * price[j]
<1>1. PICK c \in Nat : \A l \in Agreeing(price) :
            l \in D /\ 5 * (8 * price[l] - c) <= c /\ 5 * (c - 8 * price[l]) <= c
  BY NearCentre
<1>2. price[i] \in Nat /\ price[j] \in Nat
  BY <1>1
<1>3. 5 * (8 * price[i] - c) <= c /\ 5 * (c - 8 * price[j]) <= c
  BY <1>1
<1> QED BY <1>2, <1>3

\* A bounded set of integers has a greatest one.
LEMMA Greatest ==
    ASSUME NEW S \in SUBSET Int, S # {}, NEW b \in Int, \A x \in S : x <= b
    PROVE  Max(S) \in S /\ \A x \in S : x <= Max(S)
<1> DEFINE below == {b - x : x \in S}
<1>1. below \in SUBSET Nat /\ below # {}
  <2>1. \A x \in S : b - x \in Nat
    OBVIOUS
  <2> QED BY <2>1
<1>2. PICK d \in below : \A y \in below : d <= y
  <2> HIDE DEF below
  <2> QED BY <1>1, Least
<1>3. PICK u \in S : d = b - u
  OBVIOUS
<1>4. \A x \in S : u >= x
  <2>1. \A x \in S : d <= b - x
    BY <1>2
  <2> QED BY <1>3, <2>1
<1>5. \E x \in S : \A y \in S : x >= y
  BY <1>3, <1>4
<1>6. Max(S) \in S /\ \A y \in S : Max(S) >= y
  BY <1>5 DEF Max
<1> QED BY <1>6

\* The rows of a market are of the time it looks back on.
LEMMA RowTimes ==
    ASSUME NEW m, NEW t \in Nat, NEW k \in Rows(m, t)
    PROVE  k \in DOMAIN odds /\ k.match = m /\ k.at \in Int /\ k.at <= t /\ k.at \in (t - MaxAge)..t
<1>1. MaxAge \in Nat
  BY PicksAssumption
<1> QED BY <1>1 DEF Rows

\* A market has at least two books, whose prices are rows of it, agree and are near each
\* other.
LEMMA MarketPrices ==
    ASSUME Priced, NEW m \in Match, NEW t \in Nat, MarketAt(m, t) # <<>>, NEW s \in Side
    PROVE  LET books == MarketAt(m, t)
           IN  /\ DOMAIN books \subseteq Book /\ Cardinality(DOMAIN books) >= 2
               /\ \A b \in DOMAIN books :
                    /\ books[b][s] \in Nat
                    /\ \E k \in Rows(m, t) : /\ k.side = s /\ k.book = b
                                             /\ odds[k].price = books[b][s]
               /\ \A b, c \in DOMAIN books : 2 * books[b][s] <= 3 * books[c][s]
<1> DEFINE rows  == Rows(m, t)
           last(b) == Max(Complete(m, b, rows))
           row(b, x) == [match |-> m, book |-> b, side |-> x, at |-> last(b)]
           books == {b \in Book : NamesAgree(m) /\ Complete(m, b, rows) # {}}
           price == [b \in books |-> [x \in Side |->
                        odds[[match |-> m, book |-> b, side |-> x,
                              at |-> Max(Complete(m, b, rows))]].price]]
           agree == {b \in books : \A x \in Side :
                                        b \in Agreeing([c \in books |-> price[c][x]])}
<1>1. MarketAt(m, t) = Restrict(price, agree) /\ ~(Cardinality(agree) < 2)
  BY DEF MarketAt
<1>2. /\ DOMAIN MarketAt(m, t) = agree
      /\ \A b \in agree : MarketAt(m, t)[b] = price[b]
  <2> HIDE DEF price, agree
  <2> QED BY <1>1 DEF Restrict
<1>3. IsFiniteSet(books) /\ IsFiniteSet(agree) /\ Cardinality(agree) \in Nat
  <2>1. IsFiniteSet(Book) /\ books \in SUBSET Book /\ agree \in SUBSET Book
    BY PicksAssumption
  <2> HIDE DEF books, agree
  <2> QED BY <2>1, FS_Subset, FS_CardinalityType
<1>4. ASSUME NEW b \in books
      PROVE  row(b, s) \in rows /\ price[b][s] = odds[row(b, s)].price
  <2>1. Complete(m, b, rows) # {} /\ Complete(m, b, rows) \in SUBSET Int
        /\ \A x \in Complete(m, b, rows) : x <= t
    BY RowTimes DEF Complete
  <2>2. last(b) \in Complete(m, b, rows)
    <3> DEFINE times == Complete(m, b, rows)
    <3>1. times \in SUBSET Int /\ times # {} /\ t \in Int /\ \A x \in times : x <= t
      BY <2>1
    <3>2. Max(times) \in times
      <4> HIDE DEF times
      <4> QED BY <3>1, Greatest
    <3> QED BY <3>2
  <2>3. row(b, s) \in rows
    BY <2>2 DEF Complete
  <2> QED BY <2>3
<1>5. ASSUME NEW b \in books PROVE price[b][s] \in Nat
  <2>1. row(b, s) \in DOMAIN odds /\ price[b][s] = odds[row(b, s)].price
    BY <1>4, RowTimes
  <2> HIDE DEF row, price
  <2> QED BY <2>1 DEF Priced
<1>6. ASSUME NEW b \in agree, NEW c \in agree PROVE 2 * price[b][s] <= 3 * price[c][s]
  <2> DEFINE f == [x \in books |-> price[x][s]]
  <2>1. b \in Agreeing(f) /\ c \in Agreeing(f)
    OBVIOUS
  <2>2. f \in [books -> Nat]
    <3> HIDE DEF books, price
    <3> QED BY <1>5
  <2>3. f[b] = price[b][s] /\ f[c] = price[c][s]
    OBVIOUS
  <2>4. 2 * f[b] <= 3 * f[c]
    <3> HIDE DEF f, books
    <3> QED BY <1>3, <2>1, <2>2, AgreeingWithinHalf
  <2> HIDE DEF f, price
  <2> QED BY <2>3, <2>4
<1>7. ASSUME NEW b \in agree
      PROVE \E k \in rows : k.side = s /\ k.book = b /\ odds[k].price = price[b][s]
  <2>1. row(b, s) \in rows /\ price[b][s] = odds[row(b, s)].price
    BY <1>4
  <2>2. row(b, s).side = s /\ row(b, s).book = b
    OBVIOUS
  <2> HIDE DEF row, price, rows
  <2> QED BY <2>1, <2>2
<1>8. agree \subseteq books /\ agree \subseteq Book
  OBVIOUS
<1> HIDE DEF price, agree, books, rows
<1>9. Cardinality(DOMAIN MarketAt(m, t)) >= 2 /\ DOMAIN MarketAt(m, t) \subseteq Book
  BY <1>1, <1>2, <1>3, <1>8
<1>10. ASSUME NEW b \in DOMAIN MarketAt(m, t)
       PROVE /\ MarketAt(m, t)[b][s] \in Nat
             /\ \E k \in Rows(m, t) : /\ k.side = s /\ k.book = b
                                      /\ odds[k].price = MarketAt(m, t)[b][s]
  BY <1>2, <1>5, <1>7, <1>8 DEF rows
<1>11. ASSUME NEW b \in DOMAIN MarketAt(m, t), NEW c \in DOMAIN MarketAt(m, t)
       PROVE 2 * MarketAt(m, t)[b][s] <= 3 * MarketAt(m, t)[c][s]
  BY <1>2, <1>6
<1> QED BY <1>9, <1>10, <1>11

\* The best price of a market is that of a book in it, and another book bears it out.
LEMMA BestPrice ==
    ASSUME Priced, NEW m \in Match, NEW t \in Nat, MarketAt(m, t) # <<>>, NEW s \in Side
    PROVE  LET books == MarketAt(m, t)
           IN  /\ \E k \in Rows(m, t) : /\ k.side = s /\ k.book = BestBook(books, s)
                                        /\ odds[k].price = Best(books, s)
               /\ \E b \in Book \ {BestBook(books, s)} : \E k \in Rows(m, t) :
                    /\ k.side = s /\ k.book = b
                    /\ 2 * Best(books, s) <= 3 * odds[k].price
<1> DEFINE books == MarketAt(m, t)
           prices == {books[b][s] : b \in DOMAIN books}
<1>1. /\ DOMAIN books \subseteq Book /\ Cardinality(DOMAIN books) >= 2
      /\ \A b \in DOMAIN books :
            /\ books[b][s] \in Nat
            /\ \E k \in Rows(m, t) : k.side = s /\ k.book = b /\ odds[k].price = books[b][s]
      /\ \A b, c \in DOMAIN books : 2 * books[b][s] <= 3 * books[c][s]
  BY MarketPrices
<1> HIDE DEF books
<1>2. IsFiniteSet(DOMAIN books) /\ Cardinality(DOMAIN books) \in Nat
  <2>1. IsFiniteSet(Book)
    BY PicksAssumption
  <2> QED BY <1>1, <2>1, FS_Subset, FS_CardinalityType
<1>3. DOMAIN books # {}
  BY <1>1, <1>2, FS_EmptySet
<1>4. PICK a \in DOMAIN books : TRUE
  BY <1>3
<1>5. prices \in SUBSET Int /\ prices # {} /\ \A x \in prices : x <= 3 * books[a][s]
  BY <1>1, <1>4
<1>6. Max(prices) \in prices
  <2>1. 3 * books[a][s] \in Int
    BY <1>1, <1>4
  <2> HIDE DEF prices
  <2> QED BY <1>5, <2>1, Greatest
<1>7. Best(books, s) \in prices
  BY <1>6 DEF Best
<1>8. \E b \in DOMAIN books : books[b][s] = Best(books, s)
  BY <1>7
<1>9. BestBook(books, s) \in DOMAIN books /\ books[BestBook(books, s)][s] = Best(books, s)
  BY <1>8 DEF BestBook
<1>10. PICK b \in DOMAIN books : b # BestBook(books, s)
  <2>1. ASSUME \A b \in DOMAIN books : b = BestBook(books, s) PROVE FALSE
    <3>1. DOMAIN books = {BestBook(books, s)}
      BY <1>9, <2>1
    <3>2. Cardinality(DOMAIN books) = 1
      BY <1>2, <3>1, FS_Singleton
    <3> QED BY <1>1, <3>2
  <2> QED BY <2>1
<1>11. PICK k \in Rows(m, t) : k.side = s /\ k.book = b /\ odds[k].price = books[b][s]
  BY <1>1, <1>10
<1>12. 2 * Best(books, s) <= 3 * odds[k].price /\ b \in Book \ {BestBook(books, s)}
  BY <1>1, <1>9, <1>10, <1>11
<1>13. \E j \in Rows(m, t) : /\ j.side = s /\ j.book = BestBook(books, s)
                             /\ odds[j].price = Best(books, s)
  BY <1>1, <1>9
<1> QED BY <1>11, <1>12, <1>13 DEF books

\* What an inference recommends is borne out by its market.
LEMMA CommitCorroborates ==
    ASSUME IInv, CommitInference
    PROVE  Corroborated' /\ Timed'
<1>1. UNCHANGED odds
  BY DEF CommitInference, market
<1>2. ASSUME NEW r \in recommendations', r \notin recommendations
      PROVE  \E m \in Match, s \in Side :
                /\ MarketAt(m, inference.at) # <<>>
                /\ r.match = m /\ r.side = s /\ r.at = inference.at
                /\ r.book = BestBook(MarketAt(m, inference.at), s)
                /\ r.price = Best(MarketAt(m, inference.at), s)
                /\ r.oddsAt = LatestOddsAt(m, inference.at)
  <2>1. PICK v \in {u \in DOMAIN inference.loaded : Serves(u)} :
            \E p \in Fresh(v) : r = Recommendation(p)
    BY <1>2 DEF CommitInference
  <2>2. PICK p \in Fresh(v) : r = Recommendation(p)
    BY <2>1
  <2>3. p.match \in Candidates(v) /\ p.side \in Side
    BY <2>2 DEF Fresh
  <2>4. p.match \in Match /\ MarketAt(p.match, inference.at) # <<>>
    BY <2>3 DEF Candidates
  <2> QED BY <2>2, <2>3, <2>4 DEF Recommendation
<1>3. inference.at \in Nat /\ MaxAge \in Nat
  BY PicksAssumption DEF IInv, Types, CommitInference
<1>4. ASSUME NEW r \in recommendations', r \notin recommendations
      PROVE  /\ r.at \in Nat /\ r.oddsAt \in Int /\ r.oddsAt <= r.at
             /\ \E k \in DOMAIN odds : /\ k.match = r.match /\ k.side = r.side /\ k.book = r.book
                                       /\ k.at \in (r.at - MaxAge)..r.at
                                       /\ odds[k].price = r.price
             /\ \E b \in Book \ {r.book} : \E k \in DOMAIN odds :
                    /\ k.match = r.match /\ k.side = r.side /\ k.book = b
                    /\ k.at \in (r.at - MaxAge)..r.at
                    /\ 2 * r.price <= 3 * odds[k].price
  <2>1. PICK m \in Match, s \in Side :
                /\ MarketAt(m, inference.at) # <<>>
                /\ r.match = m /\ r.side = s /\ r.at = inference.at
                /\ r.book = BestBook(MarketAt(m, inference.at), s)
                /\ r.price = Best(MarketAt(m, inference.at), s)
                /\ r.oddsAt = LatestOddsAt(m, inference.at)
    BY <1>2, <1>4
  <2> DEFINE t == inference.at
             books == MarketAt(m, t)
  <2>2. /\ \E k \in Rows(m, t) : /\ k.side = s /\ k.book = BestBook(books, s)
                                 /\ odds[k].price = Best(books, s)
        /\ \E b \in Book \ {BestBook(books, s)} : \E k \in Rows(m, t) :
                    /\ k.side = s /\ k.book = b
                    /\ 2 * Best(books, s) <= 3 * odds[k].price
    BY <1>3, <2>1, BestPrice DEF IInv
  <2>3. \A k \in Rows(m, t) : k \in DOMAIN odds /\ k.match = m /\ k.at \in (t - MaxAge)..t
    BY <1>3, RowTimes
  <2>4. r.oddsAt \in Int /\ r.oddsAt <= t
    <3> DEFINE times == {k.at : k \in Rows(m, t)}
    <3>1. times \in SUBSET Int /\ times # {} /\ t \in Int /\ \A x \in times : x <= t
      BY <1>3, <2>2, RowTimes
    <3>2. Max(times) \in times
      <4> HIDE DEF times
      <4> QED BY <3>1, Greatest
    <3>3. r.oddsAt = Max(times)
      BY <2>1 DEF LatestOddsAt
    <3> HIDE DEF times
    <3> QED BY <3>1, <3>2, <3>3
  <2> HIDE DEF books
  <2> QED BY <1>3, <2>1, <2>2, <2>3, <2>4 DEF books
<1>5. \A r \in recommendations' : r \in recommendations \/ r \notin recommendations
  OBVIOUS
<1>6. Timed'
  BY <1>4, <1>5 DEF Timed, IInv
<1>7. Corroborated'
  BY <1>1, <1>4, <1>5 DEF Corroborated, IInv
<1> QED BY <1>6, <1>7

\* Rows stay, with their price, so what was borne out is so in the archive for ever.
LEMMA SyncKeepsPrices ==
    ASSUME IInv, NEW m \in Match, NEW start, NEW board \in Board, SyncOdds(m, start, board)
    PROVE  Priced' /\ Timed' /\ Corroborated'
<1> DEFINE keys == Quotes(m, board)
<1>1. /\ DOMAIN odds' = DOMAIN odds \cup keys
      /\ \A k \in DOMAIN odds' : odds'[k] = IF k \in keys THEN Stored(k, board, start) ELSE odds[k]
      /\ UNCHANGED recommendations
  BY DEF SyncOdds, picks
<1>2. ASSUME NEW k \in DOMAIN odds PROVE k \in DOMAIN odds' /\ odds'[k].price = odds[k].price
  <2>1. DOMAIN odds[k] = {"price", "status", "live", "fetched"}
    BY DEF IInv, SameKeys
  <2>2. Stored(k, board, start).price = odds[k].price
    BY <2>1 DEF Stored
  <2> QED BY <1>1, <2>2
<1>3. ASSUME NEW k \in keys, k \notin DOMAIN odds PROVE odds'[k].price \in Nat
  <2>1. PICK b \in DOMAIN board :
            k \in [match : {m}, book : {b}, side : DOMAIN board[b].price, at : {now - board[b].age}]
    BY <1>3 DEF Quotes
  <2>2. k.book \in DOMAIN board /\ k.side \in DOMAIN board[k.book].price
    BY <2>1
  <2>3. board[k.book].price[k.side] \in Range(board[k.book].price)
    BY <2>2 DEF Range
  <2>4. Range(board[k.book].price) \subseteq Nat
    BY <2>2, PicksAssumption
  <2>5. Stored(k, board, start).price = board[k.book].price[k.side]
    BY <1>3 DEF Stored
  <2>6. k \in DOMAIN odds' /\ odds'[k] = Stored(k, board, start)
    BY <1>1, <1>3
  <2> QED BY <2>3, <2>4, <2>5, <2>6
<1>4. Priced'
  BY <1>1, <1>2, <1>3 DEF IInv, Priced
<1>5. Timed'
  BY <1>1 DEF IInv, Timed
<1>6. Corroborated'
  BY <1>1, <1>2 DEF IInv, Corroborated
<1> QED BY <1>4, <1>5, <1>6

---------------------------------------------------------------------------
(* The invariants hold initially. *)
LEMMA InitIInv == Init => IInv
<1>1. SUFFICES ASSUME Init PROVE IInv
  OBVIOUS
<1>2. Types
  BY <1>1 DEF Init, Types, Row, Idle
<1>3. OneServing /\ RegistryRecorded
  BY <1>1 DEF Init, OneServing, RegistryRecorded
<1>4. LoadedRecorded /\ PredictedByPromoted
  BY <1>1 DEF Init, LoadedRecorded, PredictedByPromoted
<1>5. SameKeys
  <2>1. ASSUME NEW k \in DOMAIN Archive
        PROVE DOMAIN Archive[k] = {"price", "status", "live", "fetched"}
    <3>1. Archive[k] \in Range(Archive)
      BY DEF Range
    <3> QED BY <3>1, PicksAssumption
  <2> QED BY <1>1, <2>1 DEF Init, SameKeys
<1>6. ValidIsUndisputed
  BY <1>1 DEF Init, ValidIsUndisputed
<1>7. Priced /\ Timed /\ Corroborated
  <2>1. ASSUME NEW k \in DOMAIN Archive PROVE Archive[k].price \in Nat
    <3>1. Archive[k] \in Range(Archive)
      BY DEF Range
    <3> QED BY <3>1, PicksAssumption
  <2> QED BY <1>1, <2>1 DEF Init, Priced, Timed, Corroborated
<1> QED BY <1>2, <1>3, <1>4, <1>5, <1>6, <1>7 DEF IInv

\* A promotion replaces the model of its sport: afterwards at most one serves it.
LEMMA CommitKeepsOne ==
    ASSUME IInv, CommitPromotion
    PROVE OneServing' /\ Types' /\ RegistryRecorded' /\ LoadedRecorded'
<1>1. promotion \in [pc : {"stamped"}, version : Version, ok : BOOLEAN, at : Nat]
  BY DEF IInv, Types, CommitPromotion
<1>2. registry \in [Version -> Row] /\ registry' \in [Version -> Row]
  <2>1. ASSUME NEW u \in Version PROVE Registered(promotion.version, u) \in Row
    BY <1>1, <2>1 DEF IInv, Types, Registered, Row
  <2> QED BY <2>1 DEF IInv, Types, CommitPromotion
<1>3. Types'
  BY <1>2 DEF IInv, Types, CommitPromotion, market, picks
<1>4. OneServing'
  <2>1. CASE ~promotion.ok
    BY <2>1 DEF IInv, OneServing, CommitPromotion
  <2>2. CASE promotion.ok
    <3>1. \A u \in Version : registry'[u] = Registered(promotion.version, u)
      BY <2>2 DEF CommitPromotion
    <3>2. ASSUME NEW u \in Version, registry'[u].status = "PRODUCTION", u # promotion.version
          PROVE /\ registry[u].status = "PRODUCTION"
                /\ Trained[u].sport # Trained[promotion.version].sport
      BY <1>1, <1>2, <3>1, <3>2 DEF Registered, Row
    <3> QED BY <1>1, <3>2 DEF IInv, OneServing
  <2> QED BY <2>1, <2>2
<1>5. \A v \in Version, at \in Nat : Recorded(v, at) => Recorded(v, at)'
  BY DEF CommitPromotion, Recorded
<1>6. RegistryRecorded'
  <2>1. ASSUME NEW v \in Version, registry'[v].status = "PRODUCTION"
        PROVE Recorded(v, registry[v].promotedAt)'
    <3>1. CASE promotion.ok /\ v = promotion.version
      <4>1. registry'[v].promotedAt = promotion.at
        BY <1>1, <3>1 DEF CommitPromotion, Registered
      <4>2. [version |-> promotion.version, at |-> promotion.at, ok |-> promotion.ok] \in attempts'
        BY DEF CommitPromotion
      <4> QED BY <3>1, <4>1, <4>2 DEF Recorded
    <3>2. CASE ~(promotion.ok /\ v = promotion.version)
      <4>1. registry'[v] = registry[v]
        BY <1>1, <1>2, <2>1, <3>2 DEF CommitPromotion, Registered, Row
      <4>2. Recorded(v, registry[v].promotedAt) /\ registry[v].promotedAt \in Nat
        BY <1>2, <2>1, <4>1 DEF IInv, RegistryRecorded, Row
      <4> QED BY <1>5, <4>1, <4>2
    <3> QED BY <3>1, <3>2
  <2> QED BY <2>1 DEF RegistryRecorded
<1>7. LoadedRecorded'
  BY DEF IInv, LoadedRecorded, CommitPromotion, Recorded
<1> QED BY <1>3, <1>4, <1>6, <1>7

\* An inference predicts only with loaded models that serve.
LEMMA CommitPredicts ==
    ASSUME IInv, CommitInference
    PROVE PredictedByPromoted'
<1>1. ASSUME NEW p \in predictions', p \notin predictions
      PROVE /\ Trained[p.version].strict
            /\ \E a \in attempts' : /\ a.ok /\ a.version = p.version
                                    /\ a.at \in (p.at - ShelfLife + 1)..p.at
  <2>1. PICK v \in {u \in DOMAIN inference.loaded : Serves(u)} :
            \E f \in Fresh(v) : p = Prediction(f)
    BY <1>1 DEF CommitInference
  <2>2. p.version = v /\ p.at = inference.at
    <3>1. PICK f \in Fresh(v) : p = Prediction(f)
      BY <2>1
    <3>2. f.version = v
      BY <3>1 DEF Fresh
    <3> QED BY <3>1, <3>2 DEF Prediction
  <2>3. Recorded(v, inference.loaded[v].promotedAt)
    BY <2>1 DEF IInv, LoadedRecorded, CommitInference
  <2> QED BY <2>1, <2>2, <2>3 DEF Serves, Recorded, CommitInference, models
<1> QED BY <1>1 DEF IInv, PredictedByPromoted, CommitInference, models

\* A row that is VALID after an answer has the price of that answer.
LEMMA SyncKeepsUndisputed ==
    ASSUME IInv, NEW m \in Match, NEW start, NEW board \in Board, SyncOdds(m, start, board)
    PROVE SameKeys' /\ ValidIsUndisputed'
<1> DEFINE keys == Quotes(m, board)
<1>1. SameKeys'
  <2>1. ASSUME NEW k \in DOMAIN odds'
        PROVE DOMAIN odds'[k] = {"price", "status", "live", "fetched"}
    <3>1. CASE k \in keys
      <4>1. odds'[k] = Stored(k, board, start)
        BY <3>1 DEF SyncOdds
      <4>2. k \in DOMAIN odds => DOMAIN odds[k] = {"price", "status", "live", "fetched"}
        BY DEF IInv, SameKeys
      <4> QED BY <4>1, <4>2 DEF Stored
    <3>2. CASE k \notin keys
      BY <3>2 DEF SyncOdds, IInv, SameKeys
    <3> QED BY <3>1, <3>2
  <2> QED BY <2>1 DEF SyncOdds, SameKeys, IInv
<1>2. ASSUME NEW k \in DOMAIN odds', odds'[k].status = "VALID"
      PROVE delivered'[k] = odds'[k].price
  <2>1. k \in DOMAIN odds \cup keys
    BY <1>2 DEF SyncOdds
  <2>2. CASE k \in keys
    <3>1. odds'[k] = Stored(k, board, start) /\ delivered'[k] = board[k.book].price[k.side]
      BY <2>1, <2>2 DEF SyncOdds
    <3>2. CASE k \notin DOMAIN odds
      BY <3>1, <3>2 DEF Stored
    <3>3. CASE k \in DOMAIN odds /\ odds[k].price # board[k.book].price[k.side]
      <4>1. odds'[k] = [odds[k] EXCEPT !.status = "SUSPECT"]
        BY <3>1, <3>3 DEF Stored
      <4>2. "status" \in DOMAIN odds[k]
        BY <3>3 DEF IInv, SameKeys
      <4> QED BY <1>2, <4>1, <4>2
    <3>4. CASE k \in DOMAIN odds /\ odds[k].price = board[k.book].price[k.side]
      BY <3>1, <3>4 DEF Stored
    <3> QED BY <3>2, <3>3, <3>4
  <2>3. CASE k \notin keys
    BY <1>2, <2>1, <2>3 DEF SyncOdds, IInv, ValidIsUndisputed
  <2> QED BY <2>2, <2>3
<1> QED BY <1>1, <1>2 DEF ValidIsUndisputed

\* Steps that leave these alone disturb only types and what an inference has loaded.
LEMMA Frame ==
    ASSUME IInv, UNCHANGED <<registry, attempts, picks, odds, delivered>>
    PROVE /\ OneServing' /\ RegistryRecorded' /\ PredictedByPromoted'
          /\ SameKeys' /\ ValidIsUndisputed' /\ Priced' /\ Timed' /\ Corroborated'
          /\ UNCHANGED inference => LoadedRecorded'
<1>1. OneServing'
  BY DEF IInv, OneServing
<1>2. RegistryRecorded'
  BY DEF IInv, RegistryRecorded, Recorded
<1>3. PredictedByPromoted'
  BY DEF IInv, PredictedByPromoted, picks
<1>4. SameKeys' /\ ValidIsUndisputed'
  BY DEF IInv, SameKeys, ValidIsUndisputed
<1>5. UNCHANGED inference => LoadedRecorded'
  BY DEF IInv, LoadedRecorded, Recorded
<1>6. Priced' /\ Timed' /\ Corroborated'
  BY DEF IInv, Priced, Timed, Corroborated, picks
<1> QED BY <1>1, <1>2, <1>3, <1>4, <1>5, <1>6

\* The other steps leave registry, promotions and prices alone or only take a copy.
LEMMA OtherSteps ==
    ASSUME IInv, [Next]_vars, ~CommitPromotion, ~CommitInference,
           ~\E m \in Match : \E start \in Fixture[m].starts : \E board \in Board :
                SyncOdds(m, start, board)
    PROVE IInv'
<1>1. CASE Tick
  <2>1. Types' /\ UNCHANGED inference
    BY <1>1 DEF Tick, models, IInv, Types
  <2> QED BY <1>1, <2>1, Frame DEF Tick, market, models, picks, IInv
<1>2. CASE \E m \in Match : \E start \in Fixture[m].starts :
            \E status \in {"SCHEDULED", "CANCELLED"} : SyncFixture(m, start, status)
  <2>1. UNCHANGED <<now, odds, delivered, models, inference, picks>>
    BY <1>2 DEF SyncFixture
  <2>2. Types'
    BY <2>1 DEF models, IInv, Types
  <2> QED BY <2>1, <2>2, Frame DEF models, picks, IInv
<1>3. CASE \E v \in Version : BeginPromotion(v)
  <2>1. PICK v \in Version : BeginPromotion(v)
    BY <1>3
  <2>2. PICK beats \in BOOLEAN :
            promotion' = [pc |-> "stamped", version |-> v, ok |-> Checks(v, beats), at |-> now]
    BY <2>1 DEF BeginPromotion
  <2>3. Checks(v, beats) \in BOOLEAN
    BY <2>2 DEF Checks
  <2>4. UNCHANGED <<now, market, registry, attempts, inference, picks>>
    BY <2>1 DEF BeginPromotion
  <2>5. Types'
    BY <2>2, <2>3, <2>4 DEF IInv, Types
  <2> QED BY <2>4, <2>5, Frame DEF market, picks, IInv
<1>4. CASE BeginInference
  <2>1. inference' = [pc |-> "begun", at |-> now, loaded |-> <<>>]
        /\ UNCHANGED <<now, market, models, picks>>
    BY <1>4 DEF BeginInference
  <2>2. Types'
    BY <2>1 DEF models, IInv, Types
  <2>3. LoadedRecorded'
    BY <2>1 DEF LoadedRecorded
  <2> QED BY <2>1, <2>2, <2>3, Frame DEF market, models, picks, IInv
<1>5. CASE LoadModels
  <2> DEFINE serving == {v \in Version : registry[v].status = "PRODUCTION"}
  <2>1. inference' = [inference EXCEPT !.pc = "loaded", !.loaded = Restrict(registry, serving)]
        /\ UNCHANGED <<now, market, models, picks>>
    BY <1>5 DEF LoadModels
  <2>2. /\ inference'.pc = "loaded" /\ inference'.at = inference.at
        /\ inference'.loaded = [v \in serving |-> registry[v]]
        /\ DOMAIN inference' = {"pc", "at", "loaded"}
        /\ inference.at \in Nat
    BY <1>5, <2>1 DEF LoadModels, IInv, Types, Restrict
  <2>3. DOMAIN inference'.loaded \subseteq Version
    BY <2>2
  <2>4. Types'
    BY <2>1, <2>2, <2>3 DEF models, IInv, Types
  <2>5. LoadedRecorded'
    <3>1. ASSUME NEW v \in serving PROVE Recorded(v, registry[v].promotedAt)
      BY DEF IInv, RegistryRecorded
    <3>2. ASSUME NEW v \in DOMAIN inference'.loaded
          PROVE Recorded(v, inference.loaded[v].promotedAt)'
      <4>1. v \in serving /\ inference'.loaded[v] = registry[v]
        BY <2>2, <3>2
      <4>2. UNCHANGED attempts
        BY <2>1 DEF models
      <4> QED BY <3>1, <4>1, <4>2 DEF Recorded
    <3> QED BY <3>2 DEF LoadedRecorded
  <2> QED BY <2>1, <2>4, <2>5, Frame DEF market, models, picks, IInv
<1>6. CASE FailInference
  <2>1. inference' = Idle /\ UNCHANGED <<now, market, models, picks>>
    BY <1>6 DEF FailInference
  <2>2. Types' /\ LoadedRecorded'
    BY <2>1 DEF models, IInv, Types, LoadedRecorded
  <2> QED BY <2>1, <2>2, Frame DEF market, models, picks, IInv
<1>7. CASE UNCHANGED vars
  <2>1. Types'
    BY <1>7 DEF vars, models, IInv, Types
  <2> QED BY <1>7, <2>1, Frame DEF vars, market, models, picks, IInv
<1> QED BY <1>1, <1>2, <1>3, <1>4, <1>5, <1>6, <1>7 DEF Next

\* Every step keeps the invariant.
LEMMA NextIInv == IInv /\ [Next]_vars => IInv'
<1>1. SUFFICES ASSUME IInv, [Next]_vars PROVE IInv'
  OBVIOUS
<1>2. CASE CommitPromotion
  <2>1. UNCHANGED <<market, inference, predictions>> /\ attempts \subseteq attempts'
    BY <1>2 DEF CommitPromotion, picks
  <2>2. PredictedByPromoted'
    BY <1>1, <2>1 DEF IInv, PredictedByPromoted
  <2>3. Priced' /\ Timed' /\ Corroborated'
    BY <1>1, <1>2 DEF CommitPromotion, market, picks, IInv, Priced, Timed, Corroborated
  <2> QED BY <1>1, <1>2, <2>1, <2>2, <2>3, CommitKeepsOne
        DEF market, IInv, SameKeys, ValidIsUndisputed
<1>3. CASE CommitInference
  <2>1. Types' /\ LoadedRecorded'
    BY <1>1, <1>3 DEF CommitInference, market, models, IInv, Types, LoadedRecorded
  <2>2. Priced' /\ Timed' /\ Corroborated'
    BY <1>1, <1>3, CommitCorroborates DEF CommitInference, market, IInv, Priced
  <2> QED BY <1>1, <1>3, <2>1, <2>2, CommitPredicts DEF CommitInference, market, models, IInv,
            OneServing, RegistryRecorded, Recorded, SameKeys, ValidIsUndisputed
<1>4. CASE \E m \in Match : \E start \in Fixture[m].starts : \E board \in Board :
            SyncOdds(m, start, board)
  <2>1. PICK m \in Match : \E start \in Fixture[m].starts : \E board \in Board :
            SyncOdds(m, start, board)
    BY <1>4
  <2>2. PICK start \in Fixture[m].starts : \E board \in Board : SyncOdds(m, start, board)
    BY <2>1
  <2>3. PICK board \in Board : SyncOdds(m, start, board)
    BY <2>2
  <2>4. SameKeys' /\ ValidIsUndisputed'
    BY <1>1, <2>3, SyncKeepsUndisputed
  <2>5. UNCHANGED <<now, models, inference, picks>>
    BY <2>3 DEF SyncOdds
  <2>6. Types' /\ OneServing' /\ RegistryRecorded'
    BY <1>1, <2>5 DEF models, IInv, Types, OneServing, RegistryRecorded, Recorded
  <2>7. LoadedRecorded' /\ PredictedByPromoted'
    BY <1>1, <2>5 DEF models, picks, IInv, LoadedRecorded, PredictedByPromoted, Recorded
  <2>8. Priced' /\ Timed' /\ Corroborated'
    BY <1>1, <2>3, SyncKeepsPrices
  <2> QED BY <2>4, <2>6, <2>7, <2>8 DEF IInv
<1> QED BY <1>1, <1>2, <1>3, <1>4, OtherSteps

\* The invariant holds in every reachable state.
THEOREM Invariance == Spec => []IInv
<1> QED BY InitIInv, NextIInv, PTL DEF Spec

\* At most one model of a sport is in production (scripts/research.py promote).
THEOREM SpecOneServing == Spec => []OneServing
<1>1. IInv => OneServing
  BY DEF IInv
<1> QED BY <1>1, Invariance, PTL

\* Every prediction is by a model whose promotion passed less than the shelf life before
\* (research/production.py infer), however promotions and inferences interleave.
THEOREM SpecPredictedByPromoted == Spec => []PredictedByPromoted
<1>1. IInv => PredictedByPromoted
  BY DEF IInv
<1> QED BY <1>1, Invariance, PTL

\* A price the provider contradicted last is not VALID (persist_odds_batch).
THEOREM SpecValidIsUndisputed == Spec => []ValidIsUndisputed
<1>1. IInv => ValidIsUndisputed
  BY DEF IInv
<1> QED BY <1>1, Invariance, PTL

\* A recommended price is in the archive, quoted by its book within the half hour before,
\* and another book bears it out (market_at, classify_odds_prices, infer), for any answers
\* of the provider and any number of books.
THEOREM SpecCorroborated == Spec => []Corroborated
<1>1. IInv => Corroborated
  BY DEF IInv
<1> QED BY <1>1, Invariance, PTL

\* A shown price was observed at most the stale limit and the market's half hour ago
\* (recommendation_rows, latest_odds_at).
THEOREM SpecShownPriceRecent == Spec => []ShownPriceRecent
<1>1. ASSUME IInv, NEW r \in Shown
      PROVE  \E k \in DOMAIN odds : /\ k.match = r.match /\ k.side = r.side /\ k.book = r.book
                                    /\ odds[k].price = r.price
                                    /\ k.at >= now - StaleAge - MaxAge
  <2>1. /\ r \in recommendations /\ r.oddsAt >= now - StaleAge
        /\ r.at \in Nat /\ r.oddsAt \in Int /\ r.oddsAt <= r.at
        /\ now \in Nat /\ StaleAge \in Nat /\ MaxAge \in Nat
    BY <1>1, PicksAssumption DEF Shown, IInv, Timed, Types
  <2>2. PICK k \in DOMAIN odds : /\ k.match = r.match /\ k.side = r.side /\ k.book = r.book
                                 /\ k.at \in (r.at - MaxAge)..r.at
                                 /\ odds[k].price = r.price
    BY <1>1, <2>1 DEF IInv, Corroborated
  <2>3. k.at >= now - StaleAge - MaxAge
    BY <2>1, <2>2
  <2> QED BY <2>2, <2>3
<1>2. IInv => ShownPriceRecent
  BY <1>1 DEF ShownPriceRecent
<1> QED BY <1>2, Invariance, PTL

===========================================================================
