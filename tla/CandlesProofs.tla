--------------------------- MODULE CandlesProofs ---------------------------
(***************************************************************************)
(* Proofs about Candles for any prices, days, bucket widths and lookbacks, *)
(* however long the market runs.                                           *)
(***************************************************************************)
EXTENDS Candles, WellFoundedInduction, TLAPS

LEMMA Numbers ==
    /\ Prices \subseteq Nat /\ 0 \notin Prices /\ OpeningPrice \in Prices
    /\ DayLength \in Nat \ {0} /\ LastMinute \in Nat \ {0}
    /\ Width \in Nat \ {0} /\ Lookback \in Nat \ {0} /\ CoarseLookback \in Nat \ {0}
    /\ 1 \in Minutes /\ Minutes \subseteq Nat
  BY CandlesAssumption DEF CandlesAssumption, Minutes

-----------------------------------------------------------------------------
(***************************************************************************)
(* Buckets.                                                                *)
(***************************************************************************)

\* A number is its quotient and its remainder.
LEMMA Remainder ==
    ASSUME NEW x \in Nat, NEW n \in Nat \ {0}
    PROVE  \E q \in Nat, r \in 0..(n - 1) :
             x \div n = q /\ x % n = r /\ x = n * q + r /\ r <= x
  <1>1. /\ x % n \in 0..(n - 1) /\ x % n <= x
        /\ x \div n \in Nat /\ x = n * (x \div n) + (x % n)
    OBVIOUS
  <1> QED BY <1>1

\* Quotient and remainder are unique.
LEMMA Division ==
    ASSUME NEW n \in Nat \ {0}, NEW q \in Int, NEW r \in 0..(n - 1)
    PROVE  (n * q + r) \div n = q /\ (n * q + r) % n = r
  OBVIOUS

\* A bucket starts in the session of its minutes, less than a bucket before them, and is
\* its own bucket.
LEMMA BucketFacts ==
    ASSUME NEW m \in Minutes
    PROVE  /\ Bucket(m) \in Minutes /\ Bucket(m) <= m /\ m < Bucket(m) + Width
           /\ Day(Bucket(m)) = Day(m) /\ Bucket(Bucket(m)) = Bucket(m)
  <1>1. /\ m \in Nat /\ m >= 1 /\ m <= LastMinute /\ LastMinute \in Nat
        /\ DayLength \in Nat \ {0} /\ Width \in Nat \ {0} /\ m - 1 \in Nat
    BY Numbers DEF Minutes
  <1>2. PICK q \in Nat, r \in 0..(DayLength - 1) :
          /\ (m - 1) \div DayLength = q /\ (m - 1) % DayLength = r
          /\ m - 1 = DayLength * q + r /\ r <= m - 1
    BY <1>1, Remainder
  <1>3. r \in Nat
    BY <1>1
  <1>4. PICK t \in Nat, s \in 0..(Width - 1) :
          r \div Width = t /\ r % Width = s /\ r = Width * t + s /\ s <= r
    BY <1>1, <1>3, Remainder
  <1>5. Bucket(m) = m - s /\ Day(m) = q
    BY <1>2, <1>4 DEF Bucket, Day
  <1>6. s \in Nat /\ s < Width /\ s <= m - 1 /\ r < DayLength
    BY <1>1, <1>2, <1>4
  <1>7. Bucket(m) \in Minutes /\ Bucket(m) <= m /\ m < Bucket(m) + Width
    BY <1>1, <1>5, <1>6 DEF Minutes
  <1>8. PICK v \in 0..(DayLength - 1) : v = r - s /\ Bucket(m) - 1 = DayLength * q + v
    <2>1. \A p \in Nat : m - 1 = p + r => m - s - 1 = p + (r - s)
      BY <1>1, <1>3, <1>6
    <2>2. DayLength * q \in Nat /\ r - s \in 0..(DayLength - 1)
      BY <1>1, <1>3, <1>4, <1>6
    <2> QED BY <1>2, <1>5, <2>1, <2>2
  <1>9. (Bucket(m) - 1) \div DayLength = q /\ (Bucket(m) - 1) % DayLength = v
    <2>1. q \in Int
      OBVIOUS
    <2>2. (DayLength * q + v) \div DayLength = q /\ (DayLength * q + v) % DayLength = v
      BY <1>1, <2>1, Division, Zenon
    <2> QED BY <1>8, <2>2
  <1>10. v % Width = 0
    <2>1. v = Width * t + 0 /\ 0 \in 0..(Width - 1)
      BY <1>1, <1>3, <1>4, <1>6, <1>8
    <2> QED BY <1>1, <2>1, Division
  <1>11. Bucket(Bucket(m)) = Bucket(m)
    <2>1. Bucket(Bucket(m)) = Bucket(m) - 0
      BY <1>9, <1>10 DEF Bucket
    <2> QED BY <1>1, <1>6, <1>5, <2>1
  <1> QED BY <1>5, <1>7, <1>9, <1>11 DEF Day

\* The minutes of a bucket's window are those of the bucket.
LEMMA WindowFacts ==
    ASSUME NEW m \in Minutes
    PROVE  /\ m \in Window(m) /\ Window(m) \subseteq Minutes
           /\ Window(Bucket(m)) = Window(m)
           /\ \A k \in Window(m) : Bucket(k) = Bucket(m)
  <1>1. /\ Bucket(m) \in Minutes /\ Bucket(m) <= m /\ m < Bucket(m) + Width
        /\ Day(Bucket(m)) = Day(m) /\ Bucket(Bucket(m)) = Bucket(m)
    BY BucketFacts
  <1>2. ASSUME NEW k \in Window(m) PROVE Bucket(k) = Bucket(m)
    <2>1. PICK b \in Minutes : b = Bucket(m)
      BY <1>1
    <2>2. /\ b \in Nat /\ b - 1 \in Nat /\ k \in Nat /\ k - 1 \in Nat
          /\ DayLength \in Nat \ {0} /\ Width \in Nat \ {0}
      BY Numbers DEF Window, Minutes
    <2>3. k >= b /\ k < b + Width /\ Day(k) = Day(b) /\ Bucket(b) = b
      BY <1>1, <2>1 DEF Window
    <2>4. PICK q \in Nat, r \in 0..(DayLength - 1) :
            /\ (b - 1) \div DayLength = q /\ (b - 1) % DayLength = r
            /\ b - 1 = DayLength * q + r
      <3>1. PICK y \in Nat : y = b - 1
        BY <2>2
      <3>2. \E q \in Nat, r \in 0..(DayLength - 1) :
              y \div DayLength = q /\ y % DayLength = r /\ y = DayLength * q + r
        BY <2>2, Remainder
      <3> QED BY <3>1, <3>2
    <2>5. PICK p \in Nat, u \in 0..(DayLength - 1) :
            /\ (k - 1) \div DayLength = p /\ (k - 1) % DayLength = u
            /\ k - 1 = DayLength * p + u
      BY <2>2, Remainder
    <2>6. p = q /\ r \in Nat /\ u \in Nat
      BY <2>2, <2>3, <2>4, <2>5 DEF Day
    <2>7. PICK t \in Nat, s \in 0..(Width - 1) :
            r \div Width = t /\ r % Width = s /\ r = Width * t + s
      BY <2>2, <2>6, Remainder
    <2>8. Bucket(b) = b - s /\ Bucket(k) = k - (u % Width)
      BY <2>4, <2>5, <2>7 DEF Bucket
    <2>9. s = 0 /\ s \in Nat
      BY <2>2, <2>3, <2>7, <2>8
    <2>10. PICK j \in 0..(Width - 1) : j = k - b
      BY <2>2, <2>3
    <2>11. DayLength * q \in Nat /\ Width * t \in Nat
      BY <2>2
    <2>12. u = Width * t + j
      BY <2>2, <2>4, <2>5, <2>6, <2>7, <2>9, <2>10, <2>11
    <2>13. u % Width = j
      BY <2>2, <2>12, Division
    <2> QED BY <2>1, <2>2, <2>8, <2>10, <2>13
  <1> QED BY <1>1, <1>2 DEF Window

-----------------------------------------------------------------------------
(***************************************************************************)
(* The least and the greatest of a set of prices, and the fold of a        *)
(* window.  Min and Max are CHOOSEs: that there is something to choose     *)
(* follows from the order of Nat being well founded.                       *)
(***************************************************************************)
Below == {p \in Nat \X Nat : p[1] < p[2]}

\* A set of natural numbers that is not empty has a least one.
LEMMA LeastNatural ==
    ASSUME NEW T, T \subseteq Nat, T # {}
    PROVE  \E x \in T : \A y \in T : x <= y
  <1>1. IsWellFoundedOn(Below, Nat)
    BY NatLessThanWellFounded DEF OpToRel, Below
  <1>2. PICK x \in T : \A y \in T : ~ (<<y, x>> \in Below)
    BY <1>1, WFMin, Zenon
  <1>3. \A y \in T : ~ (y < x)
    BY <1>2 DEF Below
  <1> QED BY <1>3

LEMMA MinFacts ==
    ASSUME NEW T, T \subseteq Nat, T # {}
    PROVE  Min(T) \in T /\ \A y \in T : Min(T) <= y
  BY LeastNatural DEF Min

LEMMA MaxFacts ==
    ASSUME NEW T, T \subseteq Nat, T # {}, NEW n \in Nat, \A y \in T : y <= n
    PROVE  Max(T) \in T /\ \A y \in T : Max(T) >= y
  <1> DEFINE distances == {n - x : x \in T}
  <1>0. \A x \in T : x \in Nat /\ n - x \in Nat
    OBVIOUS
  <1>1. distances \subseteq Nat /\ distances # {}
    BY <1>0
  <1>2. PICK d \in distances : \A e \in distances : d <= e
    BY <1>1, LeastNatural
  <1>3. PICK m \in T : d = n - m
    OBVIOUS
  <1>4. ASSUME NEW y \in T PROVE m >= y
    <2>1. n - m <= n - y
      BY <1>2, <1>3
    <2> QED BY <2>1
  <1> QED BY <1>4 DEF Max

\* The values of finitely many minutes are bounded.
LEMMA Bounded ==
    ASSUME NEW h \in [Minutes -> Nat]
    PROVE  \E n \in Nat : \A m \in Minutes : h[m] <= n
  <1> DEFINE Bound(k, n) == \A m \in Minutes : m <= k => h[m] <= n
             unbounded == {k \in Nat : \A n \in Nat : ~ Bound(k, n)}
  <1>1. Minutes \subseteq Nat /\ LastMinute \in Nat /\ \A m \in Minutes : m <= LastMinute
    BY Numbers DEF Minutes
  <1>2. CASE LastMinute \notin unbounded
    <2>1. PICK n \in Nat : Bound(LastMinute, n)
      BY <1>1, <1>2
    <2> QED BY <1>1, <2>1
  <1>3. CASE LastMinute \in unbounded
    <2>1. unbounded \subseteq Nat /\ unbounded # {}
      BY <1>3
    <2> HIDE DEF unbounded
    <2>2. PICK k \in unbounded : \A j \in unbounded : k <= j
      BY <2>1, LeastNatural
    <2>3. k \in Nat /\ \A n \in Nat : ~ Bound(k, n)
      BY DEF unbounded
    <2>4. k # 0
      <3>1. 0 \notin Minutes /\ 0 \in Nat
        BY Numbers DEF Minutes
      <3>2. Bound(0, 0)
        BY <1>1, <3>1
      <3> QED BY <2>3, <3>1, <3>2
    <2>5. k - 1 \in Nat /\ k - 1 \notin unbounded
      BY <2>1, <2>2, <2>3, <2>4
    <2>6. PICK n \in Nat : Bound(k - 1, n)
      BY <2>5 DEF unbounded
    <2>7. CASE k \notin Minutes
      <3>1. Bound(k, n)
        BY <1>1, <2>3, <2>6, <2>7
      <3> QED BY <2>3, <3>1
    <2>8. CASE k \in Minutes
      <3>1. h[k] \in Nat
        BY <2>8
      <3>2. n + h[k] \in Nat /\ \A y \in Nat : y <= n => y <= n + h[k]
        BY <3>1
      <3>3. Bound(k, n + h[k])
        <4> SUFFICES ASSUME NEW m \in Minutes, m <= k PROVE h[m] <= n + h[k]
          OBVIOUS
        <4>1. CASE m = k
          BY <3>1, <4>1
        <4>2. CASE m # k
          <5>1. m <= k - 1 /\ h[m] \in Nat
            BY <1>1, <2>3, <4>2
          <5> QED BY <2>6, <3>2, <5>1
        <4> QED BY <4>1, <4>2
      <3> QED BY <2>3, <3>2, <3>3
    <2> QED BY <2>7, <2>8
  <1> QED BY <1>2, <1>3

\* The fold of a window that has a row is the lowest low and the highest high of its rows.
LEMMA FoldFacts ==
    ASSUME NEW table \in [Minutes -> Bars], NEW window, window \subseteq Minutes,
           NEW k \in window, table[k] # NoBar
    PROVE  /\ Fold(table, window) \in Bars
           /\ \E m \in window : table[m] # NoBar /\ Fold(table, window).low = table[m].low
           /\ \E m \in window : table[m] # NoBar /\ Fold(table, window).high = table[m].high
           /\ \A m \in window :
                table[m] # NoBar => Covers(Fold(table, window), table[m])
  <1> DEFINE bars == {m \in window : table[m] # NoBar}
             lows == {table[m].low : m \in bars}
             highs == {table[m].high : m \in bars}
             fold == Fold(table, window)
  <1>1. fold = Bar(Min(lows), Max(highs), "live")
    BY DEF Fold
  <1>2. /\ lows \subseteq Prices \cup {0} /\ highs \subseteq Prices \cup {0}
        /\ lows # {} /\ highs # {}
    BY DEF Bars
  <1>3. lows \subseteq Nat /\ highs \subseteq Nat
    BY <1>2, Numbers
  <1>4. Min(lows) \in lows /\ \A y \in lows : Min(lows) <= y
    BY <1>2, <1>3, MinFacts
  <1>5. Max(highs) \in highs /\ \A y \in highs : Max(highs) >= y
    <2> DEFINE h == [m \in Minutes |-> table[m].high]
    <2>1. h \in [Minutes -> Nat]
      <3>1. \A m \in Minutes : table[m].high \in Prices \cup {0}
        BY DEF Bars
      <3>2. Prices \cup {0} \subseteq Nat
        BY Numbers
      <3> QED BY <3>1, <3>2
    <2>2. PICK n \in Nat : \A m \in Minutes : h[m] <= n
      BY <2>1, Bounded
    <2>3. \A y \in highs : y <= n
      BY <2>2
    <2> HIDE DEF highs
    <2> QED BY <1>2, <1>3, <2>3, MaxFacts
  <1>6. fold.low = Min(lows) /\ fold.high = Max(highs) /\ fold.writer = "live"
    BY <1>1 DEF Bar
  <1>7. fold \in Bars
    <2>1. Min(lows) \in Prices \cup {0} /\ Max(highs) \in Prices \cup {0}
      BY <1>2, <1>4, <1>5
    <2>2. PICK low \in Prices \cup {0}, high \in Prices \cup {0} : fold = Bar(low, high, "live")
      BY <1>1, <2>1
    <2> HIDE DEF fold
    <2> QED BY <2>2, Zenon DEF Bar, Bars, Writers
  <1>8. \E m \in window : table[m] # NoBar /\ fold.low = table[m].low
    BY <1>4, <1>6
  <1>9. \E m \in window : table[m] # NoBar /\ fold.high = table[m].high
    BY <1>5, <1>6
  <1>10. \A m \in window : table[m] # NoBar => Covers(fold, table[m])
    BY <1>4, <1>5, <1>6 DEF Covers
  <1> QED BY <1>7, <1>8, <1>9, <1>10

\* Rows that are added to a window can only widen its fold.
LEMMA FoldWidens ==
    ASSUME NEW table \in [Minutes -> Bars], NEW later \in [Minutes -> Bars],
           NEW window, window \subseteq Minutes, NEW k \in window, table[k] # NoBar,
           \A m \in window : table[m] # NoBar => later[m] = table[m]
    PROVE  Covers(Fold(later, window), Fold(table, window))
  <1>1. /\ \E m \in window : table[m] # NoBar /\ Fold(table, window).low = table[m].low
        /\ \E m \in window : table[m] # NoBar /\ Fold(table, window).high = table[m].high
    BY FoldFacts
  <1>2. later[k] # NoBar
    OBVIOUS
  <1>3. \A m \in window : later[m] # NoBar => Covers(Fold(later, window), later[m])
    BY <1>2, FoldFacts
  <1> QED BY <1>1, <1>3 DEF Covers

\* A fold depends on the prices of the rows of its window only.
LEMMA FoldSame ==
    ASSUME NEW table, NEW later, NEW window,
           \A m \in window : /\ later[m].low = table[m].low /\ later[m].high = table[m].high
                             /\ later[m] = NoBar <=> table[m] = NoBar
    PROVE  Fold(later, window) = Fold(table, window)
  <1> DEFINE bars(t) == {m \in window : t[m] # NoBar}
  <1>1. bars(later) = bars(table)
    OBVIOUS
  <1>2. /\ {later[m].low : m \in bars(later)} = {table[m].low : m \in bars(table)}
        /\ {later[m].high : m \in bars(later)} = {table[m].high : m \in bars(table)}
    BY <1>1
  <1> QED BY <1>2 DEF Fold

-----------------------------------------------------------------------------
(***************************************************************************)
(* The rows show what the market did.                                      *)
(***************************************************************************)

\* The market has a candle for each minute so far, and none for the minutes to come.
TruthSoFar ==
    \A m \in Minutes : IF m > now THEN truth[m] = NoBar
                       ELSE /\ truth[m].low \in Prices /\ truth[m].high \in Prices
                            /\ truth[m].low <= truth[m].high

\* The feed's last tick is a price of the minute it was received in.
PacketReal ==
    packet # NoTick =>
        /\ packet.seen \in 1..now
        /\ truth[packet.seen].low <= packet.price /\ packet.price <= truth[packet.seen].high

\* A range within what minute m, or the minute before it, has shown.
Shown(m, low, high) ==
    LET shown == {k \in {m - 1, m} \cap Minutes : truth[k] # NoBar}
    IN  /\ \E k \in shown : truth[k].low <= low
        /\ \E k \in shown : truth[k].high >= high

\* The aggregator's bar is of a minute that has come, and of prices of that minute; what
\* it is about to commit is its own.
MemoryReal ==
    /\ memory.bucket <= now
    /\ live.pc # "idle" => memory.bucket # 0
    /\ live.pc = "commit" => live.fold.writer = "live"
    /\ memory.bucket # 0 => Shown(memory.bucket, memory.low, memory.high)

\* A run of the historical collector is held to the time it began.
HistoryPast == history.end <= now

TInv ==
    /\ TypeOK /\ TruthSoFar /\ PacketReal /\ MemoryReal /\ HistoryPast
    /\ NoFutureBars /\ BarsAreReal

\* BarsAreReal in terms of Shown.
LEMMA RealIsShown ==
    BarsAreReal <=> \A m \in Minutes : stored[m] # NoBar => Shown(m, stored[m].low, stored[m].high)
  BY DEF BarsAreReal, Shown

LEMMA HistoryFacts ==
    ASSUME TInv
    PROVE  history.end \in 0..LastMinute /\ history.end \in Nat /\ history.end <= now
  <1>1. history.end \in 0..LastMinute
    BY Zenon DEF TInv, TypeOK, Histories
  <1> QED BY <1>1, Numbers DEF TInv, HistoryPast

\* What the market has shown, it has shown for good.
Wider ==
    \A k \in Minutes :
        truth[k] # NoBar => /\ truth'[k] # NoBar
                            /\ truth'[k].low <= truth[k].low
                            /\ truth'[k].high >= truth[k].high

LEMMA ShownLater ==
    ASSUME TypeOK, TypeOK', Wider, NEW m \in 0..LastMinute,
           NEW low \in Nat, NEW high \in Nat, Shown(m, low, high)
    PROVE  Shown(m, low, high)'
  <1>1. \A k \in Minutes : /\ truth[k].low \in Nat /\ truth[k].high \in Nat
                           /\ truth'[k].low \in Nat /\ truth'[k].high \in Nat
    <2>1. Prices \cup {0} \subseteq Nat
      BY Numbers
    <2> QED BY <2>1 DEF TypeOK, Bars
  <1> QED BY <1>1 DEF Shown, Wider

\* The type of what the market moves is enough for the rest to stay as it is.
LEMMA MarketPreserves ==
    ASSUME TInv, now' \in Minutes, now <= now', truth' \in [Minutes -> Bars], Wider, TruthSoFar',
           UNCHANGED <<feed, packet, memory, live, history, rows>>
    PROVE  TInv'
  <1>1. TypeOK'
    BY DEF TInv, TypeOK, rows
  <1>2. now \in Nat /\ now' \in Nat /\ Minutes \subseteq Nat
    BY Numbers DEF TInv, TypeOK
  <1>3. Prices \cup {0} \subseteq Nat
    BY Numbers
  <1>4. PacketReal'
    <2> SUFFICES ASSUME packet # NoTick
                 PROVE  /\ packet.seen \in 1..now'
                        /\ truth'[packet.seen].low <= packet.price
                        /\ packet.price <= truth'[packet.seen].high
      BY DEF PacketReal
    <2>1. /\ packet.seen \in 1..now /\ packet.price \in Nat
          /\ truth[packet.seen].low <= packet.price /\ packet.price <= truth[packet.seen].high
      BY <1>3 DEF TInv, PacketReal, TypeOK
    <2> DEFINE k == packet.seen
    <2>2. k \in Minutes /\ k \in Nat /\ k <= now /\ ~ (k > now)
      BY <1>2, <2>1 DEF TInv, TypeOK, Minutes
    <2>3. /\ truth[k].low \in Nat /\ truth[k].high \in Nat
          /\ truth'[k].low \in Nat /\ truth'[k].high \in Nat
      BY <1>3, <2>2 DEF TInv, TypeOK, Bars
    <2>4. truth[k] # NoBar
      <3>1. truth[k].low \in Prices
        BY <2>2 DEF TInv, TruthSoFar
      <3> QED BY <3>1, Numbers DEF NoBar, Bar
    <2> QED BY <1>2, <2>1, <2>2, <2>3, <2>4 DEF Wider
  <1>5. MemoryReal'
    <2>1. /\ memory.bucket \in 0..LastMinute /\ memory.low \in Nat /\ memory.high \in Nat
      BY <1>3 DEF TInv, TypeOK
    <2>2. memory.bucket # 0 => Shown(memory.bucket, memory.low, memory.high)'
      BY <1>1, <2>1, ShownLater DEF TInv, MemoryReal
    <2>3. memory.bucket <= now'
      BY <1>2, <2>1 DEF TInv, MemoryReal
    <2> QED BY <2>2, <2>3 DEF TInv, MemoryReal, Shown
  <1>6. HistoryPast'
    <2>1. history.end \in Nat
      BY HistoryFacts
    <2> QED BY <1>2, <2>1 DEF TInv, HistoryPast
  <1>7. NoFutureBars'
    BY <1>2 DEF TInv, NoFutureBars, rows
  <1>8. BarsAreReal'
    <2>1. ASSUME NEW m \in Minutes, stored[m] # NoBar
          PROVE  Shown(m, stored[m].low, stored[m].high)'
      <3>1. PICK low \in Nat, high \in Nat : low = stored[m].low /\ high = stored[m].high
        BY <1>3 DEF TInv, TypeOK, Bars
      <3>2. m \in 0..LastMinute
        BY DEF Minutes
      <3>3. Shown(m, low, high)
        BY <2>1, <3>1, RealIsShown DEF TInv
      <3>4. Shown(m, low, high)'
        BY <1>1, <3>2, <3>3, ShownLater DEF TInv
      <3> QED BY <3>1, <3>4 DEF rows, Shown
    <2> QED BY <2>1, RealIsShown DEF rows, Shown, BarsAreReal
  <1> QED BY <1>1, <1>4, <1>5, <1>6, <1>7, <1>8 DEF TInv

LEMMA TradePreserves ==
    ASSUME TInv, NEW p \in Prices, Trade(p)
    PROVE  TInv' /\ Wider
  <1>1. /\ now \in Minutes /\ now \in Nat /\ truth \in [Minutes -> Bars] /\ p \in Nat
        /\ truth[now] \in Bars
    BY Numbers DEF TInv, TypeOK
  <1>2. /\ truth[now].low \in Prices /\ truth[now].high \in Prices
        /\ truth[now].low <= truth[now].high
    BY <1>1 DEF TInv, TruthSoFar
  <1> DEFINE low == IF p < truth[now].low THEN p ELSE truth[now].low
             high == IF p > truth[now].high THEN p ELSE truth[now].high
             bar == [truth[now] EXCEPT !.low = low, !.high = high]
  <1>3. truth' = [truth EXCEPT ![now] = bar]
    BY <1>1 DEF Trade
  <1>4. /\ low \in Prices /\ high \in Prices /\ low <= high
        /\ low <= truth[now].low /\ high >= truth[now].high
    <2>1. truth[now].low \in Nat /\ truth[now].high \in Nat
      BY <1>2, Numbers
    <2> QED BY <1>1, <1>2, <2>1
  <1> HIDE DEF low, high
  <1>5. bar \in Bars /\ bar.low = low /\ bar.high = high
    BY <1>1, <1>4 DEF Bars
  <1> HIDE DEF bar
  <1>6. truth' \in [Minutes -> Bars]
    BY <1>1, <1>3, <1>5
  <1>7. /\ truth'[now] = bar /\ \A k \in Minutes \ {now} : truth'[k] = truth[k]
        /\ now' = now
    BY <1>1, <1>3 DEF Trade
  <1>8. TruthSoFar'
    BY <1>1, <1>4, <1>5, <1>7 DEF TInv, TruthSoFar
  <1>9. Wider
    <2>1. bar # NoBar
      BY <1>4, <1>5, Numbers DEF NoBar, Bar
    <2>2. \A k \in Minutes : truth[k].low \in Nat /\ truth[k].high \in Nat
      <3>1. Prices \cup {0} \subseteq Nat
        BY Numbers
      <3> QED BY <1>1, <3>1 DEF Bars
    <2>3. \A x \in Nat : x <= x /\ x >= x
      OBVIOUS
    <2> QED BY <1>1, <1>4, <1>5, <1>7, <2>1, <2>2, <2>3 DEF Wider
  <1>10. now' \in Minutes /\ now <= now'
    BY <1>1, <1>7
  <1> QED BY <1>6, <1>8, <1>9, <1>10, MarketPreserves DEF Trade

LEMMA NextMinutePreserves == ASSUME TInv, NextMinute PROVE TInv' /\ Wider
  <1>1. /\ now \in Minutes /\ now \in Nat /\ truth \in [Minutes -> Bars]
        /\ now' = now + 1 /\ now' \in Minutes /\ now + 1 \in Minutes
    BY Numbers DEF TInv, TypeOK, NextMinute, Minutes
  <1>2. truth[now].low \in Prices /\ truth[now].high \in Prices
    BY <1>1 DEF TInv, TruthSoFar
  <1>3. PICK p \in Prices : truth' = [truth EXCEPT ![now + 1] = Bar(p, p, "none")]
    BY <1>2 DEF NextMinute
  <1> DEFINE bar == Bar(p, p, "none")
  <1>4. bar \in Bars /\ bar.low = p /\ bar.high = p /\ p \in Nat
    BY Numbers DEF Bars, Bar, Writers
  <1> HIDE DEF bar
  <1>5. truth' \in [Minutes -> Bars] /\ truth'[now + 1] = bar
        /\ \A k \in Minutes \ {now + 1} : truth'[k] = truth[k]
    BY <1>1, <1>3, <1>4 DEF bar
  <1>6. TruthSoFar'
    <2> SUFFICES ASSUME NEW m \in Minutes
                 PROVE  IF m > now + 1 THEN truth'[m] = NoBar
                        ELSE /\ truth'[m].low \in Prices /\ truth'[m].high \in Prices
                             /\ truth'[m].low <= truth'[m].high
      BY <1>1 DEF TruthSoFar
    <2>1. m \in Nat
      BY Numbers
    <2>2. CASE m = now + 1
      BY <1>1, <1>4, <1>5, <2>2
    <2>3. CASE m # now + 1
      <3>1. truth'[m] = truth[m] /\ (m > now + 1 => m > now) /\ (~ (m > now + 1) => ~ (m > now))
        BY <1>1, <1>5, <2>1, <2>3
      <3> QED BY <3>1 DEF TInv, TruthSoFar
    <2> QED BY <2>2, <2>3
  <1>7. Wider
    <2>1. truth[now + 1] = NoBar
      BY <1>1 DEF TInv, TruthSoFar
    <2>2. \A k \in Minutes : truth[k].low \in Nat /\ truth[k].high \in Nat
      <3>1. Prices \cup {0} \subseteq Nat
        BY Numbers
      <3> QED BY <1>1, <3>1 DEF Bars
    <2>3. \A x \in Nat : x <= x /\ x >= x
      OBVIOUS
    <2> QED BY <1>5, <2>1, <2>2, <2>3 DEF Wider
  <1> QED BY <1>1, <1>5, <1>6, <1>7, MarketPreserves DEF NextMinute

\* A step that leaves the market and the rows alone.
LEMMA RowsStay ==
    ASSUME TInv, UNCHANGED <<now, truth, stored, rollup>>
    PROVE  TruthSoFar' /\ NoFutureBars' /\ BarsAreReal'
  BY DEF TInv, TruthSoFar, NoFutureBars, BarsAreReal

LEMMA FeedPreserves == ASSUME TInv, Connect \/ Disconnect \/ OnMessage PROVE TInv'
  <1>1. /\ feed' \in {"down", "up", "closed"} /\ packet' \in {packet} \cup Quotes
        /\ UNCHANGED <<now, truth, memory, live, history, stored, rollup>>
    BY DEF Connect, Disconnect, OnMessage, market, rows, TInv, TypeOK
  <1>2. /\ now \in Minutes /\ now \in 1..now /\ now \in 0..LastMinute
        /\ truth[now].low \in Prices /\ truth[now].high \in Prices
        /\ truth[now].low <= truth[now].high
    BY Numbers DEF TInv, TypeOK, TruthSoFar, Minutes
  <1>3. truth[now].low \in Nat /\ truth[now].high \in Nat
    BY <1>2, Numbers
  <1>4. ASSUME packet' \in Quotes
        PROVE  /\ packet' \in [price : Prices \cup {0}, seen : 0..LastMinute]
               /\ packet'.seen = now
               /\ truth[now].low <= packet'.price /\ packet'.price <= truth[now].high
    BY <1>2, <1>3, <1>4 DEF Quotes
  <1>5. TypeOK'
    BY <1>1, <1>4 DEF TInv, TypeOK
  <1>6. PacketReal'
    BY <1>1, <1>2, <1>4 DEF TInv, PacketReal
  <1>7. MemoryReal' /\ HistoryPast'
    BY <1>1 DEF TInv, MemoryReal, HistoryPast, Shown
  <1> QED BY <1>1, <1>5, <1>6, <1>7, RowsStay DEF TInv

\* The price of a tick, streamed late or quoted now, is of this minute or the one before.
LEMMA TickReal ==
    ASSUME TInv, NEW tick \in Streamed \cup Quotes
    PROVE  /\ tick.price \in Prices \cup {0} /\ tick.price \in Nat
           /\ Shown(now, tick.price, tick.price)
  <1>1. /\ now \in Minutes /\ now \in Nat /\ Minutes = 1..LastMinute /\ LastMinute \in Nat
        /\ Prices \cup {0} \subseteq Nat
    BY Numbers DEF TInv, TypeOK, Minutes
  <1>2. \A k \in Minutes : k <= now =>
          /\ truth[k].low \in Prices /\ truth[k].high \in Prices
          /\ truth[k].low \in Nat /\ truth[k].high \in Nat
          /\ truth[k].low <= truth[k].high /\ truth[k] # NoBar
    <2> SUFFICES ASSUME NEW k \in Minutes, k <= now
                 PROVE  /\ truth[k].low \in Prices /\ truth[k].high \in Prices
                        /\ truth[k].low \in Nat /\ truth[k].high \in Nat
                        /\ truth[k].low <= truth[k].high /\ truth[k] # NoBar
      OBVIOUS
    <2>1. ~ (k > now)
      BY <1>1
    <2>2. /\ truth[k].low \in Prices /\ truth[k].high \in Prices
          /\ truth[k].low <= truth[k].high
      BY <2>1 DEF TInv, TruthSoFar
    <2>3. NoBar.low = 0
      BY DEF NoBar, Bar
    <2> QED BY <2>2, <2>3, Numbers
  <1>3. ASSUME NEW k \in {now - 1, now}, k \in Minutes,
               truth[k].low <= tick.price, tick.price <= truth[k].high, tick.price \in Nat
        PROVE  Shown(now, tick.price, tick.price)
    <2>1. k <= now /\ truth[k].high >= tick.price
      BY <1>1, <1>2, <1>3
    <2> QED BY <1>2, <1>3, <2>1 DEF Shown
  <1>4. CASE tick \in Quotes
    <2>1. tick.price = truth[now].low \/ tick.price = truth[now].high
      BY <1>4 DEF Quotes
    <2>2. now <= now
      BY <1>1
    <2>3. /\ tick.price \in Prices /\ tick.price \in Nat
          /\ truth[now].low <= tick.price /\ tick.price <= truth[now].high
      BY <1>1, <1>2, <2>1, <2>2
    <2> QED BY <1>1, <1>3, <2>3
  <1>5. CASE tick \in Streamed
    <2>1. tick = packet /\ packet # NoTick /\ ~ (packet.seen < now - 1)
      BY <1>5 DEF Streamed, Latest
    <2>2. /\ packet.seen \in 1..now /\ packet.price \in Prices \cup {0}
          /\ truth[packet.seen].low <= packet.price /\ packet.price <= truth[packet.seen].high
      BY <2>1 DEF TInv, PacketReal, TypeOK
    <2>3. packet.seen \in {now - 1, now} /\ packet.seen \in Minutes
      BY <1>1, <2>1, <2>2
    <2> QED BY <1>1, <1>3, <2>1, <2>2, <2>3
  <1> QED BY <1>4, <1>5

LEMMA IngestPreserves == ASSUME TInv, Ingest PROVE TInv'
  <1>1. PICK tick \in Streamed \cup Quotes : memory' = Updated(tick.price)
    BY DEF Ingest
  <1>2. PICK price \in Prices \cup {0} : price = tick.price
    BY <1>1, TickReal
  <1>3. /\ now \in Minutes /\ now \in Nat /\ now # 0 /\ now \in 0..LastMinute
        /\ memory \in [bucket : 0..LastMinute, low : Prices \cup {0}, high : Prices \cup {0}]
        /\ Prices \cup {0} \subseteq Nat
    BY Numbers DEF TInv, TypeOK, Minutes
  <1>4. Shown(now, price, price)
    BY <1>2, TickReal
  <1>5. /\ memory'.bucket = now
        /\ memory' \in [bucket : 0..LastMinute, low : Prices \cup {0}, high : Prices \cup {0}]
        /\ Shown(now, memory'.low, memory'.high)
    <2>1. CASE memory.bucket # now
      <3>1. memory' = [bucket |-> now, low |-> price, high |-> price]
        BY <1>1, <1>2, <2>1 DEF Updated
      <3> QED BY <1>3, <1>4, <3>1
    <2>2. CASE memory.bucket = now
      <3> DEFINE low == IF price < memory.low THEN price ELSE memory.low
                 high == IF price > memory.high THEN price ELSE memory.high
      <3>1. memory' = [memory EXCEPT !.low = low, !.high = high]
        BY <1>1, <1>2, <2>2 DEF Updated
      <3>2. low \in {price, memory.low} /\ high \in {price, memory.high}
        OBVIOUS
      <3> HIDE DEF low, high
      <3>3. low \in Prices \cup {0} /\ high \in Prices \cup {0}
        BY <1>3, <3>2
      <3>4. memory'.bucket = now /\ memory'.low = low /\ memory'.high = high
            /\ memory' \in [bucket : 0..LastMinute, low : Prices \cup {0}, high : Prices \cup {0}]
        BY <1>3, <2>2, <3>1, <3>3
      <3>5. Shown(now, memory.low, memory.high)
        BY <1>3, <2>2 DEF TInv, MemoryReal
      <3>6. Shown(now, low, high)
        BY <1>4, <3>2, <3>5 DEF Shown
      <3> QED BY <3>4, <3>6
    <2> QED BY <2>1, <2>2
  <1>6. live' = [live EXCEPT !.pc = "upsert"] /\ UNCHANGED <<market, feed, packet, history, rows>>
    BY DEF Ingest
  <1>7. TypeOK'
    BY <1>5, <1>6 DEF TInv, TypeOK, market, rows
  <1>8. MemoryReal'
    BY <1>3, <1>5, <1>6 DEF MemoryReal, Shown, market, TInv, TypeOK
  <1>9. PacketReal' /\ HistoryPast'
    BY <1>6 DEF TInv, PacketReal, HistoryPast, market
  <1> QED BY <1>6, <1>7, <1>8, <1>9, RowsStay DEF TInv, market, rows

\* The minute's row after the upsert.
LEMMA UpsertedFacts ==
    ASSUME TInv, live.pc # "idle"
    PROVE  /\ memory.bucket \in Minutes /\ memory.bucket <= now
           /\ Upserted \in [Minutes -> Bars]
           /\ Upserted[memory.bucket] = Bar(memory.low, memory.high, "live")
           /\ \A m \in Minutes : m # memory.bucket => Upserted[m] = stored[m]
           /\ Upserted[memory.bucket] # NoBar
           /\ Shown(memory.bucket, memory.low, memory.high)
  <1>1. /\ memory.bucket \in Minutes /\ memory.bucket <= now
        /\ Shown(memory.bucket, memory.low, memory.high)
    BY DEF TInv, TypeOK, MemoryReal, Minutes
  <1>2. /\ Bar(memory.low, memory.high, "live") \in Bars
        /\ Bar(memory.low, memory.high, "live") # NoBar
    BY Zenon DEF TInv, TypeOK, Bar, Bars, Writers, NoBar
  <1> QED BY <1>1, <1>2 DEF Upserted, TInv, TypeOK

LEMMA FoldRowsPreserves == ASSUME TInv, FoldRows PROVE TInv'
  <1> DEFINE fold == Fold(Upserted, Window(memory.bucket))
  <1>1. live.pc # "idle" /\ live' = [pc |-> "commit", fold |-> fold]
        /\ UNCHANGED <<market, feed, packet, memory, history, rows>>
    BY DEF FoldRows
  <1>2. fold \in Bars /\ fold.writer = "live"
    <2>1. fold \in Bars
      BY <1>1, UpsertedFacts, WindowFacts, FoldFacts
    <2>2. fold.writer = "live"
      BY DEF Fold, Bar
    <2> QED BY <2>1, <2>2
  <1> HIDE DEF fold
  <1>3. TypeOK'
    BY <1>1, <1>2 DEF TInv, TypeOK, market, rows
  <1>4. PacketReal' /\ HistoryPast' /\ MemoryReal'
    BY <1>1, <1>2 DEF TInv, PacketReal, HistoryPast, MemoryReal, Shown, market
  <1> QED BY <1>1, <1>3, <1>4, RowsStay DEF TInv, market, rows

LEMMA CommitPreserves == ASSUME TInv, Commit PROVE TInv'
  <1> DEFINE b == memory.bucket
  <1>1. /\ live.pc # "idle" /\ stored' = Upserted /\ rollup' = [rollup EXCEPT ![Bucket(b)] = live.fold]
        /\ live' = NoLive /\ UNCHANGED <<market, feed, packet, memory, history>>
    BY DEF Commit
  <1>2. b \in Minutes /\ b \in Nat /\ b <= now /\ Bucket(b) \in Minutes /\ Bucket(b) \in Nat
        /\ Bucket(b) <= b /\ now \in Nat
    BY <1>1, UpsertedFacts, BucketFacts, Numbers DEF TInv, TypeOK
  <1>3. NoLive \in [pc : {"idle", "upsert", "commit"}, fold : Bars]
    BY DEF NoLive, NoBar, Bar, Bars, Writers
  <1>4. TypeOK'
    BY <1>1, <1>2, <1>3, UpsertedFacts DEF TInv, TypeOK, market
  <1>5. TruthSoFar' /\ PacketReal' /\ HistoryPast' /\ MemoryReal'
    BY <1>1 DEF TInv, TruthSoFar, PacketReal, HistoryPast, MemoryReal, Shown, market, NoLive
  <1>6. NoFutureBars'
    <2> SUFFICES ASSUME NEW m \in Minutes, m > now PROVE stored'[m] = NoBar /\ rollup'[m] = NoBar
      BY <1>1 DEF NoFutureBars, market
    <2>1. m # b /\ m # Bucket(b)
      BY <1>2
    <2> QED BY <1>1, <2>1, UpsertedFacts DEF TInv, NoFutureBars, TypeOK
  <1>7. BarsAreReal'
    <2>1. ASSUME NEW m \in Minutes, stored'[m] # NoBar
          PROVE  Shown(m, stored'[m].low, stored'[m].high)
      <3>1. CASE m = b
        <4>1. stored'[m].low = memory.low /\ stored'[m].high = memory.high
          BY <1>1, <3>1, UpsertedFacts DEF Bar
        <4> QED BY <1>1, <3>1, <4>1, UpsertedFacts
      <3>2. CASE m # b
        BY <1>1, <2>1, <3>2, UpsertedFacts, RealIsShown DEF TInv
      <3> QED BY <3>1, <3>2
    <2> QED BY <1>1, <2>1 DEF BarsAreReal, Shown, market
  <1> QED BY <1>4, <1>5, <1>6, <1>7 DEF TInv

LEMMA NoHistoryType == NoHistory \in Histories
  BY Numbers DEF NoHistory, Histories

LEMMA CommitFailsPreserves == ASSUME TInv, CommitFails PROVE TInv'
  <1>1. live' = NoLive /\ UNCHANGED <<market, feed, packet, memory, history, rows>>
    BY DEF CommitFails
  <1>2. NoLive \in [pc : {"idle", "upsert", "commit"}, fold : Bars]
    BY DEF NoLive, NoBar, Bar, Bars, Writers
  <1>3. TypeOK'
    BY <1>1, <1>2 DEF TInv, TypeOK, market, rows
  <1>4. PacketReal' /\ HistoryPast' /\ MemoryReal'
    BY <1>1 DEF TInv, PacketReal, HistoryPast, MemoryReal, Shown, market, NoLive
  <1> QED BY <1>1, <1>3, <1>4, RowsStay DEF TInv, market, rows

\* An interval is resumed from the lookback or from one of its rows.
LEMMA StartsFacts ==
    ASSUME NEW table, NEW end \in Int, NEW lookback \in Nat
    PROVE  Starts(table, end, lookback) \subseteq Int
  <1> DEFINE minutes == {m \in Minutes : table[m] # NoBar} \cup {0}
             newest == Max(minutes)
  <1>1. newest \in Int
    <2>1. /\ minutes \subseteq Nat /\ minutes # {} /\ LastMinute \in Nat
          /\ \A m \in minutes : m <= LastMinute
      BY Numbers DEF Minutes
    <2> HIDE DEF minutes
    <2>2. newest \in minutes
      BY <2>1, MaxFacts
    <2>3. newest \in Nat
      BY <2>1, <2>2
    <2> HIDE DEF newest
    <2> QED BY <2>3
  <1>2. Starts(table, end, lookback)
          = {IF newest > end - lookback THEN newest ELSE end - lookback, end - lookback}
    BY DEF Starts
  <1> HIDE DEF newest
  <1> QED BY <1>1, <1>2

\* What the historical collector has in hand is all that changes.
LEMMA HistoryPreserves ==
    ASSUME TInv, history' \in Histories, history'.end <= now,
           UNCHANGED <<market, feed, packet, memory, live, rows>>
    PROVE  TInv'
  <1>1. TypeOK'
    BY DEF TInv, TypeOK, market, rows
  <1>2. HistoryPast' /\ PacketReal' /\ MemoryReal'
    BY DEF TInv, HistoryPast, PacketReal, MemoryReal, Shown, market
  <1> QED BY <1>1, <1>2, RowsStay DEF TInv, market, rows

LEMMA ResumePreserves ==
    ASSUME TInv, Resume \/ ResumeCoarse
    PROVE  TInv'
  <1>1. /\ now \in 0..LastMinute /\ now \in Int /\ now <= now
        /\ Lookback \in Nat /\ CoarseLookback \in Nat
        /\ history \in Histories /\ history.end \in Int /\ history.end <= now
    BY Numbers, HistoryFacts DEF TInv, TypeOK, Minutes
  <1>2. history' \in Histories /\ history'.end <= now
    <2>1. CASE Resume
      <3>1. PICK start \in Starts(stored, now, Lookback) :
              history' = [pc |-> IF start > now THEN "next" ELSE "fetch",
                          start |-> start, end |-> now]
        BY <2>1 DEF Resume
      <3>2. start \in Int
        BY <1>1, StartsFacts
      <3> QED BY <1>1, <3>1, <3>2 DEF Histories
    <2>2. CASE ResumeCoarse
      <3>1. PICK start \in Starts(rollup, history.end, CoarseLookback) :
              history' = IF start > history.end THEN NoHistory
                         ELSE [history EXCEPT !.pc = "fetch coarse", !.start = start]
        BY <2>2 DEF ResumeCoarse
      <3>2. start \in Int
        BY <1>1, StartsFacts
      <3>3. NoHistory \in Histories /\ NoHistory.end <= now
        BY <1>1, NoHistoryType DEF NoHistory
      <3> QED BY <1>1, <3>1, <3>2, <3>3 DEF Histories
    <2> QED BY <2>1, <2>2
  <1>3. UNCHANGED <<market, feed, packet, memory, live, rows>>
    BY DEF Resume, ResumeCoarse
  <1> QED BY <1>2, <1>3, HistoryPreserves

\* A fetch adds true candles of minutes that have come, where there was no row.
LEMMA FetchFacts ==
    ASSUME TInv, Fetch
    PROVE  /\ stored' \in [Minutes -> Bars]
           /\ \A m \in Minutes :
                \/ stored'[m] = stored[m]
                \/ /\ stored[m] = NoBar /\ m <= now
                   /\ stored'[m] = Bar(truth[m].low, truth[m].high, "history")
  <1>1. CASE UNCHANGED stored
    BY <1>1 DEF TInv, TypeOK
  <1>2. ASSUME NEW minutes \in Answers, stored' = StoredOnce(stored, MinuteBars(minutes))
        PROVE  /\ stored' \in [Minutes -> Bars]
               /\ \A m \in Minutes :
                    \/ stored'[m] = stored[m]
                    \/ /\ stored[m] = NoBar /\ m <= now
                       /\ stored'[m] = Bar(truth[m].low, truth[m].high, "history")
    <2>1. ASSUME NEW m \in Minutes, stored'[m] # stored[m]
          PROVE  /\ stored[m] = NoBar /\ m <= now
                 /\ stored'[m] = Bar(truth[m].low, truth[m].high, "history")
      <3>1. m \in Kept(minutes) /\ stored[m] = NoBar /\ stored'[m] = Told(m)
        BY <1>2, <2>1 DEF StoredOnce, MinuteBars
      <3>2. m \in Nat /\ now \in Nat /\ history.end \in Nat
        BY Numbers, HistoryFacts DEF TInv, TypeOK
      <3>3. m <= now /\ ~ (m > now)
        BY <3>1, <3>2 DEF Kept, TInv, HistoryPast
      <3> QED BY <3>1, <3>3 DEF Told
    <2>2. \A m \in Minutes : Bar(truth[m].low, truth[m].high, "history") \in Bars
      BY Zenon DEF TInv, TypeOK, Bar, Bars, Writers
    <2>3. \A m \in Minutes : stored'[m] \in Bars
      BY <2>1, <2>2 DEF TInv, TypeOK
    <2> QED BY <1>2, <2>1, <2>3 DEF StoredOnce
  <1> QED BY <1>1, <1>2 DEF Fetch

LEMMA FetchPreserves == ASSUME TInv, Fetch PROVE TInv'
  <1>1. /\ history' \in {NoHistory, [history EXCEPT !.pc = "next", !.start = 0]}
        /\ UNCHANGED <<market, feed, packet, memory, live, rollup>>
    BY DEF Fetch
  <1>2. history' \in Histories /\ history'.end \in {0, history.end}
    <2>1. CASE history' = NoHistory
      BY <2>1, NoHistoryType DEF NoHistory
    <2>2. CASE history' = [history EXCEPT !.pc = "next", !.start = 0]
      <3>1. history \in Histories /\ 0 \in Int
        BY DEF TInv, TypeOK
      <3> QED BY <2>2, <3>1 DEF Histories
    <2> QED BY <1>1, <2>1, <2>2
  <1>3. now \in Nat /\ Minutes \subseteq Nat
    BY Numbers DEF TInv, TypeOK
  <1>4. TypeOK'
    BY <1>1, <1>2, FetchFacts DEF TInv, TypeOK, market
  <1>5. TruthSoFar' /\ PacketReal' /\ MemoryReal'
    BY <1>1 DEF TInv, TruthSoFar, PacketReal, MemoryReal, Shown, market
  <1>6. HistoryPast'
    BY <1>1, <1>2, <1>3 DEF TInv, HistoryPast, market
  <1>7. NoFutureBars'
    <2> SUFFICES ASSUME NEW m \in Minutes, m > now PROVE stored'[m] = NoBar /\ rollup'[m] = NoBar
      BY <1>1 DEF NoFutureBars, market
    <2>1. ~ (m <= now)
      BY <1>3
    <2> QED BY <1>1, <2>1, FetchFacts DEF TInv, NoFutureBars
  <1>8. BarsAreReal'
    <2>1. ASSUME NEW m \in Minutes, stored'[m] # NoBar
          PROVE  Shown(m, stored'[m].low, stored'[m].high)
      <3>1. CASE stored'[m] = stored[m]
        BY <2>1, <3>1, RealIsShown DEF TInv
      <3>2. CASE m <= now /\ stored'[m] = Bar(truth[m].low, truth[m].high, "history")
        <4>1. ~ (m > now)
          BY <1>3, <3>2
        <4>2. truth[m].low \in Prices /\ truth[m].high \in Prices
          BY <4>1 DEF TInv, TruthSoFar
        <4>3. /\ truth[m] # NoBar
              /\ truth[m].low <= truth[m].low /\ truth[m].high >= truth[m].high
          <5>1. truth[m].low \in Nat /\ truth[m].high \in Nat /\ NoBar.low = 0
            BY <4>2, Numbers DEF NoBar, Bar
          <5> QED BY <4>2, <5>1, Numbers
        <4>4. stored'[m].low = truth[m].low /\ stored'[m].high = truth[m].high
          BY <3>2 DEF Bar
        <4> QED BY <4>3, <4>4 DEF Shown
      <3> QED BY <3>1, <3>2, FetchFacts
    <2> QED BY <1>1, <2>1 DEF BarsAreReal, Shown, market
  <1> QED BY <1>4, <1>5, <1>6, <1>7, <1>8 DEF TInv

\* A range of prices the window of a bucket has shown.
Part(b, low, high) ==
    LET shown == {k \in Window(b) : truth[k] # NoBar}
    IN  /\ low <= high
        /\ \E k \in shown : truth[k].low <= low
        /\ \E k \in shown : truth[k].high >= high

\* What a source tells of a bucket that has begun is of prices of its window.
LEMMA ToldCoarseFacts ==
    ASSUME TInv, NEW minutes, NEW b \in Minutes, b \in minutes, b <= now
    PROVE  /\ ToldCoarse(b, minutes) \in Bars /\ ToldCoarse(b, minutes).writer = "history"
           /\ Part(b, ToldCoarse(b, minutes).low, ToldCoarse(b, minutes).high)
  <1> DEFINE window == Window(b) \cap minutes
             fold == Fold(truth, window)
  <1>1. /\ truth \in [Minutes -> Bars] /\ window \subseteq Minutes /\ b \in window
        /\ window \subseteq Window(b) /\ b \in Nat /\ now \in Nat
    BY WindowFacts, Numbers DEF TInv, TypeOK, Window
  <1>2. /\ truth[b].low \in Prices /\ truth[b].high \in Prices
        /\ truth[b].low <= truth[b].high /\ truth[b] # NoBar
    <2>1. ~ (b > now)
      BY <1>1
    <2> QED BY <2>1, Numbers DEF TInv, TruthSoFar, NoBar, Bar
  <1>3. /\ fold \in Bars
        /\ \E m \in window : truth[m] # NoBar /\ fold.low = truth[m].low
        /\ \E m \in window : truth[m] # NoBar /\ fold.high = truth[m].high
        /\ Covers(fold, truth[b])
    BY <1>1, <1>2, FoldFacts
  <1> HIDE DEF fold, window
  <1>4. /\ ToldCoarse(b, minutes) \in Bars
        /\ ToldCoarse(b, minutes).writer = "history"
        /\ ToldCoarse(b, minutes).low = fold.low /\ ToldCoarse(b, minutes).high = fold.high
    <2>1. ToldCoarse(b, minutes) = [fold EXCEPT !.writer = "history"]
      BY DEF ToldCoarse, fold, window
    <2>2. \A bar \in Bars :
            LET told == [bar EXCEPT !.writer = "history"]
            IN  told \in Bars /\ told.writer = "history" /\ told.low = bar.low /\ told.high = bar.high
      BY DEF Bars, Writers
    <2> QED BY <1>3, <2>1, <2>2, Zenon
  <1>5. /\ fold.low \in Nat /\ fold.high \in Nat
        /\ \A k \in Minutes : truth[k].low \in Nat /\ truth[k].high \in Nat
    <2>1. Prices \cup {0} \subseteq Nat
      BY Numbers
    <2> QED BY <1>1, <1>3, <2>1 DEF Bars
  <1>6. fold.low <= fold.high
    <2>1. fold.low <= truth[b].low /\ truth[b].low <= truth[b].high /\ fold.high >= truth[b].high
      BY <1>2, <1>3 DEF Covers
    <2> QED BY <1>5, <2>1
  <1>7. Part(b, fold.low, fold.high)
    <2>1. \A k \in window : k \in Minutes /\ k \in Window(b)
      BY <1>1
    <2> QED BY <1>3, <1>5, <1>6, <2>1 DEF Part
  <1> QED BY <1>4, <1>7

\* A fetch of the coarser interval adds rows at buckets that have begun, where there was none.
LEMMA FetchCoarseFacts ==
    ASSUME TInv, FetchCoarse
    PROVE  /\ rollup' \in [Minutes -> Bars]
           /\ \A b \in Minutes :
                \/ rollup'[b] = rollup[b]
                \/ /\ rollup[b] = NoBar /\ b <= now /\ Bucket(b) = b
                   /\ rollup'[b].writer = "history"
                   /\ Part(b, rollup'[b].low, rollup'[b].high)
  <1>1. CASE UNCHANGED rollup
    BY <1>1 DEF TInv, TypeOK
  <1>2. ASSUME NEW minutes \in Answers, rollup' = StoredOnce(rollup, CoarseBars(minutes))
        PROVE  /\ rollup' \in [Minutes -> Bars]
               /\ \A b \in Minutes :
                    \/ rollup'[b] = rollup[b]
                    \/ /\ rollup[b] = NoBar /\ b <= now /\ Bucket(b) = b
                       /\ rollup'[b].writer = "history" /\ rollup'[b] \in Bars
                       /\ Part(b, rollup'[b].low, rollup'[b].high)
    <2>1. ASSUME NEW b \in Minutes, rollup'[b] # rollup[b]
          PROVE  /\ rollup[b] = NoBar /\ b <= now /\ Bucket(b) = b
                 /\ rollup'[b].writer = "history" /\ rollup'[b] \in Bars
                 /\ Part(b, rollup'[b].low, rollup'[b].high)
      <3>1. /\ b \in Kept(minutes) /\ Bucket(b) = b /\ rollup[b] = NoBar
            /\ rollup'[b] = ToldCoarse(b, minutes)
        BY <1>2, <2>1 DEF StoredOnce, CoarseBars
      <3>2. b \in Nat /\ now \in Nat /\ history.end \in Nat
        BY Numbers, HistoryFacts DEF TInv, TypeOK
      <3>3. b <= now /\ b \in minutes
        BY <3>1, <3>2 DEF Kept, TInv, HistoryPast
      <3> QED BY <3>1, <3>3, ToldCoarseFacts
    <2>2. \A b \in Minutes : rollup'[b] \in Bars
      BY <2>1 DEF TInv, TypeOK
    <2> QED BY <1>2, <2>1, <2>2 DEF StoredOnce
  <1> QED BY <1>1, <1>2 DEF FetchCoarse

LEMMA FetchCoarsePreserves == ASSUME TInv, FetchCoarse PROVE TInv'
  <1>1. history' = NoHistory /\ UNCHANGED <<market, feed, packet, memory, live, stored>>
    BY DEF FetchCoarse
  <1>2. now \in Nat /\ Minutes \subseteq Nat
    BY Numbers DEF TInv, TypeOK
  <1>3. TypeOK'
    BY <1>1, NoHistoryType, FetchCoarseFacts DEF TInv, TypeOK, market
  <1>4. TruthSoFar' /\ PacketReal' /\ MemoryReal' /\ HistoryPast' /\ BarsAreReal'
    BY <1>1, <1>2 DEF TInv, TruthSoFar, PacketReal, MemoryReal, Shown, HistoryPast, NoHistory,
                      BarsAreReal, market
  <1>5. NoFutureBars'
    <2> SUFFICES ASSUME NEW m \in Minutes, m > now PROVE stored'[m] = NoBar /\ rollup'[m] = NoBar
      BY <1>1 DEF NoFutureBars, market
    <2>1. ~ (m <= now)
      BY <1>2
    <2> QED BY <1>1, <2>1, FetchCoarseFacts DEF TInv, NoFutureBars
  <1> QED BY <1>3, <1>4, <1>5 DEF TInv

\* A restart ages the rows: their prices stay.
LEMMA AgedFacts ==
    ASSUME TInv, Restart
    PROVE  \A m \in Minutes :
             /\ stored'[m] \in Bars
             /\ stored'[m].low = stored[m].low /\ stored'[m].high = stored[m].high
             /\ stored'[m].writer = IF stored[m].writer = "live" THEN "formerly live"
                                    ELSE stored[m].writer
             /\ stored'[m] = NoBar <=> stored[m] = NoBar
  <1> SUFFICES ASSUME NEW m \in Minutes
               PROVE  /\ stored'[m] \in Bars
                      /\ stored'[m].low = stored[m].low /\ stored'[m].high = stored[m].high
                      /\ stored'[m].writer = IF stored[m].writer = "live" THEN "formerly live"
                                             ELSE stored[m].writer
                      /\ stored'[m] = NoBar <=> stored[m] = NoBar
    BY Zenon
  <1> DEFINE aged == IF stored[m].writer = "live" THEN "formerly live" ELSE stored[m].writer
  <1>1. stored[m] \in Bars /\ stored'[m] = [stored[m] EXCEPT !.writer = aged]
    BY Zenon DEF TInv, TypeOK, Restart, Aged
  <1>2. aged \in Writers
    BY <1>1, Zenon DEF Bars, Writers
  <1>3. aged = "none" <=> stored[m].writer = "none"
    OBVIOUS
  <1> HIDE DEF aged
  <1>4. /\ stored'[m] \in Bars /\ stored'[m].writer = aged
        /\ stored'[m].low = stored[m].low /\ stored'[m].high = stored[m].high
    BY <1>1, <1>2 DEF Bars
  <1>5. \A bar \in Bars : bar = NoBar <=> bar.low = 0 /\ bar.high = 0 /\ bar.writer = "none"
    BY DEF Bars, NoBar, Bar
  <1> QED BY <1>1, <1>3, <1>4, <1>5, Zenon DEF aged

LEMMA RestartPreserves == ASSUME TInv, Restart PROVE TInv'
  <1>1. /\ feed' = "down" /\ packet' = NoTick /\ memory' = NoMemory /\ live' = NoLive
        /\ history' = NoHistory /\ UNCHANGED <<market, rollup>>
        /\ stored' \in [Minutes -> Bars]
    <2>1. stored' = [m \in Minutes |-> Aged(stored[m])]
      BY DEF Restart
    <2> QED BY <2>1, AgedFacts, Zenon DEF Restart
  <1>2. /\ NoLive \in [pc : {"idle", "upsert", "commit"}, fold : Bars]
        /\ NoTick \in [price : Prices \cup {0}, seen : 0..LastMinute]
        /\ NoMemory \in [bucket : 0..LastMinute, low : Prices \cup {0}, high : Prices \cup {0}]
        /\ NoHistory \in Histories
    BY Numbers, NoHistoryType DEF NoLive, NoBar, Bar, Bars, Writers, NoTick, NoMemory
  <1>3. now \in Nat
    BY Numbers DEF TInv, TypeOK
  <1>4. TypeOK'
    BY <1>1, <1>2 DEF TInv, TypeOK, market
  <1>5. TruthSoFar' /\ PacketReal' /\ MemoryReal' /\ HistoryPast'
    BY <1>1, <1>3 DEF TInv, TruthSoFar, PacketReal, MemoryReal, HistoryPast, market,
                      NoMemory, NoLive, NoHistory
  <1>6. NoFutureBars'
    BY <1>1, AgedFacts, Zenon DEF TInv, NoFutureBars, market
  <1>7. BarsAreReal'
    BY <1>1, AgedFacts, Zenon DEF TInv, BarsAreReal, market
  <1> QED BY <1>4, <1>5, <1>6, <1>7 DEF TInv

LEMMA StepTInv == TInv /\ [Next]_vars => TInv'
  <1> SUFFICES ASSUME TInv, [Next]_vars PROVE TInv'
    OBVIOUS
  <1>1. CASE UNCHANGED vars
    BY <1>1, RowsStay DEF vars, TInv, TypeOK, PacketReal, MemoryReal, HistoryPast, Shown
  <1> QED BY <1>1, TradePreserves, NextMinutePreserves, FeedPreserves, IngestPreserves,
             FoldRowsPreserves, CommitPreserves, CommitFailsPreserves, ResumePreserves,
             FetchPreserves, FetchCoarsePreserves, RestartPreserves
          DEF Next

LEMMA InitTInv == Init => TInv
  <1> SUFFICES ASSUME Init PROVE TInv
    OBVIOUS
  <1>1. /\ NoLive \in [pc : {"idle", "upsert", "commit"}, fold : Bars]
        /\ NoTick \in [price : Prices \cup {0}, seen : 0..LastMinute]
        /\ NoMemory \in [bucket : 0..LastMinute, low : Prices \cup {0}, high : Prices \cup {0}]
        /\ NoHistory \in Histories
        /\ NoBar \in Bars /\ Bar(OpeningPrice, OpeningPrice, "none") \in Bars
    BY Numbers, NoHistoryType DEF NoLive, NoBar, Bar, Bars, Writers, NoTick, NoMemory
  <1>2. TypeOK
    BY <1>1, Numbers DEF Init, TypeOK
  <1>3. TruthSoFar
    <2> SUFFICES ASSUME NEW m \in Minutes
                 PROVE  IF m > 1 THEN truth[m] = NoBar
                        ELSE /\ truth[m].low \in Prices /\ truth[m].high \in Prices
                             /\ truth[m].low <= truth[m].high
      BY DEF Init, TruthSoFar
    <2>1. m = 1 \/ m > 1
      BY Numbers DEF Minutes
    <2>2. OpeningPrice \in Prices /\ OpeningPrice <= OpeningPrice
      BY Numbers
    <2> QED BY <2>1, <2>2 DEF Init, Bar
  <1>4. PacketReal /\ MemoryReal /\ HistoryPast
    BY DEF Init, PacketReal, MemoryReal, HistoryPast, NoMemory, NoLive, NoHistory
  <1>5. NoFutureBars /\ BarsAreReal
    BY DEF Init, NoFutureBars, BarsAreReal
  <1> QED BY <1>2, <1>3, <1>4, <1>5 DEF TInv

\* For any prices, session lengths, bucket widths and lookbacks: no row is of the future,
\* and a row of a minute shows what that minute or the one before it has shown.
THEOREM TableSafe == Spec => []TableTrue
  <1>1. TInv => TableTrue
    BY DEF TInv, TableTrue
  <1> QED BY <1>1, InitTInv, StepTInv, PTL DEF Spec

-----------------------------------------------------------------------------
(***************************************************************************)
(* The live collector's rows only widen.                                   *)
(***************************************************************************)

\* A row the live collector wrote in this life is of its present minute, and its bar
\* covers it, or of a minute it has left.
LiveRowsKept ==
    \A m \in Minutes :
        stored[m].writer = "live" =>
            /\ m <= memory.bucket
            /\ m = memory.bucket => Covers(memory, stored[m])

LInv == TInv /\ LiveRowsKept

LEMMA RowPrices ==
    ASSUME TInv, NEW m \in Minutes
    PROVE  /\ stored[m].low \in Nat /\ stored[m].high \in Nat /\ Covers(stored[m], stored[m])
           /\ memory.low \in Nat /\ memory.high \in Nat /\ memory.bucket \in Nat
           /\ m \in Nat /\ now \in Nat
           /\ stored[m].writer = "live" => stored[m] # NoBar
  <1>1. Prices \cup {0} \subseteq Nat
    BY Numbers
  <1>2. /\ stored[m].low \in Nat /\ stored[m].high \in Nat
        /\ memory.low \in Nat /\ memory.high \in Nat /\ memory.bucket \in Nat
    BY <1>1 DEF TInv, TypeOK, Bars
  <1>3. m \in Nat /\ now \in Nat
    BY Numbers DEF TInv, TypeOK
  <1>4. stored[m].writer = "live" => stored[m] # NoBar
    BY DEF NoBar, Bar
  <1> QED BY <1>2, <1>3, <1>4 DEF Covers

\* What a step makes of the rows.
LEMMA StepOfRows ==
    ASSUME TInv, [Next]_vars
    PROVE  /\ UNCHANGED stored \/ Commit \/ Fetch \/ Restart
           /\ UNCHANGED rollup \/ Commit \/ FetchCoarse
  BY DEF Next, Trade, NextMinute, Connect, Disconnect, OnMessage, Ingest, FoldRows,
         CommitFails, Resume, ResumeCoarse, Fetch, FetchCoarse, Restart, rows, vars

LEMMA StepLiveRows == LInv /\ [Next]_vars => LInv'
  <1> SUFFICES ASSUME LInv, [Next]_vars, NEW m \in Minutes, stored'[m].writer = "live"
               PROVE  /\ m <= memory'.bucket
                      /\ m = memory'.bucket => Covers(memory', stored'[m])
    BY StepTInv DEF LInv, LiveRowsKept
  <1>1. TInv
    BY DEF LInv
  <1>2. ASSUME stored[m].writer = "live"
        PROVE  m <= memory.bucket /\ (m = memory.bucket => Covers(memory, stored[m]))
    BY <1>2 DEF LInv, LiveRowsKept
  <1>3. CASE Ingest
    <2>1. stored' = stored /\ m <= memory.bucket /\ memory.bucket <= now
      BY <1>1, <1>2, <1>3 DEF Ingest, rows, TInv, MemoryReal
    <2>2. PICK tick \in Streamed \cup Quotes : memory' = Updated(tick.price)
      BY <1>3 DEF Ingest
    <2>3. PICK price \in Nat : price = tick.price
      BY <1>1, <2>2, TickReal
    <2>4. memory'.bucket = now
      BY <1>1, <2>2 DEF Updated, TInv, TypeOK
    <2>5. CASE m = now
      <3>1. memory.bucket = now /\ Covers(memory, stored[m])
        BY <1>1, <1>2, <1>3, <2>1, <2>5, RowPrices
      <3>2. memory' = [memory EXCEPT !.low = IF price < @ THEN price ELSE @,
                                     !.high = IF price > @ THEN price ELSE @]
        BY <2>2, <2>3, <3>1 DEF Updated
      <3>3. /\ memory'.low = IF price < memory.low THEN price ELSE memory.low
            /\ memory'.high = IF price > memory.high THEN price ELSE memory.high
        BY <1>1, <3>2 DEF TInv, TypeOK
      <3>4. Covers(memory', stored[m])
        BY <1>1, <3>1, <3>3, RowPrices DEF Covers
      <3> QED BY <1>1, <2>1, <2>4, <2>5, <3>4, RowPrices
    <2>6. CASE m # now
      BY <1>1, <2>1, <2>4, <2>6, RowPrices
    <2> QED BY <2>5, <2>6
  <1>4. CASE Commit
    <2>1. memory' = memory /\ stored' = Upserted /\ live.pc # "idle"
      BY <1>4 DEF Commit
    <2>2. CASE m = memory.bucket
      <3>1. stored'[m].low = memory.low /\ stored'[m].high = memory.high
        BY <1>1, <2>1, <2>2, UpsertedFacts DEF Bar
      <3> QED BY <1>1, <2>1, <2>2, <3>1, RowPrices DEF Covers
    <2>3. CASE m # memory.bucket
      <3>1. stored'[m] = stored[m]
        BY <1>1, <2>1, <2>3, UpsertedFacts
      <3> QED BY <1>2, <2>1, <2>3, <3>1
    <2> QED BY <2>2, <2>3
  <1>5. CASE Fetch
    <2>1. stored'[m] = stored[m]
      BY <1>1, <1>5, FetchFacts DEF Bar
    <2> QED BY <1>2, <1>5, <2>1 DEF Fetch
  <1>6. CASE Restart
    BY <1>1, <1>6, AgedFacts
  <1>7. CASE UNCHANGED <<stored, memory>>
    BY <1>2, <1>7
  <1>8. UNCHANGED <<stored, memory>> \/ Ingest \/ Commit \/ Fetch \/ Restart
    BY DEF Next, Trade, NextMinute, Connect, Disconnect, OnMessage, FoldRows, CommitFails,
           Resume, ResumeCoarse, FetchCoarse, rows, vars
  <1> QED BY <1>3, <1>4, <1>5, <1>6, <1>7, <1>8

\* A step that changes a live row other than by a restart widens it.
LEMMA StepLiveBarsGrow ==
    ASSUME LInv, [Next]_vars, NEW m \in Minutes,
           stored[m].writer = "live", stored'[m].writer # "formerly live"
    PROVE  stored'[m].writer = "live" /\ Covers(stored'[m], stored[m])
  <1>1. TInv /\ stored[m] # NoBar
    BY RowPrices DEF LInv
  <1>2. CASE UNCHANGED stored
    BY <1>1, <1>2, RowPrices
  <1>3. CASE Commit
    <2>1. CASE m = memory.bucket
      <3>1. stored'[m] = Bar(memory.low, memory.high, "live") /\ Covers(memory, stored[m])
        BY <1>1, <1>3, <2>1, UpsertedFacts DEF Commit, LInv, LiveRowsKept
      <3> QED BY <3>1 DEF Bar, Covers
    <2>2. CASE m # memory.bucket
      <3>1. stored'[m] = stored[m]
        BY <1>1, <1>3, <2>2, UpsertedFacts DEF Commit
      <3> QED BY <1>1, <3>1, RowPrices
    <2> QED BY <2>1, <2>2
  <1>4. CASE Fetch
    <2>1. stored'[m] = stored[m]
      BY <1>1, <1>4, FetchFacts
    <2> QED BY <1>1, <2>1, RowPrices
  <1>5. CASE Restart
    BY <1>1, <1>5, AgedFacts
  <1> QED BY <1>1, <1>2, <1>3, <1>4, <1>5, StepOfRows

\* A rollup of the live collector stays one: the historical collector has no row to add.
LEMMA StepLiveRollups ==
    ASSUME TInv, [Next]_vars, NEW m \in Minutes, rollup[m].writer = "live"
    PROVE  rollup'[m].writer = "live"
  <1>1. rollup[m] # NoBar
    BY DEF NoBar, Bar
  <1>2. CASE Commit
    <2>1. /\ rollup' = [rollup EXCEPT ![Bucket(memory.bucket)] = live.fold]
          /\ live.fold.writer = "live" /\ rollup \in [Minutes -> Bars]
      BY <1>2 DEF Commit, TInv, MemoryReal, TypeOK
    <2> QED BY <2>1
  <1>3. CASE FetchCoarse
    BY <1>1, <1>3, FetchCoarseFacts
  <1> QED BY <1>2, <1>3, StepOfRows

\* "can never clobber": for any prices and times, neither the historical collector nor a
\* later run narrows a row the live collector has written, until a restart.
THEOREM LiveBarsSafe == Spec => LiveBarsGrow
  <1>1. Init => LInv
    BY InitTInv DEF LInv, LiveRowsKept, Init, NoBar, Bar
  <1>2. LInv /\ [Next]_vars =>
          [\A m \in Minutes :
             /\ stored[m].writer = "live" /\ stored'[m].writer # "formerly live" =>
                  stored'[m].writer = "live" /\ Covers(stored'[m], stored[m])
             /\ rollup[m].writer = "live" => rollup'[m].writer = "live"]_vars
    BY StepLiveBarsGrow, StepLiveRollups DEF LInv
  <1> QED BY <1>1, <1>2, StepLiveRows, PTL DEF Spec, LiveBarsGrow

-----------------------------------------------------------------------------
(***************************************************************************)
(* A rollup is the fold of its window.                                     *)
(***************************************************************************)

\* What FoldOfMinutes says of one bar, for any table.
Folded(table, b, bar) ==
    /\ \E m \in Window(b) : table[m] # NoBar
    /\ Covers(Fold(table, Window(b)), bar)
    /\ (\A m \in Window(b) : table[m].writer # "history") => Fold(table, Window(b)) = bar

RollupsStart == \A b \in Minutes : rollup[b] # NoBar => Bucket(b) = b

RollupsFolded ==
    \A b \in Minutes :
        rollup[b] # NoBar /\ rollup[b].writer # "history" => Folded(stored, b, rollup[b])

RollupsShown ==
    \A b \in Minutes : rollup[b].writer = "history" => Part(b, rollup[b].low, rollup[b].high)

\* The fold about to be committed is one of the rows as the commit will leave them,
\* whatever the historical collector has stored since the rows were read.
FoldKnown == live.pc = "commit" => Folded(Upserted, memory.bucket, live.fold)

RInv == TInv /\ RollupsStart /\ RollupsFolded /\ FoldKnown

\* Rows of the same prices and writers fold to the same bar.
LEMMA FoldedStays ==
    ASSUME NEW table, NEW later, NEW b \in Minutes, NEW bar, Folded(table, b, bar),
           \A m \in Window(b) :
               /\ later[m].low = table[m].low /\ later[m].high = table[m].high
               /\ later[m] = NoBar <=> table[m] = NoBar
               /\ later[m].writer = "history" <=> table[m].writer = "history"
    PROVE  Folded(later, b, bar)
  <1>1. Fold(later, Window(b)) = Fold(table, Window(b))
    BY FoldSame, Zenon
  <1> QED BY <1>1, Zenon DEF Folded

\* Rows the historical collector adds widen the fold.
LEMMA FoldedGrows ==
    ASSUME NEW table \in [Minutes -> Bars], NEW later \in [Minutes -> Bars],
           NEW b \in Minutes, NEW bar \in Bars, Folded(table, b, bar),
           \A m \in Window(b) : \/ later[m] = table[m]
                                \/ table[m] = NoBar /\ later[m].writer = "history"
    PROVE  Folded(later, b, bar)
  <1> DEFINE window == Window(b)
             old == Fold(table, window)
             new == Fold(later, window)
  <1>1. window \subseteq Minutes /\ Prices \cup {0} \subseteq Nat
    BY Numbers DEF Window
  <1>2. PICK k \in window : table[k] # NoBar
    BY DEF Folded
  <1>3. later[k] # NoBar
    BY <1>2
  <1>4. old \in Bars /\ new \in Bars /\ Covers(new, old)
    BY <1>1, <1>2, <1>3, FoldFacts, FoldWidens
  <1>5. Covers(old, bar)
    BY DEF Folded
  <1>6. Covers(new, bar)
    <2> HIDE DEF old, new
    <2>1. /\ old.low \in Nat /\ old.high \in Nat /\ new.low \in Nat /\ new.high \in Nat
          /\ bar.low \in Nat /\ bar.high \in Nat
      BY <1>1, <1>4 DEF Bars
    <2> QED BY <1>4, <1>5, <2>1 DEF Covers
  <1>7. ASSUME \A m \in window : later[m].writer # "history" PROVE new = bar
    <2>1. \A m \in window : later[m] = table[m]
      BY <1>7
    <2>2. \A m \in window : /\ later[m].low = table[m].low /\ later[m].high = table[m].high
                             /\ later[m] = NoBar <=> table[m] = NoBar
      BY <2>1, Zenon
    <2>4. new = old
      BY <2>2, FoldSame, Zenon
    <2>3. \A m \in window : table[m].writer # "history"
      BY <1>7, <2>1
    <2> QED BY <2>3, <2>4 DEF Folded
  <1> QED BY <1>3, <1>6, <1>7 DEF Folded

LEMMA FetchFolds == ASSUME RInv, Fetch PROVE RInv'
  <1>1. TInv /\ TInv' /\ UNCHANGED <<memory, live, rollup>>
    BY FetchPreserves DEF RInv, Fetch
  <1>2. /\ stored \in [Minutes -> Bars] /\ stored' \in [Minutes -> Bars]
        /\ rollup \in [Minutes -> Bars] /\ live.fold \in Bars
    BY <1>1 DEF TInv, TypeOK
  <1>3. \A m \in Minutes : \/ stored'[m] = stored[m]
                           \/ stored[m] = NoBar /\ stored'[m].writer = "history"
    BY <1>1, FetchFacts DEF Bar
  <1>4. \A b \in Minutes : Window(b) \subseteq Minutes
    BY DEF Window
  <1>5. RollupsStart'
    BY <1>1 DEF RInv, RollupsStart
  <1>6. RollupsFolded'
    <2> SUFFICES ASSUME NEW b \in Minutes, rollup[b] # NoBar, rollup[b].writer # "history"
                 PROVE  Folded(stored', b, rollup[b])
      BY <1>1 DEF RollupsFolded, Folded
    <2>1. Folded(stored, b, rollup[b]) /\ rollup[b] \in Bars
      BY <1>2 DEF RInv, RollupsFolded
    <2> QED BY <1>2, <1>3, <1>4, <2>1, FoldedGrows
  <1>7. FoldKnown'
    <2> SUFFICES ASSUME live.pc = "commit"
                 PROVE  Folded(Upserted', memory.bucket, live.fold)
      BY <1>1 DEF FoldKnown, Folded
    <2>1. Folded(Upserted, memory.bucket, live.fold)
      BY DEF RInv, FoldKnown
    <2>2. /\ memory.bucket \in Minutes /\ Upserted \in [Minutes -> Bars]
          /\ Upserted[memory.bucket] = Bar(memory.low, memory.high, "live")
          /\ \A m \in Minutes : m # memory.bucket => Upserted[m] = stored[m]
      BY <1>1, UpsertedFacts
    <2>3. /\ Upserted' \in [Minutes -> Bars]
          /\ Upserted'[memory.bucket] = Bar(memory.low, memory.high, "live")
          /\ \A m \in Minutes : m # memory.bucket => Upserted'[m] = stored'[m]
      BY <1>1, <1>2, <2>2 DEF Upserted
    <2>4. \A m \in Minutes : \/ Upserted'[m] = Upserted[m]
                             \/ Upserted[m] = NoBar /\ Upserted'[m].writer = "history"
      BY <1>3, <2>2, <2>3
    <2> QED BY <1>2, <1>4, <2>1, <2>2, <2>3, <2>4, FoldedGrows
  <1> QED BY <1>1, <1>5, <1>6, <1>7 DEF RInv

LEMMA RestartFolds == ASSUME RInv, Restart PROVE RInv'
  <1>1. TInv /\ TInv' /\ UNCHANGED rollup /\ live'.pc = "idle"
    BY RestartPreserves DEF RInv, Restart, NoLive
  <1>2. RollupsStart' /\ FoldKnown'
    BY <1>1 DEF RInv, RollupsStart, FoldKnown
  <1>3. RollupsFolded'
    <2> SUFFICES ASSUME NEW b \in Minutes, rollup[b] # NoBar, rollup[b].writer # "history"
                 PROVE  Folded(stored', b, rollup[b])
      BY <1>1 DEF RollupsFolded, Folded
    <2>1. Folded(stored, b, rollup[b])
      BY DEF RInv, RollupsFolded
    <2>2. \A m \in Window(b) :
            /\ stored'[m].low = stored[m].low /\ stored'[m].high = stored[m].high
            /\ stored'[m] = NoBar <=> stored[m] = NoBar
            /\ stored'[m].writer = "history" <=> stored[m].writer = "history"
      <3>1. ASSUME NEW m \in Minutes
            PROVE  stored'[m].writer = "history" <=> stored[m].writer = "history"
        <4>1. stored'[m].writer = IF stored[m].writer = "live" THEN "formerly live"
                                  ELSE stored[m].writer
          BY <1>1, AgedFacts, Zenon
        <4> QED BY <4>1, Zenon
      <3>2. Window(b) \subseteq Minutes
        BY DEF Window
      <3> QED BY <1>1, <3>1, <3>2, AgedFacts, Zenon
    <2> QED BY <2>1, <2>2, FoldedStays, Zenon
  <1> QED BY <1>1, <1>2, <1>3 DEF RInv

LEMMA FoldRowsFolds == ASSUME RInv, FoldRows PROVE RInv'
  <1> DEFINE b == memory.bucket
             fold == Fold(Upserted, Window(b))
  <1>1. /\ TInv /\ TInv' /\ UNCHANGED <<stored, rollup, memory>> /\ live'.fold = fold
        /\ live.pc # "idle"
    BY FoldRowsPreserves DEF RInv, FoldRows, rows
  <1>2. RollupsStart' /\ RollupsFolded'
    BY <1>1 DEF RInv, RollupsStart, RollupsFolded, Folded
  <1>3. /\ b \in Window(b) /\ Upserted[b] # NoBar
        /\ Window(b) \subseteq Minutes /\ Upserted \in [Minutes -> Bars]
    BY <1>1, UpsertedFacts, WindowFacts
  <1>4. fold \in Bars
    BY <1>3, FoldFacts
  <1> HIDE DEF fold
  <1>5. Covers(fold, fold)
    <2>1. Prices \cup {0} \subseteq Nat
      BY Numbers
    <2>2. fold.low \in Nat /\ fold.high \in Nat
      BY <1>4, <2>1 DEF Bars
    <2> QED BY <2>2 DEF Covers
  <1>6. Folded(Upserted, b, fold)
    BY <1>3, <1>5 DEF Folded, fold
  <1>7. Upserted' = Upserted
    BY <1>1 DEF Upserted
  <1>8. FoldKnown'
    BY <1>1, <1>6, <1>7 DEF FoldKnown, Folded
  <1> QED BY <1>1, <1>2, <1>8 DEF RInv

LEMMA CommitFolds == ASSUME RInv, Commit PROVE RInv'
  <1> DEFINE b == memory.bucket
  <1>1. /\ TInv /\ TInv' /\ stored' = Upserted /\ live.pc = "commit" /\ live'.pc = "idle"
        /\ rollup' = [rollup EXCEPT ![Bucket(b)] = live.fold]
    BY CommitPreserves DEF RInv, Commit, NoLive
  <1>2. /\ b \in Minutes /\ Bucket(b) \in Minutes /\ Bucket(Bucket(b)) = Bucket(b)
        /\ Window(Bucket(b)) = Window(b)
        /\ \A m \in Minutes : m # b => Upserted[m] = stored[m]
    BY <1>1, UpsertedFacts, BucketFacts, WindowFacts
  <1>3. /\ rollup'[Bucket(b)] = live.fold
        /\ \A m \in Minutes : m # Bucket(b) => rollup'[m] = rollup[m]
    BY <1>1, <1>2 DEF TInv, TypeOK
  <1>4. RollupsStart'
    BY <1>2, <1>3 DEF RInv, RollupsStart
  <1>5. RollupsFolded'
    <2> SUFFICES ASSUME NEW m \in Minutes, rollup'[m] # NoBar, rollup'[m].writer # "history"
                 PROVE  Folded(Upserted, m, rollup'[m])
      BY <1>1 DEF RollupsFolded, Folded
    <2>1. CASE m = Bucket(b)
      <3>1. Folded(Upserted, b, live.fold)
        BY <1>1 DEF RInv, FoldKnown
      <3> QED BY <1>2, <1>3, <2>1, <3>1 DEF Folded
    <2>2. CASE m # Bucket(b)
      <3>1. rollup'[m] = rollup[m] /\ Bucket(m) = m /\ Folded(stored, m, rollup[m])
        BY <1>3, <2>2 DEF RInv, RollupsStart, RollupsFolded
      <3>2. b \notin Window(m)
        BY <2>2, <3>1, WindowFacts
      <3>3. \A k \in Window(m) : Upserted[k] = stored[k]
        BY <1>2, <3>2, WindowFacts
      <3>4. Folded(Upserted, m, rollup[m])
        BY <3>1, <3>3, FoldedStays
      <3> QED BY <3>1, <3>4
    <2> QED BY <2>1, <2>2
  <1>6. FoldKnown'
    BY <1>1 DEF FoldKnown
  <1> QED BY <1>1, <1>4, <1>5, <1>6 DEF RInv

\* A fetch of the coarser interval leaves the rollups that are folds alone.
LEMMA FetchCoarseFolds == ASSUME RInv, FetchCoarse PROVE RInv'
  <1>1. /\ TInv /\ TInv' /\ UNCHANGED <<stored, memory, live>>
        /\ \A b \in Minutes : \/ rollup'[b] = rollup[b]
                              \/ Bucket(b) = b /\ rollup'[b].writer = "history"
    BY FetchCoarsePreserves, FetchCoarseFacts DEF RInv, FetchCoarse
  <1>2. RollupsStart'
    BY <1>1 DEF RInv, RollupsStart
  <1>3. RollupsFolded'
    BY <1>1 DEF RInv, RollupsFolded, Folded
  <1>4. FoldKnown'
    <2>1. Upserted' = Upserted
      BY <1>1 DEF Upserted
    <2> QED BY <1>1, <2>1 DEF RInv, FoldKnown, Folded
  <1> QED BY <1>1, <1>2, <1>3, <1>4 DEF RInv

LEMMA StepRollups == RInv /\ [Next]_vars => RInv'
  <1> SUFFICES ASSUME RInv, [Next]_vars PROVE RInv'
    OBVIOUS
  <1>1. TInv'
    BY StepTInv DEF RInv
  <1>2. CASE /\ UNCHANGED <<stored, rollup>>
             /\ UNCHANGED <<memory, live>> \/ live'.pc # "commit"
    <2>1. RollupsStart' /\ RollupsFolded'
      BY <1>2 DEF RInv, RollupsStart, RollupsFolded, Folded
    <2>2. FoldKnown'
      <3>1. CASE UNCHANGED <<memory, live>>
        <4>1. Upserted' = Upserted
          BY <1>2, <3>1 DEF Upserted
        <4> QED BY <3>1, <4>1 DEF RInv, FoldKnown, Folded
      <3>2. CASE live'.pc # "commit"
        BY <3>2 DEF FoldKnown
      <3> QED BY <1>2, <3>1, <3>2
    <2> QED BY <1>1, <2>1, <2>2 DEF RInv
  <1>3. CASE Ingest
    <2>1. UNCHANGED <<stored, rollup>> /\ live'.pc = "upsert"
      BY <1>3 DEF Ingest, rows, RInv, TInv, TypeOK
    <2> QED BY <1>2, <2>1
  <1>4. CASE CommitFails
    <2>1. UNCHANGED <<stored, rollup>> /\ live'.pc = "idle"
      BY <1>4 DEF CommitFails, rows, NoLive
    <2> QED BY <1>2, <2>1
  <1>5. \/ UNCHANGED <<stored, rollup, memory, live>>
        \/ Ingest \/ FoldRows \/ Commit \/ CommitFails \/ Fetch \/ FetchCoarse \/ Restart
    BY DEF Next, Trade, NextMinute, Connect, Disconnect, OnMessage, Resume, ResumeCoarse,
           rows, vars
  <1> QED BY <1>2, <1>3, <1>4, <1>5, FoldRowsFolds, CommitFolds, FetchFolds,
             FetchCoarseFolds, RestartFolds

\* The market only ever shows more.
LEMMA StepWider == ASSUME TInv, [Next]_vars PROVE Wider
  <1>1. CASE UNCHANGED truth
    <2>1. \A k \in Minutes : truth[k].low \in Nat /\ truth[k].high \in Nat
      <3>1. Prices \cup {0} \subseteq Nat
        BY Numbers
      <3> QED BY <3>1 DEF TInv, TypeOK, Bars
    <2> QED BY <1>1, <2>1 DEF Wider
  <1>2. UNCHANGED truth \/ (\E p \in Prices : Trade(p)) \/ NextMinute
    BY DEF Next, Connect, Disconnect, OnMessage, Ingest, FoldRows, Commit, CommitFails,
           Resume, ResumeCoarse, Fetch, FetchCoarse, Restart, market, vars
  <1> QED BY <1>1, <1>2, TradePreserves, NextMinutePreserves

LEMMA PartLater ==
    ASSUME TypeOK, TypeOK', Wider, NEW b \in Minutes, NEW low \in Nat, NEW high \in Nat,
           Part(b, low, high)
    PROVE  Part(b, low, high)'
  <1>1. \A k \in Minutes : /\ truth[k].low \in Nat /\ truth[k].high \in Nat
                           /\ truth'[k].low \in Nat /\ truth'[k].high \in Nat
    <2>1. Prices \cup {0} \subseteq Nat
      BY Numbers
    <2> QED BY <2>1 DEF TypeOK, Bars
  <1>2. Window(b) \subseteq Minutes
    BY DEF Window
  <1> QED BY <1>1, <1>2 DEF Part, Wider

LEMMA StepShown == ASSUME TInv, RollupsShown, [Next]_vars PROVE RollupsShown'
  <1>1. TypeOK /\ TypeOK' /\ Wider
    BY StepTInv, StepWider DEF TInv
  <1> SUFFICES ASSUME NEW b \in Minutes, rollup'[b].writer = "history"
               PROVE  Part(b, rollup[b].low, rollup[b].high)'
    BY DEF RollupsShown, Part
  <1>2. PICK low \in Nat, high \in Nat : low = rollup'[b].low /\ high = rollup'[b].high
    <2>1. Prices \cup {0} \subseteq Nat
      BY Numbers
    <2> QED BY <1>1, <2>1 DEF TypeOK, Bars
  <1>3. Part(b, low, high)
    <2>1. CASE rollup'[b] = rollup[b]
      BY <1>2, <2>1 DEF RollupsShown
    <2>2. CASE FetchCoarse
      BY <1>2, <2>1, <2>2, FetchCoarseFacts
    <2>3. CASE Commit
      <3>1. /\ rollup' = [rollup EXCEPT ![Bucket(memory.bucket)] = live.fold]
            /\ live.fold.writer = "live" /\ rollup \in [Minutes -> Bars]
        BY <2>3 DEF Commit, TInv, MemoryReal, TypeOK
      <3>2. rollup'[b] = rollup[b]
        BY <3>1
      <3> QED BY <2>1, <3>2
    <2> QED BY <2>1, <2>2, <2>3, StepOfRows
  <1>4. Part(b, low, high)'
    BY <1>1, <1>3, PartLater
  <1> QED BY <1>2, <1>4 DEF Part

\* For any prices, session lengths and bucket widths, and whichever collector stored its
\* rows between the fold and the commit: a rollup starts a bucket of the session; one of
\* the aggregator is the fold of the minutes stored in its window, which rows of the
\* historical collector can only widen, and one the historical collector stored itself
\* shows prices of its window.
THEOREM RollupSafe == Spec => []RollupIsFold
  <1>1. Init => RInv /\ RollupsShown
    BY InitTInv DEF RInv, RollupsStart, RollupsFolded, RollupsShown, FoldKnown, Init, NoLive,
                    NoBar, Bar
  <1>2. RInv /\ RollupsShown /\ [Next]_vars => RInv' /\ RollupsShown'
    BY StepRollups, StepShown DEF RInv
  <1>3. RInv /\ RollupsShown => RollupIsFold
    BY DEF RInv, RollupsStart, RollupsFolded, RollupsShown, Folded, Part, RollupIsFold,
           FoldOfMinutes, PartOfWindow
  <1> QED BY <1>1, <1>2, <1>3, PTL DEF Spec
=============================================================================
