------------------------- MODULE LeaderboardProofs --------------------------
(***************************************************************************)
(* Proofs about what a pool shows.  The first part is about                *)
(* computeStandings, for any roster and any entries: the points are summed *)
(* by a fold, the rows sorted, and the ranks carried along a loop, so      *)
(* these are inductions.  The second part is the invariant of the two      *)
(* handlers.  The third is about PoolView, the page that polls the         *)
(* standings, for any number of matches, commits and polls; it shares no   *)
(* variable with the handlers.                                             *)
(***************************************************************************)
EXTENDS Leaderboard, PoolView, RosterProofs, FiniteSetTheorems

-----------------------------------------------------------------------------
(* Induction.  The provers cannot instantiate a theorem with an operator     *)
(* parameter, but they can use that a set of numbers has a smallest element. *)

LEMMA SmallestNumber ==
    ASSUME NEW T, T \subseteq Nat, T # {}
    PROVE  \E n \in T : \A m \in T : n <= m
<1> DEFINE Less == {ss \in Nat \X Nat : ss[1] < ss[2]}
<1>1. IsWellFoundedOn(Less, Nat)
  BY NatLessThanWellFounded, Zenon DEF OpToRel
<1>2. PICK n \in T : \A m \in T : <<m, n>> \notin Less
  <2> HIDE DEF Less
  <2> QED
    BY <1>1, WFMin, Zenon
<1>3. ASSUME NEW m \in T PROVE n <= m
  <2>1. n \in Nat /\ m \in Nat
    BY <1>3
  <2>2. ~(m < n)
    BY <1>2, <2>1
  <2> QED
    BY <2>1, <2>2
<1> QED
  BY <1>3

-----------------------------------------------------------------------------
(* The points. *)

(* scorePick gives 5, 3, 1 or nothing. *)
LEMMA PointsRange ==
    ASSUME NEW pick, NEW result
    PROVE  ScorePick(pick, result) \in {0, 1, 3, 5}
BY DEF ScorePick

(***************************************************************************)
(* What scorePick's comment says of the points (scoring.ts:9-13): five for *)
(* the exact scoreline and nothing else, at least three for the right goal *)
(* difference, at least one for the right winner.  A predicted draw of a   *)
(* drawn match never gets less than three, and swapping the teams of both  *)
(* scorelines changes no points.                                           *)
(***************************************************************************)
THEOREM PointsAreAsPromised ==
    ASSUME NEW pick \in Nat \X Nat, NEW result \in Nat \X Nat
    PROVE  /\ ScorePick(pick, result) = 5 <=> pick = result
           /\ ScorePick(pick, result) >= 3 <=> Difference(pick) = Difference(result)
           /\ ScorePick(pick, result) >= 1 <=> Outcome(pick) = Outcome(result)
           /\ Outcome(pick) = 0 /\ Outcome(result) = 0 => ScorePick(pick, result) >= 3
           /\ ScorePick(<<pick[2], pick[1]>>, <<result[2], result[1]>>) = ScorePick(pick, result)
<1>1. /\ pick[1] \in Nat /\ pick[2] \in Nat /\ result[1] \in Nat /\ result[2] \in Nat
      /\ pick = <<pick[1], pick[2]>> /\ result = <<result[1], result[2]>>
  OBVIOUS
<1>2. PICK a, b, c, d \in Nat : pick = <<a, b>> /\ result = <<c, d>>
  BY <1>1
<1>3. pick = result <=> a = c /\ b = d
  BY <1>2
<1>4. /\ Difference(pick) = a - b /\ Difference(result) = c - d
      /\ Difference(<<b, a>>) = b - a /\ Difference(<<d, c>>) = d - c
      /\ pick[1] = a /\ pick[2] = b /\ result[1] = c /\ result[2] = d
  BY <1>2 DEF Difference
<1>5. /\ Outcome(pick) = IF a > b THEN 1 ELSE IF a < b THEN -1 ELSE 0
      /\ Outcome(result) = IF c > d THEN 1 ELSE IF c < d THEN -1 ELSE 0
      /\ Outcome(<<b, a>>) = IF b > a THEN 1 ELSE IF b < a THEN -1 ELSE 0
      /\ Outcome(<<d, c>>) = IF d > c THEN 1 ELSE IF d < c THEN -1 ELSE 0
  BY <1>4 DEF Outcome
<1>6. ScorePick(pick, result) =
          IF a = c /\ b = d THEN 5
          ELSE IF Outcome(pick) # Outcome(result) THEN 0
          ELSE IF a - b = c - d THEN 3 ELSE 1
  BY <1>3, <1>4 DEF ScorePick
<1>7. ScorePick(<<b, a>>, <<d, c>>) =
          IF a = c /\ b = d THEN 5
          ELSE IF Outcome(<<b, a>>) # Outcome(<<d, c>>) THEN 0
          ELSE IF b - a = d - c THEN 3 ELSE 1
  BY <1>4 DEF ScorePick
<1>8. Outcome(<<b, a>>) = Outcome(<<d, c>>) <=> Outcome(pick) = Outcome(result)
  BY <1>5
<1>9. b - a = d - c <=> a - b = c - d
  OBVIOUS
<1>10. ScorePick(<<b, a>>, <<d, c>>) = ScorePick(pick, result)
  BY <1>6, <1>7, <1>8, <1>9
<1>11. a = c /\ b = d => a - b = c - d /\ Outcome(pick) = Outcome(result)
  BY <1>5
<1>12. a - b = c - d => Outcome(pick) = Outcome(result)
  BY <1>5
<1>13. Outcome(pick) = 0 /\ Outcome(result) = 0 => a - b = c - d
  BY <1>5
<1>14. /\ ScorePick(pick, result) = 5 <=> a = c /\ b = d
       /\ ScorePick(pick, result) >= 3 <=> a - b = c - d
       /\ ScorePick(pick, result) >= 1 <=> Outcome(pick) = Outcome(result)
  BY <1>6, <1>11, <1>12
<1> QED
  BY <1>3, <1>4, <1>10, <1>13, <1>14

WorthOf(points, S) == {e \in S : PointsOf(e) = points}
TotalOf(S) ==
    5 * Cardinality(WorthOf(5, S)) + 3 * Cardinality(WorthOf(3, S)) + Cardinality(WorthOf(1, S))

(* One more entry adds its points to the total of the hits. *)
LEMMA OneMoreEntry ==
    ASSUME NEW S, IsFiniteSet(S), NEW x \in S
    PROVE  /\ TotalOf(S) = PointsOf(x) + TotalOf(S \ {x})
           /\ TotalOf(S) \in Int
<1> DEFINE Rest == S \ {x}
<1>1. ASSUME NEW points \in {1, 3, 5}
      PROVE  /\ Cardinality(WorthOf(points, S)) \in Nat
             /\ Cardinality(WorthOf(points, S)) =
                  Cardinality(WorthOf(points, Rest)) + (IF PointsOf(x) = points THEN 1 ELSE 0)
             /\ Cardinality(WorthOf(points, Rest)) \in Nat
  <2>1. IsFiniteSet(WorthOf(points, S)) /\ IsFiniteSet(WorthOf(points, Rest))
    BY FS_Subset, FS_RemoveElement DEF WorthOf
  <2>2. Cardinality(WorthOf(points, S)) \in Nat /\ Cardinality(WorthOf(points, Rest)) \in Nat
    BY <2>1, FS_CardinalityType
  <2>3. CASE PointsOf(x) = points
    <3>1. WorthOf(points, S) = WorthOf(points, Rest) \cup {x} /\ x \notin WorthOf(points, Rest)
      BY <2>3 DEF WorthOf
    <3>2. Cardinality(WorthOf(points, S)) = Cardinality(WorthOf(points, Rest)) + 1
      BY <2>1, <3>1, FS_AddElement
    <3> QED
      BY <2>2, <2>3, <3>2
  <2>4. CASE PointsOf(x) # points
    <3>1. WorthOf(points, S) = WorthOf(points, Rest)
      BY <2>4 DEF WorthOf
    <3> QED
      BY <2>2, <2>4, <3>1
  <2> QED
    BY <2>3, <2>4
<1>2. PointsOf(x) \in {0, 1, 3, 5}
  BY PointsRange DEF PointsOf
<1> QED
  BY <1>1, <1>2 DEF TotalOf

(* What a wallet's row adds up to: the sum over a set of entries does not   *)
(* depend on the order in which the entries are taken.                      *)
LEMMA PointsAddUp ==
    ASSUME NEW S, IsFiniteSet(S)
    PROVE  Earned(S) = TotalOf(S)
<1> DEFINE One(s) == CHOOSE x \in s : TRUE
           Adds(g) ==
               g = [s \in SUBSET S |->
                       IF s = {} THEN 0 ELSE PointsOf(One(s)) + g[s \ {One(s)}]]
           sum == CHOOSE g : Adds(g)
<1>1. Earned(S) = sum[S]
  BY DEF Earned, MapThenSumSet, MapThenFoldSet
<1>2. ASSUME NEW s \in SUBSET S, s # {} PROVE One(s) \in s
  BY <1>2
<1> HIDE DEF One
<1>3. TotalOf({}) = 0
  <2>1. WorthOf(5, {}) = {} /\ WorthOf(3, {}) = {} /\ WorthOf(1, {}) = {}
    BY DEF WorthOf
  <2> QED
    BY <2>1, FS_EmptySet DEF TotalOf
<1>4. ASSUME NEW s \in SUBSET S, s # {}
      PROVE  TotalOf(s) = PointsOf(One(s)) + TotalOf(s \ {One(s)})
  BY <1>2, <1>4, FS_Subset, OneMoreEntry
<1>5. Adds([s \in SUBSET S |-> TotalOf(s)])
  BY <1>2, <1>3, <1>4
<1>6. Adds(sum)
  BY <1>5
<1> HIDE DEF sum
<1> DEFINE Wrong == {n \in Nat : \E s \in SUBSET S : Cardinality(s) = n /\ sum[s] # TotalOf(s)}
<1>7. ASSUME Wrong # {} PROVE FALSE
  <2>1. PICK n \in Wrong : \A m \in Wrong : n <= m
    BY <1>7, SmallestNumber
  <2>2. PICK s \in SUBSET S : Cardinality(s) = n /\ sum[s] # TotalOf(s)
    OBVIOUS
  <2>3. s # {}
    BY <1>3, <1>6, <2>2
  <2> DEFINE rest == s \ {One(s)}
  <2>4. One(s) \in s /\ IsFiniteSet(s) /\ rest \in SUBSET S
    BY <1>2, <2>3, FS_Subset
  <2>5. n \in Nat /\ Cardinality(rest) \in Nat /\ Cardinality(rest) < n
    <3>1. IsFiniteSet(rest) /\ Cardinality(rest) = Cardinality(s) - 1
      BY <2>4, FS_RemoveElement
    <3>2. Cardinality(rest) \in Nat /\ Cardinality(s) \in Nat
      BY <2>4, <3>1, FS_CardinalityType
    <3> QED
      BY <2>2, <3>1, <3>2
  <2>6. sum[rest] = TotalOf(rest)
    BY <2>1, <2>4, <2>5
  <2> QED
    BY <1>4, <1>6, <2>2, <2>3, <2>6
<1>8. Cardinality(S) \in Nat
  BY FS_CardinalityType
<1>9. sum[S] = TotalOf(S)
  BY <1>7, <1>8
<1> QED
  BY <1>1, <1>9

-----------------------------------------------------------------------------
(* The order. *)

RankedRow == [wallet : Wallet, points : Int, exact : Nat, diff : Nat, result : Nat, scored : Nat]

(* Rows as computeStandings sorts them: one for each wallet. *)
OnePerWallet(rows) ==
    /\ rows \subseteq RankedRow
    /\ IsFiniteSet(rows)
    /\ \A a, b \in rows : a.wallet = b.wallet => a = b

InOrder(s) == \A i, j \in DOMAIN s : i < j => Above(s[i], s[j])

(* No two rows of a list tie: wallets break what points leave open. *)
LEMMA AboveIsTotal ==
    ASSUME NEW rows, OnePerWallet(rows)
    PROVE  \A a, b, c \in rows :
              /\ ~Above(a, a)
              /\ Above(a, b) /\ Above(b, c) => Above(a, c)
              /\ a = b \/ Above(a, b) \/ Above(b, a)
<1> SUFFICES ASSUME NEW a \in rows, NEW b \in rows, NEW c \in rows
             PROVE  /\ ~Above(a, a)
                    /\ Above(a, b) /\ Above(b, c) => Above(a, c)
                    /\ a = b \/ Above(a, b) \/ Above(b, a)
  OBVIOUS
<1>1. /\ a.points \in Int /\ b.points \in Int /\ c.points \in Int
      /\ a.wallet \in Wallet /\ b.wallet \in Wallet /\ c.wallet \in Wallet
  BY DEF OnePerWallet, RankedRow
<1>2. /\ WalletOrder[a.wallet] \in Nat /\ WalletOrder[b.wallet] \in Nat
      /\ WalletOrder[c.wallet] \in Nat
  BY <1>1, BoardConstants
<1>3. a = b \/ WalletOrder[a.wallet] # WalletOrder[b.wallet]
  BY <1>1, BoardConstants DEF OnePerWallet
<1> QED
  BY <1>1, <1>2, <1>3 DEF Above

(* There is an order: the place of a row is the number of rows Above it. *)
LEMMA SortedExists ==
    ASSUME NEW rows, OnePerWallet(rows)
    PROVE  \E s \in [1..Cardinality(rows) -> rows] : InOrder(s)
<1> DEFINE n == Cardinality(rows)
           Better(a) == {b \in rows : Above(b, a)}
           place == [a \in rows |-> 1 + Cardinality(Better(a))]
<1>1. n \in Nat /\ IsFiniteSet(rows) /\ IsFiniteSet(1..n) /\ Cardinality(1..n) = n
  BY FS_CardinalityType, FS_Interval DEF OnePerWallet
<1>2. ASSUME NEW a \in rows
      PROVE  IsFiniteSet(Better(a)) /\ Cardinality(Better(a)) \in Nat
  <2>1. Better(a) \in SUBSET rows
    OBVIOUS
  <2> QED
    BY <1>1, <2>1, FS_Subset, FS_CardinalityType
<1>3. ASSUME NEW a \in rows, NEW b \in rows, Above(a, b)
      PROVE  place[a] < place[b]
  <2>1. Better(a) \in SUBSET Better(b)
    BY <1>3, AboveIsTotal
  <2>2. a \in Better(b) /\ a \notin Better(a)
    BY <1>3, AboveIsTotal
  <2>3. /\ Cardinality(Better(a)) <= Cardinality(Better(b))
        /\ Cardinality(Better(b)) = Cardinality(Better(a)) => Better(b) = Better(a)
    <3> HIDE DEF Better
    <3> QED
      BY <1>2, <2>1, FS_Subset
  <2>4. Cardinality(Better(a)) # Cardinality(Better(b))
    BY <2>2, <2>3
  <2>5. Cardinality(Better(a)) < Cardinality(Better(b))
    BY <1>2, <2>3, <2>4
  <2>6. Cardinality(Better(a)) \in Nat /\ Cardinality(Better(b)) \in Nat
    BY <1>2
  <2> HIDE DEF Better
  <2> QED
    BY <2>5, <2>6
<1>4. place \in [rows -> 1..n]
  <2>1. ASSUME NEW a \in rows PROVE place[a] \in 1..n
    <3>1. Better(a) \in SUBSET rows /\ a \notin Better(a)
      BY AboveIsTotal
    <3>2. /\ Cardinality(Better(a)) <= n
          /\ n = Cardinality(Better(a)) => rows = Better(a)
      <4> HIDE DEF Better
      <4> QED
        BY <1>1, <3>1, FS_Subset
    <3>3. Cardinality(Better(a)) # n
      BY <3>1, <3>2
    <3> QED
      BY <1>1, <1>2, <3>2, <3>3
  <2> QED
    BY <2>1
<1> HIDE DEF place
<1>5. \A a, b \in rows : place[a] = place[b] => a = b
  <2>1. ASSUME NEW a \in rows, NEW b \in rows PROVE place[a] \in Int /\ place[b] \in Int
    BY <1>1, <1>4
  <2> QED
    BY <1>3, <2>1, AboveIsTotal
<1>6. place \in Injection(rows, 1..n)
  BY <1>4, <1>5 DEF Injection, IsInjective
<1>7. \A i \in 1..n : \E a \in rows : place[a] = i
  <2>1. place \in Surjection(rows, 1..n)
    BY <1>1, <1>6, FS_Injection
  <2> QED
    BY <2>1 DEF Surjection
<1> DEFINE s == [i \in 1..n |-> CHOOSE a \in rows : place[a] = i]
<1>8. ASSUME NEW i \in 1..n PROVE s[i] \in rows /\ place[s[i]] = i
  BY <1>7
<1> HIDE DEF s
<1>9. s \in [1..n -> rows]
  BY <1>8 DEF s
<1>10. ASSUME NEW i \in 1..n, NEW j \in 1..n, i < j PROVE Above(s[i], s[j])
  <2>1. s[i] \in rows /\ s[j] \in rows /\ place[s[i]] < place[s[j]]
    BY <1>8, <1>10
  <2>2. s[i] # s[j] /\ ~Above(s[j], s[i])
    BY <1>1, <1>3, <1>8, <2>1
  <2> QED
    BY <2>1, <2>2, AboveIsTotal
<1>11. InOrder(s)
  BY <1>9, <1>10 DEF InOrder
<1> QED
  BY <1>9, <1>11

(* So sort has a result. *)
LEMMA SortedRows ==
    ASSUME NEW rows, OnePerWallet(rows)
    PROVE  Sorted(rows) \in [1..Cardinality(rows) -> rows] /\ InOrder(Sorted(rows))
BY SortedExists DEF Sorted, InOrder

-----------------------------------------------------------------------------
(* The ranks. *)

BetterThan(s, i) == {j \in DOMAIN s : s[j].points > s[i].points}

(* In a sorted list those with more points are the first ones, up to where  *)
(* the points change.                                                       *)
LEMMA BetterAreBefore ==
    ASSUME NEW n \in Nat, NEW s, DOMAIN s = 1..n, InOrder(s),
           \A i \in 1..n : s[i].points \in Int,
           NEW i \in 1..n
    PROVE  /\ i = 1 \/ s[i].points # s[i - 1].points => BetterThan(s, i) = 1..(i - 1)
           /\ i # 1 /\ s[i].points = s[i - 1].points => BetterThan(s, i) = BetterThan(s, i - 1)
<1>1. \A j, k \in 1..n : j < k => s[j].points >= s[k].points
  BY DEF InOrder, Above
<1>2. ASSUME i = 1 \/ s[i].points # s[i - 1].points
      PROVE  BetterThan(s, i) = 1..(i - 1)
  <2>1. ASSUME NEW j \in 1..n, s[j].points > s[i].points PROVE j \in 1..(i - 1)
    <3>1. ~(i < j) /\ i # j
      BY <1>1, <2>1
    <3> QED
      BY <2>1, <3>1
  <2>2. ASSUME NEW j \in 1..(i - 1) PROVE j \in 1..n /\ s[j].points > s[i].points
    <3>1. i - 1 \in 1..n /\ j \in 1..n /\ i - 1 < i /\ (j < i - 1 \/ j = i - 1)
      OBVIOUS
    <3>2. s[i - 1].points > s[i].points
      BY <1>1, <1>2, <2>2, <3>1
    <3>3. s[j].points >= s[i - 1].points
      BY <1>1, <3>1
    <3> QED
      BY <3>1, <3>2, <3>3
  <2> QED
    BY <2>1, <2>2 DEF BetterThan
<1>3. i # 1 /\ s[i].points = s[i - 1].points => BetterThan(s, i) = BetterThan(s, i - 1)
  BY DEF BetterThan
<1> QED
  BY <1>2, <1>3

(* Places counts them: it carries the place of the first of equals on.      *)
LEMMA PlacesCount ==
    ASSUME NEW s, s \in Seq(RankedRow), InOrder(s), NEW i \in DOMAIN s
    PROVE  Places(s)[i] = 1 + Cardinality(BetterThan(s, i))
<1> DEFINE n == Len(s)
           Carries(g) ==
               g = [k \in 0..n |->
                       IF k = 0 THEN 0
                       ELSE IF k = 1 \/ s[k].points # s[k - 1].points THEN k
                       ELSE g[k - 1]]
           place == CHOOSE g : Carries(g)
           Count(k) == IF k = 0 THEN 0 ELSE 1 + Cardinality(BetterThan(s, k))
<1>1. n \in Nat /\ DOMAIN s = 1..n /\ \A k \in 1..n : s[k].points \in Int
  <2>1. n \in Nat /\ DOMAIN s = 1..n
    OBVIOUS
  <2>2. ASSUME NEW k \in 1..n PROVE s[k].points \in Int
    <3>1. s[k] \in RankedRow
      BY <2>1
    <3> QED
      BY <3>1 DEF RankedRow
  <2> QED
    BY <2>1, <2>2
<1>2. \A k \in 1..n :
           /\ k = 1 \/ s[k].points # s[k - 1].points => BetterThan(s, k) = 1..(k - 1)
           /\ k # 1 /\ s[k].points = s[k - 1].points => BetterThan(s, k) = BetterThan(s, k - 1)
  <2> HIDE DEF n
  <2> QED
    BY <1>1, BetterAreBefore, Zenon
<1>3. Places(s)[i] = place[i]
  BY DEF Places
<1>4. ASSUME NEW k \in 1..n
      PROVE  Count(k) = IF k = 1 \/ s[k].points # s[k - 1].points THEN k ELSE Count(k - 1)
  <2>1. CASE k = 1 \/ s[k].points # s[k - 1].points
    <3>1. BetterThan(s, k) = 1..(k - 1)
      BY <1>2, <2>1, Zenon
    <3>2. Cardinality(1..(k - 1)) = k - 1
      BY FS_Interval
    <3> QED
      BY <2>1, <3>1, <3>2
  <2>2. CASE k # 1 /\ s[k].points = s[k - 1].points
    <3>1. BetterThan(s, k) = BetterThan(s, k - 1)
      BY <1>2, <2>2, Zenon
    <3> QED
      BY <2>2, <3>1
  <2> QED
    BY <2>1, <2>2
<1>5. Count(0) = 0
  OBVIOUS
<1> HIDE DEF Count
<1>6. Carries([k \in 0..n |-> Count(k)])
  BY <1>4, <1>5
<1>7. Carries(place)
  BY <1>6
<1> HIDE DEF place
<1> DEFINE Wrong == {k \in 0..n : place[k] # Count(k)}
<1>8. ASSUME Wrong # {} PROVE FALSE
  <2>1. PICK k \in Wrong : \A m \in Wrong : k <= m
    <3>1. Wrong \subseteq Nat
      BY <1>1
    <3> QED
      BY <1>8, <3>1, SmallestNumber
  <2>2. k \in 0..n /\ place[k] # Count(k)
    OBVIOUS
  <2>3. k # 0
    BY <1>5, <1>7, <2>2
  <2>4. k \in 1..n /\ k - 1 \in 0..n /\ k - 1 \notin Wrong
    BY <2>1, <2>2, <2>3
  <2>5. place[k - 1] = Count(k - 1)
    BY <2>4
  <2> QED
    BY <1>1, <1>4, <1>7, <2>2, <2>4, <2>5
<1>9. place[i] = Count(i)
  BY <1>1, <1>8
<1> QED
  BY <1>1, <1>3, <1>9 DEF Count

-----------------------------------------------------------------------------
(* The standings. *)

(* What RanksCountTheBetter says of one board. *)
AheadOf(board, i) == {j \in DOMAIN board : board[j].row.points > board[i].row.points}
SumOfHits(row) == 5 * row.exact + 3 * row.diff + row.result
RanksRight(board) ==
    \A i \in DOMAIN board :
        /\ board[i].rank = 1 + Cardinality(AheadOf(board, i))
        /\ board[i].row.points = SumOfHits(board[i].row)
        /\ \A j \in DOMAIN board : board[j].row.wallet = board[i].row.wallet => i = j

(* A row adds up. *)
LEMMA RowIsRight ==
    ASSUME NEW w \in Wallet, NEW entries, IsFiniteSet(entries)
    PROVE  /\ Row(w, entries) \in RankedRow
           /\ Row(w, entries).wallet = w
           /\ Row(w, entries).points =
                 5 * Row(w, entries).exact + 3 * Row(w, entries).diff + Row(w, entries).result
<1> DEFINE S == Counted(w, entries)
<1>1. IsFiniteSet(S) /\ Cardinality(S) \in Nat
  BY FS_Subset, FS_CardinalityType DEF Counted
<1>2. ASSUME NEW points
      PROVE  /\ Hits(points, w, entries) = Cardinality(WorthOf(points, S))
             /\ Hits(points, w, entries) \in Nat
  <2>1. IsFiniteSet(WorthOf(points, S))
    BY <1>1, FS_Subset DEF WorthOf
  <2> QED
    BY <2>1, FS_CardinalityType DEF Hits, WorthOf
<1>3. Earned(S) = TotalOf(S)
  BY <1>1, PointsAddUp
<1>4. TotalOf(S) = 5 * Hits(5, w, entries) + 3 * Hits(3, w, entries) + Hits(1, w, entries)
  BY <1>2 DEF TotalOf
<1>5. TotalOf(S) \in Int
  BY <1>2, <1>4
<1> HIDE DEF S
<1> QED
  BY <1>1, <1>2, <1>3, <1>4, <1>5 DEF Row, RankedRow, S

(* As many rows as wallets, finitely many. *)
LEMMA RowsAreRight ==
    ASSUME NEW wallets \in SUBSET Wallet, NEW entries, IsFiniteSet(entries)
    PROVE  OnePerWallet({Row(w, entries) : w \in wallets})
<1> DEFINE rows == {Row(w, entries) : w \in wallets}
           row == [w \in wallets |-> Row(w, entries)]
<1>1. IsFiniteSet(wallets)
  BY BoardConstants, FS_Subset
<1>2. row \in Surjection(wallets, rows)
  BY DEF Surjection
<1>3. IsFiniteSet(rows)
  BY <1>1, <1>2, FS_Surjection
<1>4. rows \subseteq RankedRow
  BY RowIsRight
<1>5. \A a, b \in rows : a.wallet = b.wallet => a = b
  BY RowIsRight
<1> QED
  BY <1>3, <1>4, <1>5 DEF OnePerWallet

(* computeStandings returns a board that is right, of these wallets only. *)
LEMMA StandingsAreRight ==
    ASSUME NEW wallets \in SUBSET Wallet, NEW entries, IsFiniteSet(entries)
    PROVE  /\ RanksRight(Standings(wallets, entries))
           /\ \A i \in DOMAIN Standings(wallets, entries) :
                 Standings(wallets, entries)[i].row.wallet \in wallets
<1> DEFINE rows == {Row(w, entries) : w \in wallets}
           s == Sorted(rows)
           board == Standings(wallets, entries)
<1>1. OnePerWallet(rows)
  BY RowsAreRight
<1>2. s \in [1..Cardinality(rows) -> rows] /\ InOrder(s)
  <2> HIDE DEF rows
  <2> QED
    BY <1>1, SortedRows
<1>3. \A a \in rows : /\ a \in RankedRow
                      /\ a.wallet \in wallets
                      /\ a.points = 5 * a.exact + 3 * a.diff + a.result
  BY RowIsRight
<1>4. board = [i \in DOMAIN s |-> [rank |-> Places(s)[i], row |-> s[i]]]
  BY DEF Standings
<1> HIDE DEF rows, s, board
<1>5. Cardinality(rows) \in Nat
  BY <1>1, FS_CardinalityType DEF OnePerWallet
<1>6. s \in Seq(RankedRow) /\ DOMAIN s = 1..Cardinality(rows)
  BY <1>2, <1>3, <1>5
<1>7. ASSUME NEW i \in DOMAIN board
      PROVE  /\ board[i].rank = 1 + Cardinality(AheadOf(board, i))
             /\ board[i].row.points = SumOfHits(board[i].row)
             /\ \A j \in DOMAIN board : board[j].row.wallet = board[i].row.wallet => i = j
             /\ board[i].row.wallet \in wallets
  <2>1. i \in DOMAIN s /\ board[i].row = s[i] /\ board[i].rank = Places(s)[i] /\ s[i] \in rows
    BY <1>2, <1>4
  <2>2. AheadOf(board, i) = BetterThan(s, i)
    BY <1>4, <2>1 DEF BetterThan, AheadOf
  <2>3. board[i].rank = 1 + Cardinality(BetterThan(s, i))
    BY <1>2, <1>6, <2>1, PlacesCount
  <2>4. ASSUME NEW j \in DOMAIN board, board[j].row.wallet = board[i].row.wallet
        PROVE  i = j
    <3>1. j \in DOMAIN s /\ board[j].row = s[j] /\ s[j] \in rows
      BY <1>2, <1>4
    <3>2. s[i] = s[j]
      BY <1>1, <2>1, <2>4, <3>1 DEF OnePerWallet
    <3>3. ~Above(s[i], s[i])
      BY <1>1, <2>1, AboveIsTotal
    <3>4. ~(i < j) /\ ~(j < i)
      BY <1>2, <2>1, <3>1, <3>2, <3>3 DEF InOrder
    <3> QED
      BY <1>5, <1>6, <2>1, <3>1, <3>4
  <2> QED
    BY <1>3, <2>1, <2>2, <2>3, <2>4 DEF SumOfHits
<1> QED
  BY <1>7 DEF RanksRight, board

-----------------------------------------------------------------------------
(* The inductive invariant: a roster that was read before the awaits is one  *)
(* of members until the answer, because members stay, and so is the pool's   *)
(* organizer; a token that was accepted proves the wallet.                   *)

WaitingRequest ==
    [step : {"waiting"}, kind : Kind, pool : PoolId, caller : Wallet, proof : BOOLEAN,
     roster : SUBSET Wallet, entries : {Awaited} \cup SUBSET RevealedEntry,
     authed : {Awaited} \cup BOOLEAN]

WaitingOK(q) ==
    /\ q \in WaitingRequest
    /\ Registered(q.pool)
    /\ \A w \in q.roster : Member(q.pool, w)
    /\ q.entries # Awaited => IsFiniteSet(q.entries)
    /\ q.authed # Awaited /\ q.authed => q.proof

(* Who a board is about. *)
Wallets(q) ==
    IF q.kind = "leaderboard" THEN {q.board[i].row.wallet : i \in DOMAIN q.board}
    ELSE IF q.kind = "picks" THEN {line.entry.wallet : line \in q.board}
    ELSE q.board

AnsweredOK(q) ==
    /\ q.step = "answered" /\ q.kind \in Kind \cup {"members"}
    /\ q.pool \in PoolId /\ Registered(q.pool)
    /\ q.kind \in Kind => q.caller \in Wallet
    /\ q.kind = "leaderboard" => RanksRight(q.board)
    /\ \A w \in Wallets(q) : w \in Wallet /\ Member(q.pool, w)
    /\ q.kind \in Kind /\ q.emails =>
           /\ q.proof
           /\ Member(q.pool, q.caller) \/ q.caller = pools[q.pool].organizer

RequestOK(r) == request[r] = NoRequest \/ WaitingOK(request[r]) \/ AnsweredOK(request[r])

BoardInv ==
    /\ RosterInv
    /\ shown \subseteq RevealedEntry /\ IsFiniteSet(shown)
    /\ DOMAIN request = Request
    /\ \A r \in Request : RequestOK(r)

-----------------------------------------------------------------------------

(* A pool that is registered keeps its row. *)
PoolsStay == \A p \in PoolId : Registered(p) => pools'[p] = pools[p]
MembersStay == \A p \in PoolId, w \in Wallet : Member(p, w) => Member(p, w)'

(* Handlers of the roster take nothing away that a request relies on. *)
LEMMA RosterKeeps ==
    ASSUME RosterInv, [RosterNext]_rosterVars
    PROVE  RosterInv' /\ PoolsStay /\ MembersStay
<1>1. RosterInv' /\ MembersStay
  BY NextStep DEF RowKept, MembersStay
<1>2. PoolsStay
  <2>1. CASE UNCHANGED pools
    BY <2>1 DEF PoolsStay
  <2>2. ASSUME NEW p \in PoolId, NEW w \in Wallet, NEW gated \in BOOLEAN, RegisterPool(p, w, gated)
        PROVE  PoolsStay
    <3>1. PICK c \in Code :
              pools' = [pools EXCEPT ![p] = [code |-> c, organizer |-> w, gated |-> gated]]
      BY <2>2 DEF RegisterPool
    <3>2. ~Registered(p)
      BY <2>2 DEF RegisterPool
    <3> QED
      BY <3>1, <3>2 DEF PoolsStay, RosterInv, RosterTypeOK
  <2> QED
    BY <2>1, <2>2 DEF RosterNext, rosterVars, Join, StartResponse, RefuseResponse, FinishResponse
<1> QED
  BY <1>1, <1>2

(* What is right about a request or an answer stays right. *)
LEMMA RequestKept ==
    ASSUME RosterInv, PoolsStay, MembersStay, NEW q
    PROVE  /\ WaitingOK(q) => WaitingOK(q)'
           /\ AnsweredOK(q) => AnsweredOK(q)'
<1>1. \A p \in PoolId : Registered(p) => Registered(p)'
  BY DEF PoolsStay, Registered
<1>2. WaitingOK(q) => WaitingOK(q)'
  <2> SUFFICES ASSUME WaitingOK(q) PROVE WaitingOK(q)'
    OBVIOUS
  <2>1. q.pool \in PoolId /\ q.roster \subseteq Wallet
    BY DEF WaitingOK, WaitingRequest
  <2>2. \A w \in q.roster : Member(q.pool, w)'
    BY <2>1 DEF WaitingOK, MembersStay
  <2>3. Registered(q.pool)'
    BY <1>1, <2>1 DEF WaitingOK
  <2> QED
    BY <2>2, <2>3 DEF WaitingOK
<1>3. AnsweredOK(q) => AnsweredOK(q)'
  <2> SUFFICES ASSUME AnsweredOK(q) PROVE AnsweredOK(q)'
    OBVIOUS
  <2>1. q.pool \in PoolId /\ Registered(q.pool) /\ (q.kind \in Kind => q.caller \in Wallet)
    BY DEF AnsweredOK
  <2>2. Registered(q.pool)' /\ pools'[q.pool] = pools[q.pool]
    BY <1>1, <2>1 DEF PoolsStay
  <2>3. \A w \in Wallets(q) : w \in Wallet /\ Member(q.pool, w)'
    BY <2>1 DEF AnsweredOK, MembersStay
  <2>4. q.kind \in Kind /\ Member(q.pool, q.caller) => Member(q.pool, q.caller)'
    BY <2>1 DEF MembersStay
  <2> QED
    BY <2>2, <2>3, <2>4 DEF AnsweredOK
<1> QED
  BY <1>2, <1>3

(* A step that leaves the requests alone. *)
LEMMA RequestsKept ==
    ASSUME BoardInv, PoolsStay, MembersStay, UNCHANGED request
    PROVE  DOMAIN request' = Request /\ \A r \in Request : RequestOK(r)'
<1>1. ASSUME NEW r \in Request PROVE RequestOK(r)'
  <2>1. PICK q : q = request[r]
    OBVIOUS
  <2>2. q = NoRequest \/ WaitingOK(q)' \/ AnsweredOK(q)'
    BY <2>1, RequestKept DEF BoardInv, RequestOK
  <2>3. q = request'[r]
    BY <2>1
  <2> QED
    BY <2>2, <2>3 DEF RequestOK
<1> QED
  BY <1>1 DEF BoardInv

(* A step that changes one of them. *)
LEMMA OneRequestMoves ==
    ASSUME BoardInv, UNCHANGED <<rosterVars, shown>>, NEW r \in Request, NEW q,
           request' = [request EXCEPT ![r] = q],
           WaitingOK(q) \/ AnsweredOK(q)
    PROVE  BoardInv'
<1>1. PoolsStay /\ MembersStay /\ RosterInv'
  <2>1. [RosterNext]_rosterVars
    OBVIOUS
  <2> QED
    BY <2>1, RosterKeeps DEF BoardInv
<1>2. ASSUME NEW g \in Request PROVE RequestOK(g)'
  <2>1. PICK old : old = request[g]
    OBVIOUS
  <2>2. old = NoRequest \/ WaitingOK(old)' \/ AnsweredOK(old)'
    BY <1>1, <2>1, RequestKept DEF BoardInv, RequestOK
  <2>3. WaitingOK(q)' \/ AnsweredOK(q)'
    BY <1>1, RequestKept DEF BoardInv
  <2>4. request'[g] = IF g = r THEN q ELSE old
    BY <2>1 DEF BoardInv
  <2>5. CASE g = r
    BY <2>3, <2>4, <2>5 DEF RequestOK
  <2>6. CASE g # r
    BY <2>2, <2>4, <2>6 DEF RequestOK
  <2> QED
    BY <2>5, <2>6
<1>3. DOMAIN request' = Request
  BY DEF BoardInv
<1> QED
  BY <1>1, <1>2, <1>3 DEF BoardInv

LEMMA ListMembersStep ==
    ASSUME BoardInv, NEW r \in Request, NEW p \in PoolId, ListMembers(r, p)
    PROVE  BoardInv'
<1> DEFINE q == [step |-> "answered", kind |-> "members", pool |-> p, emails |-> TRUE,
                 board |-> RosterOf(p)]
<1>1. request' = [request EXCEPT ![r] = q] /\ UNCHANGED <<rosterVars, shown>> /\ Registered(p)
  BY DEF ListMembers
<1>2. \A w \in Wallets(q) : w \in Wallet /\ Member(p, w)
  BY DEF Wallets, RosterOf
<1>3. AnsweredOK(q)
  BY <1>1, <1>2 DEF AnsweredOK, Kind
<1> HIDE DEF q
<1> QED
  BY <1>1, <1>3, OneRequestMoves

LEMMA AskStep ==
    ASSUME BoardInv, NEW r \in Request, NEW kind \in Kind, NEW p \in PoolId, NEW caller \in Wallet,
           NEW proof \in BOOLEAN, Ask(r, kind, p, caller, proof)
    PROVE  BoardInv'
<1> DEFINE q == [step |-> "waiting", kind |-> kind, pool |-> p, caller |-> caller, proof |-> proof,
                 roster |-> RosterOf(p), entries |-> Awaited, authed |-> Awaited]
<1>1. request' = [request EXCEPT ![r] = q] /\ UNCHANGED <<rosterVars, shown>> /\ Registered(p)
  BY DEF Ask
<1>2. RosterOf(p) \in SUBSET Wallet /\ \A w \in RosterOf(p) : Member(p, w)
  BY DEF RosterOf
<1>3. q \in WaitingRequest
  BY <1>2 DEF WaitingRequest
<1>4. WaitingOK(q)
  BY <1>1, <1>2, <1>3 DEF WaitingOK
<1> HIDE DEF q
<1> QED
  BY <1>1, <1>4, OneRequestMoves

(* Everything is there: the answer is one of the pool, for the pool. *)
LEMMA AnswerIsRight ==
    ASSUME NEW q, WaitingOK(q), q.entries # Awaited, q.authed # Awaited
    PROVE  AnsweredOK(Answer(q))
<1> DEFINE a == Answer(q)
<1>1. /\ q.kind \in Kind /\ q.pool \in PoolId /\ q.caller \in Wallet /\ q.roster \in SUBSET Wallet
      /\ IsFiniteSet(q.entries) /\ Registered(q.pool)
      /\ \A w \in q.roster : Member(q.pool, w)
  BY DEF WaitingOK, WaitingRequest
<1>2. /\ a.step = "answered" /\ a.kind = q.kind /\ a.pool = q.pool /\ a.caller = q.caller
      /\ a.board = IF q.kind = "leaderboard" THEN Standings(q.roster, q.entries)
                   ELSE PicksBoard(q.roster, q.entries)
  BY DEF Answer
<1>3. q.kind = "leaderboard" => RanksRight(a.board)
  BY <1>1, <1>2, StandingsAreRight
<1>4. Wallets(a) \subseteq q.roster
  <2>1. CASE q.kind = "leaderboard"
    BY <1>1, <1>2, <2>1, StandingsAreRight DEF Wallets
  <2>2. CASE q.kind # "leaderboard"
    <3>1. a.board = PicksBoard(q.roster, q.entries) /\ a.kind = "picks"
      BY <1>1, <1>2, <2>2 DEF Kind
    <3>2. \A line \in a.board : line.entry.wallet \in q.roster
      BY <3>1 DEF PicksBoard, Listed
    <3> QED
      BY <3>1, <3>2 DEF Wallets
  <2> QED
    BY <2>1, <2>2
<1>5. ASSUME a.emails
      PROVE  a.proof /\ (Member(a.pool, a.caller) \/ a.caller = pools[a.pool].organizer)
  <2>1. IncludesEmails(q)
    BY <1>5 DEF Answer
  <2>2. q.proof
    BY <2>1 DEF IncludesEmails, WaitingOK
  <2>3. a.proof
    BY <2>2 DEF Answer
  <2>4. Member(q.pool, q.caller) \/ q.caller = pools[q.pool].organizer
    BY <1>1, <2>1 DEF IncludesEmails
  <2> QED
    BY <1>2, <2>3, <2>4
<1> HIDE DEF a
<1>6. AnsweredOK(a)
  BY <1>1, <1>2, <1>3, <1>4, <1>5 DEF AnsweredOK
<1> QED
  BY <1>6 DEF a

LEMMA ResumeStep ==
    ASSUME BoardInv, NEW r \in Request, NEW q, WaitingOK(q), Resume(r, q)
    PROVE  BoardInv'
<1>1. UNCHANGED <<rosterVars, shown>>
  BY DEF Resume
<1>2. CASE Awaited \in {q.entries, q.authed}
  <2>1. request' = [request EXCEPT ![r] = q]
    BY <1>2 DEF Resume
  <2> QED
    BY <1>1, <2>1, OneRequestMoves
<1>3. CASE Awaited \notin {q.entries, q.authed}
  <2>1. PICK a : a = Answer(q)
    OBVIOUS
  <2>2. request' = [request EXCEPT ![r] = a]
    BY <1>3, <2>1 DEF Resume
  <2>3. AnsweredOK(a)
    BY <1>3, <2>1, AnswerIsRight
  <2> QED
    BY <1>1, <2>2, <2>3, OneRequestMoves
<1> QED
  BY <1>2, <1>3

LEMMA WaitingType ==
    ASSUME BoardInv, NEW r \in Request, request[r].step = "waiting"
    PROVE  WaitingOK(request[r])
BY DEF BoardInv, RequestOK, AnsweredOK, NoRequest

LEMMA EntriesStep ==
    ASSUME BoardInv, NEW r \in Request, EntriesArrive(r)
    PROVE  BoardInv'
<1>1. PICK q : q = request[r]
  OBVIOUS
<1>2. PICK landed : landed = {e \in shown : e.pool = q.pool}
  OBVIOUS
<1>3. PICK n : n = [q EXCEPT !.entries = landed]
  OBVIOUS
<1>4. WaitingOK(q)
  BY <1>1, WaitingType DEF EntriesArrive
<1>5. landed \in SUBSET RevealedEntry /\ IsFiniteSet(landed)
  BY <1>2, FS_Subset DEF BoardInv
<1>6. n \in WaitingRequest
  BY <1>3, <1>4, <1>5 DEF WaitingOK, WaitingRequest
<1>7. n.pool = q.pool /\ n.roster = q.roster /\ n.authed = q.authed /\ n.entries = landed
  BY <1>3, <1>4 DEF WaitingOK, WaitingRequest
<1>8. q.authed # Awaited /\ q.authed => n.proof
  <2>1. n = [step |-> q.step, kind |-> q.kind, pool |-> q.pool, caller |-> q.caller,
             proof |-> q.proof, roster |-> q.roster, entries |-> landed, authed |-> q.authed]
    BY <1>3, <1>4 DEF WaitingOK, WaitingRequest
  <2> QED
    BY <1>4, <2>1 DEF WaitingOK
<1>9. WaitingOK(n)
  BY <1>4, <1>5, <1>6, <1>7, <1>8 DEF WaitingOK
<1>10. Resume(r, n)
  BY <1>1, <1>2, <1>3 DEF EntriesArrive
<1> QED
  BY <1>9, <1>10, ResumeStep

LEMMA VerifiedStep ==
    ASSUME BoardInv, NEW r \in Request, NEW ok \in BOOLEAN, Verified(r, ok)
    PROVE  BoardInv'
<1>1. PICK q : q = request[r]
  OBVIOUS
<1>2. PICK n : n = [q EXCEPT !.authed = ok]
  OBVIOUS
<1>3. WaitingOK(q)
  BY <1>1, WaitingType DEF Verified
<1>4. n \in WaitingRequest
  BY <1>2, <1>3 DEF WaitingOK, WaitingRequest
<1>5. n.pool = q.pool /\ n.roster = q.roster /\ n.entries = q.entries
  BY <1>2, <1>3 DEF WaitingOK, WaitingRequest
<1>6. n.authed # Awaited /\ n.authed => n.proof
  <2>1. n = [step |-> q.step, kind |-> q.kind, pool |-> q.pool, caller |-> q.caller,
             proof |-> q.proof, roster |-> q.roster, entries |-> q.entries, authed |-> ok]
    BY <1>2, <1>3 DEF WaitingOK, WaitingRequest
  <2>2. ok => q.proof
    BY <1>1 DEF Verified
  <2> QED
    BY <2>1, <2>2
<1>7. WaitingOK(n)
  BY <1>3, <1>4, <1>5, <1>6 DEF WaitingOK
<1>8. Resume(r, n)
  BY <1>1, <1>2 DEF Verified
<1> QED
  BY <1>7, <1>8, ResumeStep

LEMMA RevealStep ==
    ASSUME BoardInv, NEW e \in RevealedEntry, Reveal(e)
    PROVE  BoardInv'
<1>1. UNCHANGED <<rosterVars, request>> /\ shown' = shown \cup {e}
  BY DEF Reveal
<1>2. PoolsStay /\ MembersStay /\ RosterInv'
  <2>1. [RosterNext]_rosterVars
    BY <1>1
  <2> QED
    BY <2>1, RosterKeeps DEF BoardInv
<1>3. IsFiniteSet(shown') /\ shown' \subseteq RevealedEntry
  BY <1>1, FS_AddElement DEF BoardInv
<1> QED
  BY <1>1, <1>2, <1>3, RequestsKept DEF BoardInv

LEMMA BoardStep ==
    ASSUME BoardInv, [Next]_vars
    PROVE  BoardInv'
<1>1. CASE [RosterNext]_rosterVars /\ UNCHANGED <<shown, request>>
  BY <1>1, RosterKeeps, RequestsKept DEF BoardInv
<1>2. ASSUME NEW e \in RevealedEntry, Reveal(e) PROVE BoardInv'
  BY <1>2, RevealStep
<1>3. ASSUME NEW f \in FixtureId, NEW e \in Event, ResultArrives(f, e) PROVE BoardInv'
  BY <1>1, <1>3 DEF ResultArrives
<1>4. ASSUME NEW r \in Request, NEW kind \in Kind, NEW p \in PoolId, NEW caller \in Wallet,
             NEW proof \in BOOLEAN, Ask(r, kind, p, caller, proof)
      PROVE  BoardInv'
  BY <1>4, AskStep
<1>5. ASSUME NEW r \in Request, EntriesArrive(r) PROVE BoardInv'
  BY <1>5, EntriesStep
<1>6. ASSUME NEW r \in Request, NEW ok \in BOOLEAN, Verified(r, ok) PROVE BoardInv'
  BY <1>6, VerifiedStep
<1>7. CASE UNCHANGED vars
  BY <1>1, <1>7 DEF vars
<1>8. ASSUME NEW r \in Request, NEW p \in PoolId, ListMembers(r, p) PROVE BoardInv'
  BY <1>8, ListMembersStep
<1> QED
  BY <1>1, <1>2, <1>3, <1>4, <1>5, <1>6, <1>7, <1>8 DEF Next

(* The invariant, in every state of every behaviour. *)
THEOREM BoardInvariant == Spec => []BoardInv
<1>1. Init => BoardInv
  BY InitInvariant, FS_EmptySet DEF Init, BoardInv, RequestOK
<1>2. BoardInv /\ [Next]_vars => BoardInv'
  BY BoardStep
<1> QED
  BY <1>1, <1>2, PTL DEF Spec

LEMMA AnsweredType ==
    ASSUME BoardInv, NEW r \in Request, request[r].step = "answered"
    PROVE  AnsweredOK(request[r])
BY DEF BoardInv, RequestOK, WaitingOK, WaitingRequest, NoRequest

(***************************************************************************)
(* A wallet on a board is a member of the pool at the time of the answer   *)
(* and after it (BoardsListMembers): the roster was read two awaits before *)
(* it is used, and nothing but requests leaves it in the meantime.         *)
(***************************************************************************)
THEOREM BoardsAreAboutMembers == Spec => []BoardsListMembers
<1>1. BoardInv => BoardsListMembers
  BY AnsweredType DEF BoardsListMembers, Answered, AnsweredOK, Wallets
<1> QED
  BY <1>1, BoardInvariant, PTL

(***************************************************************************)
(* Who gets a board with e-mails proved its wallet and is a member or the  *)
(* organizer (BoardEmailsAreForThePool), though the roster was read before *)
(* the token was verified.  The list of members is not a board: its        *)
(* e-mails go to whoever asks.                                             *)
(***************************************************************************)
THEOREM BoardEmailsReachThePool == Spec => []BoardEmailsAreForThePool
<1>1. BoardInv => BoardEmailsAreForThePool
  BY AnsweredType DEF BoardEmailsAreForThePool, Answered, AnsweredOK
<1> QED
  BY <1>1, BoardInvariant, PTL

(***************************************************************************)
(* Ranks, hits and points fit together on every board (RanksCountTheBetter)*)
(* for any number of wallets, entries and results: ties share a place, and *)
(* as many places are left out as there are ties.                          *)
(***************************************************************************)
THEOREM RanksAreRight == Spec => []RanksCountTheBetter
<1>1. BoardInv => RanksCountTheBetter
  BY AnsweredType DEF RanksCountTheBetter, Answered, AnsweredOK, RanksRight, AheadOf, SumOfHits
<1> QED
  BY <1>1, BoardInvariant, PTL

(***************************************************************************)
(* The handlers only read the roster, so whatever it promises holds while  *)
(* boards are asked for and answered.                                      *)
(***************************************************************************)
THEOREM BoardsUseTheRoster == Spec => RosterSpec
<1>1. Init => RosterInit
  BY DEF Init
<1>2. [Next]_vars => [RosterNext]_rosterVars
  BY DEF Next, vars, Reveal, ResultArrives, ListMembers, Ask, EntriesArrive, Verified, Resume
<1> QED
  BY <1>1, <1>2, PTL DEF Spec, RosterSpec

(* What a gated pool shows: nobody its organizer did not let in.  *)
GatedBoardsAreApproved ==
    \A r \in Request : request[r].step = "answered" /\ pools[request[r].pool].gated =>
        \A w \in Wallets(request[r]) : <<request[r].pool, w>> \in approved

(***************************************************************************)
(* A wallet on a gated pool's list, standings or picks board was let in    *)
(* by the organizer, whatever entries strangers have on the chain and      *)
(* whenever the board's roster was read.                                   *)
(***************************************************************************)
THEOREM GatedPoolsShowApproved == Spec => []GatedBoardsAreApproved
<1>1. BoardInv => GatedBoardsAreApproved
  BY AnsweredType DEF GatedBoardsAreApproved, AnsweredOK, BoardInv, RosterInv, GatedNeedsApproval
<1> QED
  BY <1>1, BoardInvariant, PTL

-----------------------------------------------------------------------------
(* The page a participant watches (PoolView).                                *)

(* A commit under way knows its match. *)
ViewAttempt == {NoAttempt} \cup [step : {"sending", "posting"}, match : Match]

ViewInv == ViewTypeOK /\ attempt \in [Try -> ViewAttempt]

LEMMA InitViewInv == ViewInit => ViewInv
<1> SUFFICES ASSUME ViewInit PROVE ViewInv
  OBVIOUS
<1>1. PICK kickoffs \in [Match -> Kickoff] : schedule = <<kickoffs>>
  BY DEF ViewInit
<1>2. schedule \in Seq([Match -> Kickoff]) /\ Len(schedule) = 1
  BY <1>1
<1>3. /\ account \in [Match -> Entries] /\ deadline \in [Match -> Kickoff]
      /\ now \in Nat /\ nowTs \in 0..now
  BY ViewConstants DEF ViewInit
<1> QED
  BY <1>2, <1>3 DEF ViewInit, ViewInv, ViewTypeOK, ViewAttempt, NoAttempt, Under, live

(* What a step does to the rows: none opens again but by a later kickoff. *)
RowsHold ==
    \A m \in Match : fixtureStatus(m) # "open" /\ fixtureStatus(m)' = "open" =>
        ~Saved(markers[m]) /\ LaterKickoff(m)

(* The kickoff of a row on the page is a time. *)
LEMMA KickoffIsATime ==
    ASSUME NEW s \in Seq([Match -> Kickoff]), NEW v \in 1..Len(s), NEW m \in Match
    PROVE  s[v][m] \in Nat
<1>1. s[v] \in [Match -> Kickoff]
  OBVIOUS
<1> QED
  BY <1>1, ViewConstants

(* Rows hold while the clock and the markers only move on: what opens a row  *)
(* that was too late is the kickoff of the list.                             *)
LEMMA RowsHoldIf ==
    ASSUME ViewTypeOK, ViewTypeOK', nowTs <= nowTs',
           list # Nothing => list' # Nothing,
           \A m \in Match : Saved(markers[m]) => Saved(markers'[m])
    PROVE  RowsHold
<1> SUFFICES ASSUME NEW m \in Match, fixtureStatus(m) # "open", fixtureStatus(m)' = "open"
             PROVE  ~Saved(markers[m]) /\ LaterKickoff(m)
  BY DEF RowsHold
<1>1. ~Saved(markers'[m]) /\ ~Locked(m)'
  BY DEF fixtureStatus, Saved
<1>2. ~Saved(markers[m])
  BY <1>1
<1>3. Locked(m)
  BY <1>2 DEF fixtureStatus, Saved
<1>4. list # Nothing /\ list' # Nothing /\ nowTs >= schedule[list][m]
  BY <1>3 DEF Locked
<1>5. ~(nowTs' >= schedule'[list'][m])
  BY <1>1, <1>4 DEF Locked
<1>6. schedule[list][m] \in Nat
  <2>1. schedule \in Seq([Match -> Kickoff]) /\ list \in 1..Len(schedule)
    BY <1>4 DEF ViewTypeOK, live
  <2> QED
    BY <2>1, KickoffIsATime
<1>7. schedule'[list'][m] \in Nat
  <2>1. PICK s, v : s = schedule' /\ v = list'
    OBVIOUS
  <2>2. s \in Seq([Match -> Kickoff]) /\ v \in 1..Len(s)
    BY <1>4, <2>1 DEF ViewTypeOK, live
  <2> QED
    BY <2>1, <2>2, KickoffIsATime
<1>8. nowTs \in Nat /\ nowTs' \in Nat
  BY DEF ViewTypeOK
<1> QED
  BY <1>2, <1>4, <1>5, <1>6, <1>7, <1>8 DEF LaterKickoff

(* A render reads the clock, which only moves on. *)
LEMMA RenderMovesOn ==
    ASSUME ViewTypeOK, UNCHANGED now, nowTs' \in {nowTs, now}
    PROVE  nowTs' \in 0..now' /\ nowTs <= nowTs'
BY DEF ViewTypeOK

(* The steps that touch no row: what happens elsewhere, answers on their way.*)
LEMMA WorldInv ==
    ASSUME ViewInv, \/ Tick
                    \/ \E m \in Match, to \in Entries : AccountMoves(m, to)
                    \/ \E kickoffs \in [Match -> Kickoff] : ListChanges(kickoffs)
    PROVE  ViewInv' /\ RowsHold
<1>1. UNCHANGED <<list, listAnswers, fixturesError, entryVars, rankVars, rowVars, nowTs, deadline>>
  BY DEF Tick, AccountMoves, ListChanges, listVars
<1>2. account' \in [Match -> Entries]
  BY DEF Tick, AccountMoves, ListChanges, ViewInv, ViewTypeOK, Entries
<1>3. now \in Nat /\ now' \in Nat /\ now <= now'
  BY DEF Tick, AccountMoves, ListChanges, ViewInv, ViewTypeOK
<1> DEFINE Grows ==
               /\ schedule' \in Seq([Match -> Kickoff])
               /\ Len(schedule) \in Nat /\ Len(schedule') \in Nat
               /\ Len(schedule) <= Len(schedule') /\ Len(schedule) >= 1
<1>4. Grows
  <2>1. schedule \in Seq([Match -> Kickoff]) /\ Len(schedule) >= 1
    BY DEF ViewInv, ViewTypeOK, live
  <2>2. CASE UNCHANGED schedule
    BY <2>1, <2>2
  <2>3. ASSUME NEW kickoffs \in [Match -> Kickoff], schedule' = Append(schedule, kickoffs)
        PROVE  Grows
    BY <2>1, <2>3
  <2> QED
    BY <2>2, <2>3 DEF Tick, AccountMoves, ListChanges
<1>5. 1..live \subseteq 1..live'
  BY <1>4 DEF live
<1>6. nowTs \in 0..now'
  BY <1>3 DEF ViewInv, ViewTypeOK
<1>7. ViewTypeOK'
  BY <1>1, <1>2, <1>3, <1>4, <1>5, <1>6
  DEF ViewInv, ViewTypeOK, entryVars, rankVars, rowVars, Under, live
<1>8. nowTs <= nowTs'
  BY <1>1 DEF ViewInv, ViewTypeOK
<1>9. RowsHold
  BY <1>1, <1>7, <1>8, RowsHoldIf DEF entryVars, ViewInv
<1> QED
  BY <1>1, <1>7, <1>9 DEF ViewInv, rowVars

(* The list's poll. *)
LEMMA ListInv ==
    ASSUME ViewInv,
           ListAnswered \/ ListFails \/ \E version \in Version : ListArrives(version)
    PROVE  ViewInv' /\ RowsHold
<1>1. UNCHANGED <<worldVars, markers, rankVars, attempt>>
  BY DEF ListAnswered, ListFails, ListArrives, entryVars, rowVars
<1>2. /\ live \in Nat
      /\ list' \in 1..live \cup {Nothing}
      /\ listAnswers' \subseteq 1..live
  <2>1. /\ live \in Nat /\ live \in 1..live
        /\ list \in 1..live \cup {Nothing} /\ listAnswers \subseteq 1..live
    BY DEF ViewInv, ViewTypeOK, live
  <2>2. CASE ListAnswered
    BY <2>1, <2>2 DEF ListAnswered
  <2>3. CASE ListFails
    BY <2>1, <2>3 DEF ListFails
  <2>4. ASSUME NEW version \in Version, ListArrives(version)
        PROVE  list' \in 1..live \cup {Nothing} /\ listAnswers' \subseteq 1..live
    BY <2>1, <2>4 DEF ListArrives
  <2> QED
    BY <2>1, <2>2, <2>3, <2>4
<1>3. reading' \in [Match -> Entries \cup {"asked", "failed"}] \cup {Nothing}
  BY DEF ListAnswered, ListFails, ListArrives, ViewInv, ViewTypeOK, entryVars, ReadingAfterList
<1>4. busy' \subseteq busy
  BY DEF ListAnswered, ListFails, ListArrives, RowsLeave, rowVars
<1>5. nowTs' \in 0..now' /\ nowTs <= nowTs'
  BY <1>1, RenderMovesOn
  DEF ListAnswered, ListFails, ListArrives, Render, ViewInv, worldVars
<1>6. ViewTypeOK'
  BY <1>1, <1>2, <1>3, <1>4, <1>5 DEF ViewInv, ViewTypeOK, worldVars, rankVars, Under, live
<1>7. list # Nothing => list' # Nothing
  BY ViewConstants DEF ListAnswered, ListFails, ListArrives, Version
<1>8. RowsHold
  BY <1>1, <1>5, <1>6, <1>7, RowsHoldIf DEF ViewInv
<1> QED
  BY <1>1, <1>6, <1>8 DEF ViewInv

(* Merge keeps what the row was told. *)
LEMMA MergeKeeps ==
    ASSUME NEW marker \in Entries \cup {"unknown"}, NEW answer \in Entries \cup {"failed"}
    PROVE  /\ Merge(marker, answer) \in Entries
           /\ Saved(marker) => Saved(Merge(marker, answer))
BY DEF Saved, Merge, Null, Entries

(* The markers' effect. *)
LEMMA EntriesInv ==
    ASSUME ViewInv,
           EntriesRead \/ \E m \in Match : ReadAnswered(m) \/ ReadFails(m)
    PROVE  ViewInv' /\ RowsHold
<1>1. UNCHANGED <<worldVars, listVars, rankVars, rowVars>>
  BY DEF EntriesRead, ReadAnswered, ReadFails
<1>2. nowTs' \in 0..now' /\ nowTs <= nowTs'
  BY <1>1, RenderMovesOn DEF EntriesRead, ReadAnswered, ReadFails, Render, ViewInv, worldVars
<1>3. reading' \in [Match -> Entries \cup {"asked", "failed"}] \cup {Nothing}
  BY DEF EntriesRead, ReadAnswered, ReadFails, ViewInv, ViewTypeOK
<1>4. /\ markers' \in [Match -> Entries \cup {"unknown"}]
      /\ \A m \in Match : Saved(markers[m]) => Saved(markers'[m])
  <2>1. CASE UNCHANGED markers
    BY <2>1 DEF ViewInv, ViewTypeOK
  <2>2. CASE EntriesRead
    <3>1. \A m \in Match : /\ reading[m] \in Entries \cup {"failed"}
                          /\ markers[m] \in Entries \cup {"unknown"}
      BY <2>2 DEF EntriesRead, ViewInv, ViewTypeOK
    <3>2. markers' = [m \in Match |-> Merge(markers[m], reading[m])]
      BY <2>2 DEF EntriesRead
    <3> QED
      BY <3>1, <3>2, MergeKeeps
  <2> QED
    BY <2>1, <2>2 DEF ReadAnswered, ReadFails
<1>5. ViewTypeOK'
  BY <1>1, <1>2, <1>3, <1>4
  DEF ViewInv, ViewTypeOK, worldVars, listVars, rankVars, rowVars, Under, live
<1>6. RowsHold
  BY <1>1, <1>2, <1>4, <1>5, RowsHoldIf DEF ViewInv, listVars
<1> QED
  BY <1>1, <1>5, <1>6 DEF ViewInv, rowVars

(* The tabs and the ranking's poll. *)
LEMMA RankingInv ==
    ASSUME ViewInv,
           \/ \E t \in {"jogos", "ranking"} : OpenTab(t)
           \/ RankingAnswered \/ RankingFails \/ \E version \in Version : RankingArrives(version)
    PROVE  ViewInv' /\ RowsHold
<1>1. UNCHANGED <<worldVars, listVars, entryVars, attempt>>
  BY DEF OpenTab, RankingAnswered, RankingFails, RankingArrives, rowVars
<1>2. nowTs' \in 0..now' /\ nowTs <= nowTs' /\ busy' \subseteq busy
  <2>1. nowTs' \in {nowTs, now} /\ busy' \subseteq busy
    BY DEF OpenTab, RankingAnswered, RankingFails, RankingArrives, Render, RowsLeave, rowVars
  <2> QED
    BY <1>1, <2>1, RenderMovesOn DEF ViewInv, worldVars
<1> DEFINE Ranked ==
               /\ tab' \in {"jogos", "ranking"}
               /\ standings' \in 1..live \cup {Nothing}
               /\ rankAnswers' \subseteq 1..live
               /\ tab' # "ranking" => rankAnswers' = {}
<1>3. Ranked
  <2>1. live \in Nat /\ live \in 1..live
    BY DEF ViewInv, ViewTypeOK, live
  <2>2. CASE \E t \in {"jogos", "ranking"} : OpenTab(t)
    BY <2>2 DEF OpenTab, Cancelled, ViewInv, ViewTypeOK
  <2>3. CASE RankingAnswered
    BY <2>1, <2>3 DEF RankingAnswered, ViewInv, ViewTypeOK
  <2>4. CASE RankingFails
    BY <2>4 DEF RankingFails, ViewInv, ViewTypeOK
  <2>5. ASSUME NEW version \in Version, RankingArrives(version)
        PROVE  Ranked
    BY <2>5 DEF RankingArrives, ViewInv, ViewTypeOK
  <2> QED
    BY <2>2, <2>3, <2>4, <2>5
<1>4. ViewTypeOK'
  BY <1>1, <1>2, <1>3 DEF ViewInv, ViewTypeOK, worldVars, listVars, entryVars, Under, live
<1>5. RowsHold
  BY <1>1, <1>2, <1>4, RowsHoldIf DEF ViewInv, listVars, entryVars
<1> QED
  BY <1>1, <1>4, <1>5 DEF ViewInv

(* The commit of a pick. *)
LEMMA CommitInv ==
    ASSUME ViewInv, NEW t \in Try,
           CommitStep(t) \/ \E m \in Match : PressCommit(t, m)
    PROVE  ViewInv' /\ RowsHold
<1>1. UNCHANGED <<deadline, schedule, now, listVars, reading, rankVars>>
  BY DEF CommitStep, CommitReturns, CommitThrows, Posted, PressCommit, worldVars, entryVars
<1>2. nowTs' \in 0..now' /\ nowTs <= nowTs'
  BY <1>1, RenderMovesOn
  DEF CommitStep, CommitReturns, CommitThrows, Posted, PressCommit, Render, ViewInv
<1> DEFINE Tried ==
               /\ account' \in [Match -> Entries]
               /\ markers' \in [Match -> Entries \cup {"unknown"}]
               /\ \A m \in Match : Saved(markers[m]) => Saved(markers'[m])
               /\ attempt' \in [Try -> ViewAttempt]
               /\ busy' \subseteq {u \in Try : attempt'[u].step # "idle"}
               /\ \A u, v \in busy' : u # v => attempt'[u].match # attempt'[v].match
<1>3. /\ account \in [Match -> Entries] /\ markers \in [Match -> Entries \cup {"unknown"}]
      /\ attempt \in [Try -> ViewAttempt]
      /\ busy \subseteq {u \in Try : attempt[u].step # "idle"}
      /\ \A u, v \in busy : u # v => attempt[u].match # attempt[v].match
  BY DEF ViewInv, ViewTypeOK, Under
<1>4. ASSUME NEW m \in Match, PressCommit(t, m) PROVE Tried
  <2>1. /\ attempt' = [attempt EXCEPT ![t] = [step |-> "sending", match |-> m]]
        /\ busy' = busy \cup {t}
        /\ \A b \in busy : attempt[b].match # m
        /\ attempt[t].step = "idle"
        /\ UNCHANGED <<account, markers>>
    BY <1>4 DEF PressCommit, Under, worldVars, entryVars
  <2>2. t \notin busy
    BY <1>3, <2>1
  <2>3. /\ attempt'[t] = [step |-> "sending", match |-> m]
        /\ \A u \in Try : u # t => attempt'[u] = attempt[u]
    BY <1>3, <2>1
  <2>4. attempt' \in [Try -> ViewAttempt]
    BY <1>3, <2>1 DEF ViewAttempt
  <2>5. busy' \subseteq {u \in Try : attempt'[u].step # "idle"}
    BY <1>3, <2>1, <2>3
  <2>6. \A u, v \in busy' : u # v => attempt'[u].match # attempt'[v].match
    BY <1>3, <2>1, <2>2, <2>3
  <2> QED
    BY <1>3, <2>1, <2>4, <2>5, <2>6
<1>5. ASSUME attempt[t].step # "idle" PROVE attempt[t].match \in Match
  BY <1>3, <1>5 DEF ViewAttempt, NoAttempt
<1>6. ASSUME CommitReturns(t) PROVE Tried
  <2>1. attempt[t].step = "sending" /\ attempt[t].match \in Match
    BY <1>5, <1>6 DEF CommitReturns
  <2>2. /\ account' \in {account, [account EXCEPT ![attempt[t].match] = "committed"]}
        /\ attempt' = [attempt EXCEPT ![t] = [step |-> "posting", match |-> attempt[t].match]]
        /\ UNCHANGED <<busy, markers>>
    BY <1>6 DEF CommitReturns, Step, entryVars
  <2>3. account' \in [Match -> Entries]
    BY <1>3, <2>2 DEF Entries
  <2>4. attempt' \in [Try -> ViewAttempt]
    BY <1>3, <2>1, <2>2 DEF ViewAttempt
  <2>5. \A u \in Try : attempt[u].step # "idle" =>
            attempt'[u].step # "idle" /\ attempt'[u].match = attempt[u].match
    BY <1>3, <2>2
  <2>6. busy' \subseteq {u \in Try : attempt'[u].step # "idle"}
    BY <1>3, <2>2, <2>5
  <2>7. \A u, v \in busy' : u # v => attempt'[u].match # attempt'[v].match
    BY <1>3, <2>2, <2>5
  <2>8. /\ markers' \in [Match -> Entries \cup {"unknown"}]
        /\ \A m \in Match : Saved(markers[m]) => Saved(markers'[m])
    BY <1>3, <2>2
  <2> QED
    BY <2>3, <2>4, <2>6, <2>7, <2>8
<1>7. ASSUME CommitThrows(t) \/ Posted(t) PROVE Tried
  <2>1. attempt[t].match \in Match
    BY <1>5, <1>7 DEF CommitThrows, Posted
  <2>2. /\ attempt' = [attempt EXCEPT ![t] = NoAttempt]
        /\ busy' = busy \ {t}
        /\ account' = account
        /\ markers' \in {markers, [markers EXCEPT ![attempt[t].match] = "committed"]}
    BY <1>7 DEF CommitThrows, Posted, Finish, worldVars, entryVars
  <2>3. attempt' \in [Try -> ViewAttempt] /\ \A u \in busy' : attempt'[u] = attempt[u]
    BY <1>3, <2>2 DEF ViewAttempt
  <2>4. /\ markers' \in [Match -> Entries \cup {"unknown"}]
        /\ \A m \in Match : Saved(markers[m]) => Saved(markers'[m])
    BY <1>3, <2>1, <2>2 DEF Saved, Entries
  <2>5. busy' \subseteq {u \in Try : attempt'[u].step # "idle"}
    BY <1>3, <2>2, <2>3
  <2>6. \A u, v \in busy' : u # v => attempt'[u].match # attempt'[v].match
    BY <1>3, <2>2, <2>3
  <2>7. account' \in [Match -> Entries]
    BY <1>3, <2>2
  <2> QED
    BY <2>3, <2>4, <2>5, <2>6, <2>7
<1>8. Tried
  <2> HIDE DEF Tried
  <2> QED
    BY <1>4, <1>6, <1>7 DEF CommitStep
<1>9. ViewInv'
  BY <1>1, <1>2, <1>8 DEF ViewInv, ViewTypeOK, listVars, rankVars, Under, live
<1>10. RowsHold
  BY <1>1, <1>2, <1>8, <1>9, RowsHoldIf DEF ViewInv, listVars
<1> QED
  BY <1>9, <1>10

LEMMA ViewNextInv ==
    ASSUME ViewInv, [ViewNext]_viewVars
    PROVE  ViewInv' /\ RowsHold
<1>1. CASE UNCHANGED viewVars
  <2>1. ViewInv'
    BY <1>1 DEF viewVars, worldVars, listVars, entryVars, rankVars, rowVars, ViewInv, ViewTypeOK,
       Under, live
  <2>2. RowsHold
    BY <1>1
    DEF viewVars, worldVars, listVars, entryVars, RowsHold, fixtureStatus, Locked
  <2> QED
    BY <2>1, <2>2
<1> QED
  BY <1>1, WorldInv, ListInv, EntriesInv, RankingInv, CommitInv DEF ViewNext

(* The invariant, in every state of every behaviour. *)
THEOREM ViewInvariant == ViewSpec => []ViewInv
<1>1. ViewInv /\ [ViewNext]_viewVars => ViewInv'
  BY ViewNextInv
<1> QED
  BY <1>1, InitViewInv, PTL DEF ViewSpec

(***************************************************************************)
(* What the page shows was an answer at some time, and no two rows of the  *)
(* page wait for commits of one match (ViewTypeOK), with any number of     *)
(* commits under way from rows that left the page and came back.           *)
(***************************************************************************)
THEOREM ViewTypeCorrect == ViewSpec => []ViewTypeOK
<1>1. ViewInv => ViewTypeOK
  BY DEF ViewInv
<1> QED
  BY <1>1, ViewInvariant, PTL

(***************************************************************************)
(* A row whose pick is saved or shown is never offered again, and one that *)
(* was too late only when the list that arrives has a later kickoff for    *)
(* the match than the list before it (RowNeverReopens): no read that comes *)
(* late or fails takes back what a commit, an earlier read or the clock    *)
(* told the row.  Rescheduling may, also by an answer that is out of order.*)
(***************************************************************************)
THEOREM RowsNeverReopen == ViewSpec => RowNeverReopens
<1>1. ViewInv /\ [ViewNext]_viewVars =>
          [\A m \in Match : fixtureStatus(m) # "open" /\ fixtureStatus(m)' = "open" =>
               ~Saved(markers[m]) /\ LaterKickoff(m)]_viewVars
  BY ViewNextInv DEF RowsHold
<1> QED
  BY <1>1, ViewInvariant, PTL DEF ViewSpec, RowNeverReopens
=============================================================================
