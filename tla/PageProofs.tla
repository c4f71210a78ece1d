------------------------------ MODULE PageProofs ------------------------------
(***************************************************************************)
(* The lists of the page, for any tabs, feeds, pages and loads at once: no *)
(* post is twice in a list; what the keys move through is what the panel   *)
(* shows; paging skips no item; what sync announced is loaded; a reload    *)
(* finds the post the user was on.                                         *)
(*                                                                         *)
(* What an answer does to a list is said by Follows: the rows that were    *)
(* there stay in front, and what comes after them is the tab's.  It rests  *)
(* on the recursion of FoldLeft, which is proved first.  Then every step   *)
(* is summed up once as one of a few kinds (OneStep), and each invariant   *)
(* is shown against those.                                                 *)
(***************************************************************************)
EXTENDS Page, FiniteSetTheorems, SequenceTheorems, NaturalsInduction, WellFoundedInduction, TLAPS

USE TabsAssumption, FeedAssumption

-----------------------------------------------------------------------------
(***************************************************************************)
(* Induction over the numbers, with a set for the predicate: the           *)
(* theorems of the library that do the same take an operator.              *)
(***************************************************************************)
\* A set of numbers that has 0, and with a number the next one, has them all.
LEMMA Induction ==
    ASSUME NEW S, 0 \in S, \A n \in Nat : n \in S => n + 1 \in S
    PROVE  Nat \subseteq S
<1> SUFFICES ASSUME NEW m \in Nat, m \notin S PROVE FALSE
  OBVIOUS
<1> DEFINE T == Nat \ S
<1>1. IsWellFoundedOn(OpToRel(<, Nat), Nat)
  BY NatLessThanWellFounded
<1>2. T \subseteq Nat /\ T # {}
  OBVIOUS
<1>3. PICK x \in T : \A y \in T : ~(<<y, x>> \in OpToRel(<, Nat))
  BY <1>1, <1>2, WFMin
<1>4. \A y \in T : ~(y < x)
  BY <1>3 DEF OpToRel
<1>5. x # 0 /\ x - 1 \in Nat /\ x - 1 < x
  OBVIOUS
<1>6. x - 1 \in S
  BY <1>4, <1>5
<1> QED
  BY <1>5, <1>6

\* The largest of the first numbers, and what is left without it.
LEMMA FirstNumbers ==
    ASSUME NEW k \in Nat \ {0}
    PROVE  Max(1..k) = k /\ (1..k) \ {k} = 1..(k - 1) /\ 1..k # {}
<1>1. k \in 1..k /\ \A y \in 1..k : k >= y
  OBVIOUS
<1>2. Max(1..k) \in 1..k /\ \A y \in 1..k : Max(1..k) >= y
  BY <1>1 DEF Max
<1> QED
  BY <1>1, <1>2

\* The largest of some numbers that have an upper bound.
LEMMA MaxOf ==
    ASSUME NEW S \in SUBSET Nat, NEW x \in S, NEW n \in Nat, \A y \in S : y <= n
    PROVE  Max(S) \in S /\ \A y \in S : Max(S) >= y
<1> DEFINE T == {m \in Nat : (\E y \in S : y >= n - m) => \E y \in S : \A z \in S : y >= z}
<1>1. 0 \in T
  <2>1. ASSUME NEW y \in S, y >= n PROVE \A z \in S : y >= z
    BY <2>1
  <2> QED
    BY <2>1
<1>2. ASSUME NEW m \in Nat, m \in T PROVE m + 1 \in T
  <2> SUFFICES ASSUME NEW y \in S, y >= n - (m + 1) PROVE \E w \in S : \A z \in S : w >= z
    OBVIOUS
  <2>1. CASE \E w \in S : w >= n - m
    BY <1>2, <2>1
  <2>2. CASE ~ \E w \in S : w >= n - m
    <3>1. \A z \in S : z \in Int /\ ~(z >= n - m) /\ y \in Int
      BY <2>2
    <3>2. \A z \in S : y >= z
      BY <3>1
    <3> QED
      BY <3>2
  <2> QED
    BY <2>1, <2>2
<1> HIDE DEF T
<1>3. n \in T
  BY <1>1, <1>2, Induction
<1>4. x >= n - n
  OBVIOUS
<1>5. \E y \in S : \A z \in S : y >= z
  BY <1>3, <1>4 DEF T
<1> QED
  BY <1>5 DEF Max

\* What a fold is: one step for the last place of those that are left.
LOCAL IsFold(f, P, base, G) ==
    \A S \in SUBSET P : f[S] = IF S = {} THEN base ELSE G[<<f[S \ {Max(S)}], Max(S)>>]

\* There is one, whatever it is that it folds.
LEMMA FoldExists ==
    ASSUME NEW A, NEW base \in A, NEW n \in Nat, NEW G \in [A \X (1..n) -> A]
    PROVE  \E f \in [SUBSET (1..n) -> A] : IsFold(f, 1..n, base, G)
<1> DEFINE T == {m \in Nat : m <= n => \E f \in [SUBSET (1..m) -> A] : IsFold(f, 1..m, base, G)}
<1>1. 0 \in T
  <2> DEFINE f == [S \in SUBSET (1..0) |-> base]
  <2>1. \A S \in SUBSET (1..0) : S = {}
    OBVIOUS
  <2>2. f \in [SUBSET (1..0) -> A]
    OBVIOUS
  <2>3. IsFold(f, 1..0, base, G)
    BY <2>1 DEF IsFold
  <2> QED
    BY <2>2, <2>3
<1>2. ASSUME NEW m \in Nat, m \in T PROVE m + 1 \in T
  <2> SUFFICES ASSUME m + 1 <= n
               PROVE  \E f \in [SUBSET (1..(m + 1)) -> A] : IsFold(f, 1..(m + 1), base, G)
    <3>1. m + 1 \in Nat
      OBVIOUS
    <3> QED
      BY <3>1, Zenon
  <2>0. m <= n
    OBVIOUS
  <2>1. PICK f \in [SUBSET (1..m) -> A] : IsFold(f, 1..m, base, G)
    BY <1>2, <2>0, Zenon
  <2> DEFINE k == m + 1
             h == [S \in SUBSET (1..k) |->
                     IF k \in S THEN G[<<f[S \ {k}], k>>] ELSE f[S]]
  <2>2. k \in 1..n /\ k \in Nat /\ 1..k = (1..m) \cup {k} /\ k \notin 1..m
    OBVIOUS
  <2>3. \A y \in 1..k : y \in Nat /\ y <= k
    BY <2>2
  <2> HIDE DEF k
  <2>4. \A S \in SUBSET (1..k) : S \ {k} \in SUBSET (1..m) /\ (k \notin S => S \in SUBSET (1..m))
    BY <2>2
  <2>5. h \in [SUBSET (1..k) -> A]
    <3> SUFFICES ASSUME NEW S \in SUBSET (1..k)
                 PROVE  (IF k \in S THEN G[<<f[S \ {k}], k>>] ELSE f[S]) \in A
      OBVIOUS
    <3>1. f[S \ {k}] \in A /\ (k \notin S => f[S] \in A)
      BY <2>4
    <3>2. k \in S => <<f[S \ {k}], k>> \in A \X (1..n)
      BY <3>1, <2>2
    <3> QED
      BY <3>1, <3>2
  <2>6. ASSUME NEW S \in SUBSET (1..k), NEW x \in S PROVE Max(S) \in S /\ \A y \in S : Max(S) >= y
    BY <2>2, <2>3, MaxOf
  <2>7. ASSUME NEW S \in SUBSET (1..k)
        PROVE  h[S] = IF S = {} THEN base ELSE G[<<h[S \ {Max(S)}], Max(S)>>]
    <3>1. CASE k \in S
      <4>1. Max(S) \in S /\ Max(S) >= k /\ Max(S) \in Nat /\ Max(S) <= k
        BY <3>1, <2>3, <2>6
      <4>2. Max(S) = k
        BY <4>1, <2>2
      <4>3. S \ {k} \in SUBSET (1..k) /\ k \notin S \ {k}
        OBVIOUS
      <4>4. h[S \ {k}] = f[S \ {k}]
        BY <4>3
      <4> QED
        BY <3>1, <4>2, <4>4
    <3>2. CASE k \notin S
      <4>1. S \in SUBSET (1..m) /\ h[S] = f[S]
        BY <3>2, <2>4
      <4>2. f[S] = IF S = {} THEN base ELSE G[<<f[S \ {Max(S)}], Max(S)>>]
        BY <4>1, <2>1 DEF IsFold
      <4>3. S \ {Max(S)} \in SUBSET (1..k) /\ k \notin S \ {Max(S)}
        BY <3>2
      <4>4. h[S \ {Max(S)}] = f[S \ {Max(S)}]
        BY <4>3
      <4> QED
        BY <4>1, <4>2, <4>4
    <3> QED
      BY <3>1, <3>2
  <2> HIDE DEF h
  <2>8. IsFold(h, 1..k, base, G)
    BY <2>7 DEF IsFold
  <2> QED
    BY <2>5, <2>8 DEF k
<1> HIDE DEF T
<1>3. n \in T
  BY <1>1, <1>2, Induction
<1>4. n <= n
  OBVIOUS
<1> QED
  BY <1>3, <1>4, Zenon DEF T

-----------------------------------------------------------------------------
(***************************************************************************)
(* The folds of the page.                                                  *)
(***************************************************************************)
Uri  == UNION {Range(Shows[i]) : i \in DOMAIN Shows}
Row  == [tab : Tabs, uri : Uri]
Line == Seq(Row)

\* Another row, or none.
LEMMA PushType ==
    ASSUME NEW t \in Tabs, NEW s \in Line, NEW u \in Uri
    PROVE  Push(t, s, u) \in Line
<1> [tab |-> t, uri |-> u] \in Row
  BY DEF Row
<1> QED
  BY AppendProperties DEF Push, Line

\* PushAll pushes one after the other.
LEMMA PushAllSteps ==
    ASSUME NEW t \in Tabs, NEW s \in Line, NEW us \in Seq(Uri)
    PROVE  \E g : /\ \A k \in 0..Len(us) : g[k] \in Line
                  /\ g[0] = s
                  /\ \A k \in 1..Len(us) : g[k] = Push(t, g[k - 1], us[k])
                  /\ PushAll(t, s, us) = g[Len(us)]
<1> DEFINE n == Len(us)
           G == [p \in Line \X (1..n) |-> Push(t, p[1], us[p[2]])]
<1>1. n \in Nat /\ DOMAIN us = 1..n /\ \A k \in 1..n : us[k] \in Uri
  OBVIOUS
<1> HIDE DEF n
<1>2. G \in [Line \X (1..n) -> Line]
  BY <1>1, PushType
<1>3. \A r \in Line, k \in 1..n : G[<<r, k>>] = Push(t, r, us[k])
  OBVIOUS
<1> HIDE DEF G
<1>4. PICK f \in [SUBSET (1..n) -> Line] : IsFold(f, 1..n, s, G)
  BY <1>1, <1>2, FoldExists
<1>5. ASSUME NEW S \in SUBSET (1..n)
      PROVE  f[S] = IF S = {} THEN s ELSE Push(t, f[S \ {Max(S)}], us[Max(S)])
  <2>1. CASE S = {}
    BY <2>1, <1>4 DEF IsFold
  <2>2. CASE S # {}
    <3>0. S \in SUBSET Nat /\ \A y \in S : y <= n
      BY <1>1
    <3>1. Max(S) \in S
      BY <2>2, <3>0, <1>1, MaxOf
    <3>2. f[S \ {Max(S)}] \in Line
      OBVIOUS
    <3> QED
      BY <2>2, <3>1, <3>2, <1>3, <1>4 DEF IsFold
  <2> QED
    BY <2>1, <2>2
<1> DEFINE F(h) == [S \in SUBSET (1..n) |->
                      IF S = {} THEN s ELSE Push(t, h[S \ {Max(S)}], us[Max(S)])]
           h == CHOOSE h : h = F(h)
<1>6. f = F(f)
  BY <1>5
<1>7. h = F(h)
  BY <1>6
<1>8. PushAll(t, s, us) = h[1..n]
  BY <1>1 DEF PushAll, FoldLeft, MapThenFoldSet
<1> HIDE DEF h
<1> DEFINE g == [k \in 0..n |-> h[1..k]]
<1>9. g[0] = s /\ g[n] = h[1..n]
  <2>1. {} \in SUBSET (1..n) /\ 1..0 = {}
    OBVIOUS
  <2>2. h[{}] = s
    BY <1>7, <2>1
  <2> QED
    BY <2>1, <2>2, <1>1
<1>10. ASSUME NEW k \in 1..n PROVE g[k] = Push(t, g[k - 1], us[k])
  <2>1. k \in Nat \ {0} /\ 1..k \in SUBSET (1..n) /\ k - 1 \in 0..n /\ k \in 0..n
    BY <1>1
  <2>2. Max(1..k) = k /\ (1..k) \ {k} = 1..(k - 1) /\ 1..k # {}
    BY <2>1, FirstNumbers
  <2>3. h[1..k] = Push(t, h[(1..k) \ {Max(1..k)}], us[Max(1..k)])
    BY <2>1, <2>2, <1>7
  <2> QED
    BY <2>1, <2>2, <2>3
<1> HIDE DEF g
<1> DEFINE T == {k \in Nat : k <= n => g[k] \in Line}
<1>11. 0 \in T
  BY <1>9
<1>12. ASSUME NEW k \in Nat, k \in T PROVE k + 1 \in T
  <2> SUFFICES ASSUME k + 1 <= n PROVE g[k + 1] \in Line
    OBVIOUS
  <2>1. k + 1 \in 1..n /\ (k + 1) - 1 = k /\ k <= n
    BY <1>1
  <2>2. g[k] \in Line /\ us[k + 1] \in Uri
    BY <1>1, <1>12, <2>1
  <2> QED
    BY <2>1, <2>2, <1>10, PushType
<1>13. Nat \subseteq T
  <2> HIDE DEF T
  <2> QED
    BY <1>11, <1>12, Induction
<1>14. \A k \in 0..n : g[k] \in Line
  BY <1>1, <1>13
<1> QED
  BY <1>8, <1>9, <1>10, <1>14 DEF n

\* The list r is the list s with rows of the tab t after it, and has no post twice
\* when s has none.
Once(s)        == \A j, k \in DOMAIN s : j < k /\ s[k].tab # "notifications" => s[j].uri # s[k].uri
Grows(s, r)    == Len(s) <= Len(r) /\ \A k \in 1..Len(s) : r[k] = s[k]
Adds(t, s, r)  == \A k \in 1..Len(r) : k > Len(s) => r[k].tab = t
Follows(t, s, r) == r \in Line /\ Grows(s, r) /\ Adds(t, s, r) /\ (Once(s) => Once(r))

\* A list follows itself.
LEMMA FollowsItself ==
    ASSUME NEW t, NEW s \in Line
    PROVE  Follows(t, s, s)
BY DEF Follows, Grows, Adds, Line

\* What follows a list that follows another follows that one.
LEMMA FollowsOn ==
    ASSUME NEW t, NEW s \in Line, NEW r, NEW q, Follows(t, s, r), Follows(t, r, q)
    PROVE  Follows(t, s, q)
<1>1. r \in Line /\ q \in Line /\ Len(s) \in Nat /\ Len(r) \in Nat /\ Len(q) \in Nat
  BY DEF Follows, Line
<1>2. Grows(s, q)
  BY <1>1 DEF Follows, Grows
<1>3. Adds(t, s, q)
  <2> SUFFICES ASSUME NEW k \in 1..Len(q), k > Len(s) PROVE q[k].tab = t
    BY DEF Adds
  <2>1. CASE k > Len(r)
    BY <2>1 DEF Follows, Adds
  <2>2. CASE ~(k > Len(r))
    BY <2>2, <1>1 DEF Follows, Adds, Grows
  <2> QED
    BY <2>1, <2>2
<1> QED
  BY <1>1, <1>2, <1>3 DEF Follows

\* What a list has, it still has when it has grown.
LEMMA HasStays ==
    ASSUME NEW t, NEW s \in Line, NEW r, NEW u, Follows(t, s, r), Has(s, u)
    PROVE  Has(r, u)
<1>1. PICK k \in DOMAIN s : s[k].uri = u
  BY DEF Has
<1>2. k \in 1..Len(s) /\ r \in Line /\ Len(s) \in Nat /\ Len(r) \in Nat
  BY DEF Follows, Line
<1>3. k \in DOMAIN r /\ r[k] = s[k]
  BY <1>2 DEF Follows, Grows, Line
<1> QED
  BY <1>1, <1>3 DEF Has

\* A post put at the end of a list follows it, and is there (timeline.ts:43-73).
LEMMA PushFollows ==
    ASSUME NEW t \in Tabs, NEW s \in Line, NEW u \in Uri
    PROVE  Follows(t, s, Push(t, s, u)) /\ Has(Push(t, s, u), u)
<1> DEFINE x == [tab |-> t, uri |-> u]
           r == Append(s, x)
<1>1. CASE Has(s, u)
  BY <1>1, FollowsItself DEF Push
<1>2. CASE ~Has(s, u)
  <2>1. Push(t, s, u) = r /\ x \in Row /\ s \in Seq(Row) /\ x.tab = t /\ x.uri = u
    BY <1>2 DEF Push, Row, Line
  <2> HIDE DEF x
  <2>2. /\ r \in Line /\ Len(s) \in Nat /\ Len(r) = Len(s) + 1
        /\ DOMAIN s = 1..Len(s) /\ DOMAIN r = 1..Len(r)
        /\ r[Len(r)] = x /\ \A k \in 1..Len(s) : r[k] = s[k]
    BY <2>1, AppendProperties DEF Line
  <2> HIDE DEF r
  <2>3. Grows(s, r)
    BY <2>2 DEF Grows
  <2>4. Adds(t, s, r)
    BY <2>1, <2>2 DEF Adds
  <2>5. ASSUME Once(s) PROVE Once(r)
    <3> SUFFICES ASSUME NEW j \in DOMAIN r, NEW k \in DOMAIN r, j < k,
                        r[k].tab # "notifications"
                 PROVE  r[j].uri # r[k].uri
      BY DEF Once
    <3>1. j \in 1..Len(s) /\ j \in DOMAIN s /\ r[j] = s[j]
      BY <2>2
    <3>2. CASE k = Len(r)
      BY <3>1, <3>2, <2>1, <2>2, <1>2 DEF Has
    <3>3. CASE k # Len(r)
      <4>1. k \in DOMAIN s /\ r[k] = s[k]
        BY <3>3, <2>2
      <4> QED
        BY <4>1, <3>1, <2>5 DEF Once
    <3> QED
      BY <3>2, <3>3
  <2>6. Has(r, u)
    <3>1. Len(r) \in DOMAIN r
      BY <2>2
    <3> QED
      BY <3>1, <2>1, <2>2 DEF Has
  <2> QED
    BY <2>1, <2>2, <2>3, <2>4, <2>5, <2>6 DEF Follows
<1> QED
  BY <1>1, <1>2

\* PushAll grows the list, and what it is to push is there afterwards.
LEMMA PushAllFollows ==
    ASSUME NEW t \in Tabs, NEW s \in Line, NEW us \in Seq(Uri)
    PROVE  /\ Follows(t, s, PushAll(t, s, us))
           /\ \A j \in DOMAIN us : Has(PushAll(t, s, us), us[j])
           /\ us = <<>> => PushAll(t, s, us) = s
<1>1. PICK g : /\ \A k \in 0..Len(us) : g[k] \in Line
               /\ g[0] = s
               /\ \A k \in 1..Len(us) : g[k] = Push(t, g[k - 1], us[k])
               /\ PushAll(t, s, us) = g[Len(us)]
  BY PushAllSteps
<1> DEFINE n == Len(us)
           Good(k) == Follows(t, s, g[k]) /\ \A j \in 1..k : Has(g[k], us[j])
           T == {k \in Nat : k <= n => Good(k)}
<1>2. n \in Nat /\ DOMAIN us = 1..n /\ \A k \in 1..n : us[k] \in Uri
  OBVIOUS
<1> HIDE DEF n
<1>3. Good(0)
  BY <1>1, FollowsItself
<1>4. ASSUME NEW k \in Nat, k + 1 <= n, Good(k) PROVE Good(k + 1)
  <2>1. k + 1 \in 1..n /\ (k + 1) - 1 = k /\ k \in 0..n
    BY <1>2, <1>4
  <2>2. g[k] \in Line /\ g[k + 1] = Push(t, g[k], us[k + 1]) /\ us[k + 1] \in Uri
    BY <1>1, <1>2, <2>1 DEF n
  <2>3. Follows(t, g[k], g[k + 1]) /\ Has(g[k + 1], us[k + 1])
    BY <2>2, PushFollows
  <2>4. Follows(t, s, g[k + 1])
    BY <1>4, <2>3, FollowsOn
  <2>5. ASSUME NEW j \in 1..(k + 1) PROVE Has(g[k + 1], us[j])
    <3>1. CASE j = k + 1
      BY <3>1, <2>3
    <3>2. CASE j # k + 1
      <4>1. j \in 1..k
        BY <3>2
      <4> QED
        BY <4>1, <1>4, <2>2, <2>3, HasStays
    <3> QED
      BY <3>1, <3>2
  <2> QED
    BY <2>4, <2>5
<1> HIDE DEF Good
<1>5. 0 \in T
  BY <1>3
<1>6. ASSUME NEW k \in Nat, k \in T PROVE k + 1 \in T
  <2> SUFFICES ASSUME k + 1 <= n PROVE Good(k + 1)
    OBVIOUS
  <2>1. k <= n
    BY <1>2
  <2> QED
    BY <2>1, <1>4, <1>6
<1>7. Nat \subseteq T
  <2> HIDE DEF T
  <2> QED
    BY <1>5, <1>6, Induction
<1>8. Good(n)
  BY <1>2, <1>7
<1> QED
  BY <1>1, <1>2, <1>8 DEF Good, n

\* What an item of the feed shows, and the post of its own.
LEMMA ItemShows ==
    ASSUME NEW i \in 1..MaxTop
    PROVE  /\ Shows[i] \in Seq(Uri) /\ Own(i) \in Uri
           /\ \E k \in DOMAIN Shows[i] : Shows[i][k] = Own(i)
<1>1. Shows[i] \in Seq(Nat \ {0}) /\ Shows[i] # <<>> /\ i \in DOMAIN Shows
  BY PostsAssumption
<1>2. \A k \in 1..Len(Shows[i]) : Shows[i][k] \in Uri
  <2> SUFFICES ASSUME NEW k \in 1..Len(Shows[i]) PROVE Shows[i][k] \in Range(Shows[i])
    BY <1>1 DEF Uri
  <2>1. k \in DOMAIN Shows[i]
    BY <1>1
  <2> QED
    BY <2>1 DEF Range
<1>3. Shows[i] \in Seq(Uri)
  BY <1>1, <1>2, SeqDef
<1>4. Len(Shows[i]) \in 1..Len(Shows[i]) /\ DOMAIN Shows[i] = 1..Len(Shows[i])
  BY <1>1, EmptySeq
<1>5. Own(i) = Shows[i][Len(Shows[i])]
  BY DEF Own, Last
<1> QED
  BY <1>2, <1>3, <1>4, <1>5

\* An item of the timeline adds to the list, and is there unless it is hidden.
LEMMA AddItemFollows ==
    ASSUME NEW s \in Line, NEW i \in 1..MaxTop
    PROVE  /\ Follows("timeline", s, AddItem(s, i))
           /\ Visible(i, hide) => Has(AddItem(s, i), Own(i))
<1>1. CASE Visible(i, hide) /\ ~Has(s, Own(i))
  <2>1. AddItem(s, i) = PushAll("timeline", s, Shows[i])
    BY <1>1 DEF AddItem
  <2>2. PICK k \in DOMAIN Shows[i] : Shows[i][k] = Own(i)
    BY ItemShows
  <2>3. Shows[i] \in Seq(Uri) /\ "timeline" \in Tabs
    BY ItemShows
  <2>4. /\ Follows("timeline", s, PushAll("timeline", s, Shows[i]))
        /\ \A j \in DOMAIN Shows[i] : Has(PushAll("timeline", s, Shows[i]), Shows[i][j])
    BY <2>3, PushAllFollows
  <2> QED
    BY <2>1, <2>2, <2>4
<1>2. CASE ~(Visible(i, hide) /\ ~Has(s, Own(i)))
  BY <1>2, FollowsItself DEF AddItem
<1> QED
  BY <1>1, <1>2

\* A page has the items from the newest to the oldest.
LEMMA PageIsSeq ==
    ASSUME NEW c \in Items, top \in Items
    PROVE  /\ Page(c) \in Seq(1..MaxTop) /\ Owns(c) \in Seq(Uri)
           /\ Newest(c) \in Items /\ Oldest(c) \in 1..(MaxTop + 1) /\ CursorAfter(c) \in Items
           /\ \A i \in Oldest(c)..Newest(c) : \E k \in DOMAIN Page(c) : Page(c)[k] = i
<1>1. /\ Newest(c) \in Items /\ Oldest(c) \in 1..(MaxTop + 1) /\ Oldest(c) <= Newest(c) + 1
      /\ CursorAfter(c) \in Items
  BY DEF Newest, Oldest, CursorAfter, Items
<1> DEFINE n == Newest(c)
           o == Oldest(c)
<1>2. n \in 0..MaxTop /\ o \in 1..(n + 1)
  BY <1>1 DEF Items
<1>3. Page(c) = [k \in 1..(n - o + 1) |-> n - k + 1]
  BY DEF Page
<1> HIDE DEF n, o
<1>4. /\ n - o + 1 \in Nat
      /\ \A k \in 1..(n - o + 1) : n - k + 1 \in 1..MaxTop
  BY <1>2
<1>5. Page(c) \in Seq(1..MaxTop)
  BY <1>3, <1>4, IsASeq
<1>6. DOMAIN Page(c) = 1..(n - o + 1)
  BY <1>3
<1>7. \A k \in 1..(n - o + 1) : Own(Page(c)[k]) \in Uri
  BY <1>3, <1>4, ItemShows
<1>8. Owns(c) \in Seq(Uri)
  <2>1. Owns(c) = [k \in 1..(n - o + 1) |-> Own(Page(c)[k])]
    BY <1>6 DEF Owns
  <2> QED
    BY <2>1, <1>4, <1>7, IsASeq
<1>9. ASSUME NEW i \in o..n PROVE \E k \in DOMAIN Page(c) : Page(c)[k] = i
  <2>1. n - i + 1 \in 1..(n - o + 1) /\ n - (n - i + 1) + 1 = i
    BY <1>2
  <2> QED
    BY <2>1, <1>3, <1>6
<1> QED
  BY <1>1, <1>5, <1>8, <1>9 DEF n, o

\* The timeline takes the items of a page one after the other.
LEMMA TimelineSteps ==
    ASSUME NEW s \in Line, NEW us \in Seq(1..MaxTop)
    PROVE  \E g : /\ \A k \in 0..Len(us) : g[k] \in Line
                  /\ g[0] = s
                  /\ \A k \in 1..Len(us) : g[k] = AddItem(g[k - 1], us[k])
                  /\ AddAll(s, us) = g[Len(us)]
<1> DEFINE n == Len(us)
           G == [p \in Line \X (1..n) |-> AddItem(p[1], us[p[2]])]
<1>1. n \in Nat /\ DOMAIN us = 1..n /\ \A k \in 1..n : us[k] \in 1..MaxTop
  OBVIOUS
<1> HIDE DEF n
<1>2. G \in [Line \X (1..n) -> Line]
  BY <1>1, AddItemFollows DEF Follows
<1>3. \A r \in Line, k \in 1..n : G[<<r, k>>] = AddItem(r, us[k])
  OBVIOUS
<1> HIDE DEF G
<1>4. PICK f \in [SUBSET (1..n) -> Line] : IsFold(f, 1..n, s, G)
  BY <1>1, <1>2, FoldExists
<1>5. ASSUME NEW S \in SUBSET (1..n)
      PROVE  f[S] = IF S = {} THEN s ELSE AddItem(f[S \ {Max(S)}], us[Max(S)])
  <2>1. CASE S = {}
    BY <2>1, <1>4 DEF IsFold
  <2>2. CASE S # {}
    <3>0. S \in SUBSET Nat /\ \A y \in S : y <= n
      BY <1>1
    <3>1. Max(S) \in S
      BY <2>2, <3>0, <1>1, MaxOf
    <3>2. f[S \ {Max(S)}] \in Line
      OBVIOUS
    <3> QED
      BY <2>2, <3>1, <3>2, <1>3, <1>4 DEF IsFold
  <2> QED
    BY <2>1, <2>2
<1> DEFINE F(h) == [S \in SUBSET (1..n) |->
                      IF S = {} THEN s ELSE AddItem(h[S \ {Max(S)}], us[Max(S)])]
           h == CHOOSE h : h = F(h)
<1>6. f = F(f)
  BY <1>5
<1>7. h = F(h)
  BY <1>6
<1>8. AddAll(s, us) = h[1..n]
  BY <1>1 DEF AddAll, FoldLeft, MapThenFoldSet
<1> HIDE DEF h
<1> DEFINE g == [k \in 0..n |-> h[1..k]]
<1>9. g[0] = s /\ g[n] = h[1..n]
  <2>1. {} \in SUBSET (1..n) /\ 1..0 = {}
    OBVIOUS
  <2>2. h[{}] = s
    BY <1>7, <2>1
  <2> QED
    BY <2>1, <2>2, <1>1
<1>10. ASSUME NEW k \in 1..n PROVE g[k] = AddItem(g[k - 1], us[k])
  <2>1. k \in Nat \ {0} /\ 1..k \in SUBSET (1..n) /\ k - 1 \in 0..n /\ k \in 0..n
    BY <1>1
  <2>2. Max(1..k) = k /\ (1..k) \ {k} = 1..(k - 1) /\ 1..k # {}
    BY <2>1, FirstNumbers
  <2>3. h[1..k] = AddItem(h[(1..k) \ {Max(1..k)}], us[Max(1..k)])
    BY <2>1, <2>2, <1>7
  <2> QED
    BY <2>1, <2>2, <2>3
<1> HIDE DEF g
<1> DEFINE T == {k \in Nat : k <= n => g[k] \in Line}
<1>11. 0 \in T
  BY <1>9
<1>12. ASSUME NEW k \in Nat, k \in T PROVE k + 1 \in T
  <2> SUFFICES ASSUME k + 1 <= n PROVE g[k + 1] \in Line
    OBVIOUS
  <2>1. k + 1 \in 1..n /\ (k + 1) - 1 = k /\ k <= n
    BY <1>1
  <2>2. g[k] \in Line /\ us[k + 1] \in 1..MaxTop
    BY <1>1, <1>12, <2>1
  <2> QED
    BY <2>1, <2>2, <1>10, AddItemFollows DEF Follows
<1>13. Nat \subseteq T
  <2> HIDE DEF T
  <2> QED
    BY <1>11, <1>12, Induction
<1>14. \A k \in 0..n : g[k] \in Line
  BY <1>1, <1>13
<1> QED
  BY <1>8, <1>9, <1>10, <1>14 DEF n

\* A page of the timeline adds to the list; all its items are there but the hidden.
LEMMA TimelineFollows ==
    ASSUME NEW s \in Line, NEW us \in Seq(1..MaxTop)
    PROVE  /\ Follows("timeline", s, AddAll(s, us))
           /\ \A j \in DOMAIN us :
                Visible(us[j], hide) =>
                  Has(AddAll(s, us), Own(us[j]))
           /\ us = <<>> => AddAll(s, us) = s
<1>1. PICK g : /\ \A k \in 0..Len(us) : g[k] \in Line
               /\ g[0] = s
               /\ \A k \in 1..Len(us) : g[k] = AddItem(g[k - 1], us[k])
               /\ AddAll(s, us) = g[Len(us)]
  BY TimelineSteps
<1> DEFINE n == Len(us)
           Good(k) == /\ Follows("timeline", s, g[k])
                      /\ \A j \in 1..k : Visible(us[j], hide) => Has(g[k], Own(us[j]))
           T == {k \in Nat : k <= n => Good(k)}
<1>2. n \in Nat /\ DOMAIN us = 1..n /\ \A k \in 1..n : us[k] \in 1..MaxTop
  OBVIOUS
<1> HIDE DEF n
<1>3. Good(0)
  BY <1>1, FollowsItself
<1>4. ASSUME NEW k \in Nat, k + 1 <= n, Good(k) PROVE Good(k + 1)
  <2>1. k + 1 \in 1..n /\ (k + 1) - 1 = k /\ k \in 0..n
    BY <1>2, <1>4
  <2>2. g[k] \in Line /\ g[k + 1] = AddItem(g[k], us[k + 1]) /\ us[k + 1] \in 1..MaxTop
    BY <1>1, <1>2, <2>1 DEF n
  <2>3. /\ Follows("timeline", g[k], g[k + 1])
        /\ Visible(us[k + 1], hide) => Has(g[k + 1], Own(us[k + 1]))
    BY <2>2, AddItemFollows
  <2>4. Follows("timeline", s, g[k + 1])
    BY <1>4, <2>3, FollowsOn
  <2>5. ASSUME NEW j \in 1..(k + 1), Visible(us[j], hide) PROVE Has(g[k + 1], Own(us[j]))
    <3>1. CASE j = k + 1
      BY <3>1, <2>3, <2>5
    <3>2. CASE j # k + 1
      <4>1. j \in 1..k
        BY <3>2
      <4> QED
        BY <4>1, <1>4, <2>2, <2>3, <2>5, HasStays
    <3> QED
      BY <3>1, <3>2
  <2> QED
    BY <2>4, <2>5
<1> HIDE DEF Good
<1>5. 0 \in T
  BY <1>3
<1>6. ASSUME NEW k \in Nat, k \in T PROVE k + 1 \in T
  <2> SUFFICES ASSUME k + 1 <= n PROVE Good(k + 1)
    OBVIOUS
  <2>1. k <= n
    BY <1>2
  <2> QED
    BY <2>1, <1>4, <1>6
<1>7. Nat \subseteq T
  <2> HIDE DEF T
  <2> QED
    BY <1>5, <1>6, Induction
<1>8. Good(n)
  BY <1>2, <1>7
<1> QED
  BY <1>1, <1>2, <1>8 DEF Good, n

\* Rows of notifications after a list, whatever they are, leave no other post twice.
LEMMA NotificationsFollow ==
    ASSUME NEW s \in Line, NEW q \in Line, \A k \in DOMAIN q : q[k].tab = "notifications"
    PROVE  Follows("notifications", s, s \o q)
<1> DEFINE r == s \o q
<1>1. /\ r \in Line /\ Len(s) \in Nat /\ Len(q) \in Nat /\ Len(r) = Len(s) + Len(q)
      /\ DOMAIN s = 1..Len(s) /\ DOMAIN r = 1..Len(r) /\ DOMAIN q = 1..Len(q)
      /\ \A k \in 1..Len(r) : r[k] = IF k <= Len(s) THEN s[k] ELSE q[k - Len(s)]
  BY DEF Line
<1> HIDE DEF r
<1>2. Grows(s, r)
  BY <1>1 DEF Grows
<1>3. Adds("notifications", s, r)
  BY <1>1 DEF Adds
<1>4. ASSUME Once(s) PROVE Once(r)
  <2> SUFFICES ASSUME NEW j \in DOMAIN r, NEW k \in DOMAIN r, j < k,
                      r[k].tab # "notifications"
               PROVE  r[j].uri # r[k].uri
    BY DEF Once
  <2>1. k <= Len(s)
    BY <1>1, <1>3 DEF Adds
  <2>2. j \in DOMAIN s /\ k \in DOMAIN s /\ r[j] = s[j] /\ r[k] = s[k]
    BY <1>1, <2>1
  <2> QED
    BY <2>2, <1>4 DEF Once
<1> QED
  BY <1>1, <1>2, <1>3, <1>4 DEF Follows, r

\* The rows of a page go after what the list has; of the timeline every item of the
\* page that is visible is there then.
LEMMA RowsFollow ==
    ASSUME NEW t \in Tabs, NEW s \in Line, NEW c \in Items, top \in Items
    PROVE  /\ Follows(t, s, Rows(t, s, c))
           /\ t = "timeline" => \A i \in Oldest(c)..Newest(c) :
                                  Visible(i, hide) => Has(Rows(t, s, c), Own(i))
           /\ Page(c) = <<>> => Rows(t, s, c) = s
<1>1. /\ Page(c) \in Seq(1..MaxTop) /\ Owns(c) \in Seq(Uri)
      /\ \A i \in Oldest(c)..Newest(c) : \E k \in DOMAIN Page(c) : Page(c)[k] = i
  BY PageIsSeq
<1>11. Page(c) = <<>> => Owns(c) = <<>>
  BY DEF Owns
<1>2. CASE t = "timeline"
  <2>1. Rows(t, s, c) = AddAll(s, Page(c))
    BY <1>2 DEF Rows
  <2>2. /\ Follows("timeline", s, Rows(t, s, c))
        /\ \A j \in DOMAIN Page(c) : Visible(Page(c)[j], hide) => Has(Rows(t, s, c), Own(Page(c)[j]))
        /\ Page(c) = <<>> => Rows(t, s, c) = s
    BY <2>1, <1>1, TimelineFollows
  <2> QED
    BY <1>1, <1>2, <2>2
<1>3. CASE t = "notifications"
  <2> DEFINE q == PushAll(t, <<>>, Owns(c))
  <2>1. Rows(t, s, c) = s \o q
    BY <1>3 DEF Rows
  <2>2. <<>> \in Line /\ Len(<<>>) = 0
    BY DEF Line
  <2>3. Follows(t, <<>>, q) /\ (Page(c) = <<>> => q = <<>>)
    BY <2>2, <1>1, <1>11, PushAllFollows
  <2>4. q \in Line /\ \A k \in DOMAIN q : q[k].tab = "notifications"
    BY <2>2, <2>3, <1>3 DEF Follows, Adds, Line
  <2> HIDE DEF q
  <2> QED
    BY <2>1, <2>3, <2>4, <1>3, NotificationsFollow DEF Line
<1>4. CASE t = "saved"
  <2>1. Rows(t, s, c) = PushAll(t, s, Owns(c))
    BY <1>4 DEF Rows
  <2> QED
    BY <2>1, <1>1, <1>11, <1>4, PushAllFollows
<1> QED
  BY <1>2, <1>3, <1>4

-----------------------------------------------------------------------------
(***************************************************************************)
(* Types.                                                                  *)
(***************************************************************************)
LoadType == [phase : {"off", "fetch", "restore"}, tab : Tabs, more : BOOLEAN, target : {0} \cup Uri,
             budget : 0..RestoreCap, from : Items, prev : {0} \cup Ids, back : Items, stage : Line,
             depth : 0..3, mark : Nat, seen : Items, was : BOOLEAN, owed : BOOLEAN]

Flags == [Tabs -> BOOLEAN]

\* A fresh load, and one of which the first page is not in.
Fresh(l)    == load[l].phase # "off" /\ ~load[l].more
Fetching(l) == load[l].phase = "fetch" /\ ~load[l].more

\* Only a fresh load looks for the place, not that of the saved posts, and one of the timeline has a list to put
\* back; no cursor is 1, below which there is nothing.
Sane(l) == /\ load[l].phase = "restore" => ~load[l].more /\ load[l].tab # "saved"
           /\ load[l].phase # "off" => load[l].depth # 0
           /\ Fresh(l) /\ load[l].tab = "timeline" => load[l].prev # 0
           /\ load[l].from # 1 /\ load[l].back # 1

\* The types of all variables, which TypeOK follows from.
Types == /\ tab \in Tabs /\ cur \in Ids /\ kept \in [Tabs -> Ids]
         /\ list \in [Ids -> Line] /\ shown \in [Tabs -> Line]
         /\ loaded \in Flags /\ pages \in [Tabs -> Nat] /\ cursor \in [Tabs -> Items]
         /\ load \in [Loads -> LoadType]
         /\ top \in Items /\ top >= FirstTop /\ head \in [Tabs -> Items] /\ news \in [Tabs -> Items]
         /\ clean \in Flags /\ halfway \in Flags /\ failed \in Flags
         /\ \A l \in Loads : Sane(l)
         /\ \A t \in Tabs : cursor[t] # 1

\* The fields of a load.
LEMMA LoadFields ==
    ASSUME load \in [Loads -> LoadType], NEW l \in Loads
    PROVE  /\ load[l].phase \in {"off", "fetch", "restore"} /\ load[l].tab \in Tabs
           /\ load[l].more \in BOOLEAN /\ load[l].target \in {0} \cup Uri
           /\ load[l].budget \in 0..RestoreCap /\ load[l].from \in Items
           /\ load[l].prev \in {0} \cup Ids /\ load[l].back \in Items /\ load[l].stage \in Line
           /\ load[l].depth \in 0..3 /\ load[l].mark \in Nat /\ load[l].seen \in Items
           /\ load[l].was \in BOOLEAN /\ load[l].owed \in BOOLEAN
           /\ load[l] \in LoadType
<1>1. load[l] \in LoadType
  OBVIOUS
<1> QED
  BY <1>1 DEF LoadType

\* A load that is not under way is a load.
LEMMA NoLoadType == /\ NoLoad \in LoadType /\ NoLoad.phase = "off"
                    /\ NoLoad.from = 0 /\ NoLoad.back = 0 /\ NoLoad.prev = 0
<1>1. <<>> \in Line /\ 0 \in Items /\ 0 \in 0..RestoreCap /\ 0 \in 0..3 /\ "timeline" \in Tabs
  BY DEF Line, Items
<1> QED
  BY <1>1 DEF NoLoad, LoadType

\* There are more names than references.
LEMMA Names ==
    /\ IsFiniteSet(Tabs) /\ Cardinality(Tabs) \in Nat \ {0}
    /\ Cardinality(Loads) \in Nat \ {0}
    /\ Ids = 1..(Cardinality(Tabs) + 2 * Cardinality(Loads) + 2)
    /\ 1..4 \subseteq Ids
<1>1. IsFiniteSet({"timeline", "notifications", "saved"})
  <2>1. IsFiniteSet({"timeline"})
    BY FS_Singleton
  <2>2. IsFiniteSet({"timeline"} \cup {"notifications"})
    BY <2>1, FS_AddElement
  <2>3. IsFiniteSet(({"timeline"} \cup {"notifications"}) \cup {"saved"})
    BY <2>2, FS_AddElement
  <2>4. {"timeline", "notifications", "saved"} = ({"timeline"} \cup {"notifications"}) \cup {"saved"}
    OBVIOUS
  <2> QED
    BY <2>3, <2>4, Zenon
<1>2. IsFiniteSet(Tabs)
  BY <1>1, FS_Subset
<1>3. Tabs # {} /\ Loads # {} /\ IsFiniteSet(Loads)
  BY LoadsAssumption
<1>4. Cardinality(Tabs) \in Nat \ {0} /\ Cardinality(Loads) \in Nat \ {0}
  BY <1>2, <1>3, FS_CardinalityType, FS_EmptySet
<1> QED
  BY <1>2, <1>4 DEF Ids

\* There is a name for a new list that no reference uses.
LEMMA NewListIsNew ==
    ASSUME Types
    PROVE  /\ NewList \in Ids /\ NewList # cur
           /\ \A t \in Tabs : NewList # kept[t]
           /\ \A l \in Loads : NewList # load[l].prev
<1> DEFINE K == {kept[t] : t \in Tabs}
           P == {load[l].prev : l \in Loads}
           U == {cur} \cup K \cup P
<1>1. /\ IsFiniteSet(Tabs) /\ IsFiniteSet(Loads) /\ Cardinality(Tabs) \in Nat
      /\ Cardinality(Loads) \in Nat
  BY Names, LoadsAssumption
<1>2. IsFiniteSet(K) /\ Cardinality(K) <= Cardinality(Tabs)
  <2> DEFINE f == [t \in Tabs |-> kept[t]]
  <2>1. f \in Surjection(Tabs, K)
    BY DEF Surjection
  <2> QED
    BY <2>1, <1>1, FS_Surjection
<1>3. IsFiniteSet(P) /\ Cardinality(P) <= Cardinality(Loads)
  <2> DEFINE f == [l \in Loads |-> load[l].prev]
  <2>1. f \in Surjection(Loads, P)
    BY DEF Surjection
  <2> QED
    BY <2>1, <1>1, FS_Surjection
<1> HIDE DEF K, P
<1>4. IsFiniteSet({cur}) /\ Cardinality({cur}) = 1
  BY FS_Singleton
<1>5. IsFiniteSet({cur} \cup K) /\ Cardinality({cur} \cup K) <= 1 + Cardinality(Tabs)
  <2>1. /\ Cardinality({cur} \cup K)
             = Cardinality({cur}) + Cardinality(K) - Cardinality({cur} \cap K)
        /\ IsFiniteSet({cur} \cup K) /\ IsFiniteSet({cur} \cap K)
    BY <1>2, <1>4, FS_Union, FS_Subset
  <2>2. Cardinality({cur} \cap K) \in Nat /\ Cardinality(K) \in Nat
    BY <2>1, <1>2, FS_CardinalityType
  <2> QED
    BY <2>1, <2>2, <1>1, <1>2, <1>4
<1>6. IsFiniteSet(U) /\ Cardinality(U) <= 1 + Cardinality(Tabs) + Cardinality(Loads)
  <2>1. /\ Cardinality(U)
             = Cardinality({cur} \cup K) + Cardinality(P) - Cardinality(({cur} \cup K) \cap P)
        /\ IsFiniteSet(U) /\ IsFiniteSet(({cur} \cup K) \cap P)
    BY <1>3, <1>5, FS_Union, FS_Subset
  <2>2. /\ Cardinality(({cur} \cup K) \cap P) \in Nat /\ Cardinality({cur} \cup K) \in Nat
        /\ Cardinality(P) \in Nat
    BY <2>1, <1>3, <1>5, FS_CardinalityType
  <2> QED
    BY <2>1, <2>2, <1>1, <1>3, <1>5
<1>7. \E n \in Ids : n \notin U
  <2> SUFFICES ASSUME Ids \subseteq U PROVE FALSE
    OBVIOUS
  <2>1. Cardinality(Ids) <= Cardinality(U) /\ Cardinality(U) \in Nat
    BY <1>6, FS_Subset, FS_CardinalityType
  <2>2. Cardinality(Ids) = Cardinality(Tabs) + 2 * Cardinality(Loads) + 2
    BY <1>1, FS_Interval DEF Ids
  <2> QED
    BY <2>1, <2>2, <1>1, <1>6
<1>8. NewList \in Ids /\ NewList \notin U
  BY <1>7 DEF NewList, K, P
<1> QED
  BY <1>8 DEF K, P

-----------------------------------------------------------------------------
(***************************************************************************)
(* What a step does to the loads.                                          *)
(***************************************************************************)
Others(l) == \A m \in Loads : m # l => load'[m] = load[m]

\* A fresh load of t begins, with c the current list.
Begins(l, t, c) ==
    /\ load' \in [Loads -> LoadType] /\ Others(l)
    /\ load[l].phase = "off"
    /\ load'[l].phase = "fetch" /\ load'[l].tab = t /\ ~load'[l].more
    /\ load'[l].depth = 1 /\ load'[l].from = 0 /\ load'[l].stage = <<>>
    /\ load'[l].prev = (IF t = "timeline" THEN c ELSE 0)
    /\ load'[l].back = cursor[t]
    /\ load'[l].was = (clean[t] /\ ~halfway[t])

\* A load that has met the item s is over, or has begun to look for the place.
Goes(l, s) ==
    /\ load' \in [Loads -> LoadType] /\ Others(l)
    /\ \/ load'[l] = NoLoad
       \/ /\ ~load[l].more
          /\ load'[l].phase = "restore" /\ load'[l].tab = load[l].tab /\ ~load'[l].more
          /\ load'[l].from = cursor'[load[l].tab] /\ load'[l].from # 0
          /\ load'[l].prev = load[l].prev /\ load'[l].back = load[l].back
          /\ load'[l].depth = load[l].depth /\ load'[l].was = load[l].was
          /\ load'[l].seen = s

\* What a load has met, once its answer is there.
Met(l) == IF load[l].depth = 1 THEN top ELSE load[l].seen

\* What replaces one load leaves the others alone.
LEMMA OneReplaced ==
    ASSUME load \in [Loads -> LoadType], NEW l \in Loads, NEW r \in LoadType,
           load' = [load EXCEPT ![l] = r]
    PROVE  load' \in [Loads -> LoadType] /\ Others(l) /\ load'[l] = r
BY DEF Others

\* What a fresh load begins with.
LEMMA FreshBegins ==
    ASSUME Types, NEW l \in Loads, NEW t \in Tabs, NEW u \in {0} \cup Uri, NEW c \in Ids,
           StartFresh(l, t, u, c)
    PROVE  Begins(l, t, c)
<1> DEFINE b == IF u = 0 THEN 0 ELSE Budget(pages[t])
           o == /\ u # 0 /\ clean[t] /\ ~halfway[t] /\ ~failed[t]
                /\ pages[t] < RestoreCap /\ Reached(t, u)
           p == IF t = "timeline" THEN c ELSE 0
           w == clean[t] /\ ~halfway[t]
           r == [NoLoad EXCEPT !.phase = "fetch", !.tab = t, !.target = u, !.depth = 1,
                               !.budget = b, !.prev = p, !.back = cursor[t], !.was = w, !.owed = o]
<1>1. b \in 0..RestoreCap
  <2>1. pages[t] \in Nat
    BY DEF Types
  <2> QED
    BY <2>1 DEF Budget
<1>2. o \in BOOLEAN /\ w \in BOOLEAN
  OBVIOUS
<1>3. p \in {0} \cup Ids /\ cursor[t] \in Items
  BY DEF Types
<1>4. load' = [load EXCEPT ![l] = r] /\ load[l].phase = "off"
  BY DEF StartFresh
<1> HIDE DEF b, o, p, w
<1>5. /\ r.phase = "fetch" /\ r.tab = t /\ ~r.more /\ r.depth = 1 /\ r.from = 0
      /\ r.stage = <<>> /\ r.prev = p /\ r.back = cursor[t] /\ r.was = w
  BY DEF NoLoad
<1>6. r \in LoadType
  <2> DEFINE q == [NoLoad EXCEPT !.phase = "fetch", !.tab = t, !.target = u, !.depth = 1]
  <2>1. q \in LoadType
    <3>1. 1 \in 0..3
      OBVIOUS
    <3> QED
      BY <3>1, NoLoadType DEF LoadType
  <2>2. r = [q EXCEPT !.budget = b, !.prev = p, !.back = cursor[t], !.was = w, !.owed = o]
    OBVIOUS
  <2> HIDE DEF q, r
  <2>3. [q EXCEPT !.budget = b, !.prev = p, !.back = cursor[t], !.was = w, !.owed = o] \in LoadType
    BY <2>1, <1>1, <1>2, <1>3 DEF LoadType
  <2> QED
    BY <2>2, <2>3
<1> HIDE DEF r
<1>7. load' \in [Loads -> LoadType] /\ Others(l) /\ load'[l] = r
  BY <1>4, <1>6, OneReplaced DEF Types
<1> QED
  BY <1>4, <1>5, <1>7 DEF Begins, p, w

\* A load with another newest item.
LEMMA LoadMeets ==
    ASSUME load \in [Loads -> LoadType], NEW l \in Loads, NEW s \in Items,
           NEW r, r = [load[l] EXCEPT !.seen = s]
    PROVE  /\ r \in LoadType /\ r.seen = s /\ r.tab = load[l].tab /\ r.more = load[l].more
           /\ r.phase = load[l].phase /\ r.from = load[l].from /\ r.stage = load[l].stage
           /\ r.prev = load[l].prev /\ r.back = load[l].back /\ r.depth = load[l].depth
           /\ r.was = load[l].was
           /\ (s = load[l].seen => r = load[l])
<1>1. load[l] \in LoadType
  OBVIOUS
<1> QED
  BY <1>1 DEF LoadType

\* Putting the user back ends the load, or asks for one more page from the cursor.
LEMMA RestoreGoes ==
    ASSUME load \in [Loads -> LoadType], NEW l \in Loads, ~load[l].more, NEW s \in Items,
           NEW r, r = [load[l] EXCEPT !.seen = s], NEW may,
           cursor' \in [Tabs -> Items], pages' \in [Tabs -> Nat], Restore(l, r, may)
    PROVE  Goes(l, s)
<1> DEFINE due == r.owed /\ r.seen - head[r.tab] <= PageSize
           x == [r EXCEPT !.phase = "restore", !.from = cursor'[r.tab],
                          !.mark = pages'[r.tab], !.stage = <<>>, !.owed = due]
<1> HIDE DEF due
<1>0. r \in LoadType
  BY LoadMeets
<1>1. r.tab \in Tabs
  BY <1>0 DEF LoadType
<1>2. /\ x \in LoadType
      /\ x.phase = "restore" /\ x.from = cursor'[r.tab] /\ x.tab = r.tab /\ x.more = r.more
      /\ x.prev = r.prev /\ x.back = r.back /\ x.depth = r.depth /\ x.seen = r.seen
      /\ x.was = r.was
  <2> DEFINE c == cursor'[r.tab]
             p == pages'[r.tab]
  <2>1. <<>> \in Line /\ c \in Items /\ p \in Nat /\ due \in BOOLEAN
    <3>1. <<>> \in Line
      BY DEF Line
    <3>2. c \in Items
      BY <1>1
    <3>3. p \in Nat
      BY <1>1
    <3>4. due \in BOOLEAN
      BY DEF due
    <3> QED
      BY <3>1, <3>2, <3>3, <3>4
  <2> HIDE DEF c, p
  <2>2. x = [r EXCEPT !.phase = "restore", !.from = c, !.mark = p, !.stage = <<>>, !.owed = due]
    BY DEF c, p
  <2> HIDE DEF x
  <2>3. x \in LoadType
    BY <1>0, <2>1, <2>2 DEF LoadType
  <2>4. /\ x.phase = "restore" /\ x.from = c /\ x.tab = r.tab /\ x.more = r.more
        /\ x.prev = r.prev /\ x.back = r.back /\ x.depth = r.depth /\ x.seen = r.seen
        /\ x.was = r.was
    BY <1>0, <2>1, <2>2 DEF LoadType
  <2> QED
    BY <2>3, <2>4 DEF c
<1>3. \/ load' = [load EXCEPT ![l] = NoLoad]
      \/ load' = [load EXCEPT ![l] = x] /\ cursor'[r.tab] # 0
  BY DEF Restore, due
<1> HIDE DEF x
<1>4. CASE load' = [load EXCEPT ![l] = NoLoad]
  BY <1>4, NoLoadType, OneReplaced DEF Goes
<1>5. CASE load' = [load EXCEPT ![l] = x] /\ cursor'[r.tab] # 0
  <2>1. load' \in [Loads -> LoadType] /\ Others(l) /\ load'[l] = x
    BY <1>2, <1>5, OneReplaced
  <2>2. /\ r.seen = s /\ r.tab = load[l].tab /\ r.more = load[l].more
        /\ r.prev = load[l].prev /\ r.back = load[l].back /\ r.depth = load[l].depth
        /\ r.was = load[l].was
    BY LoadMeets
  <2> QED
    BY <2>1, <2>2, <1>2, <1>5 DEF Goes
<1> QED
  BY <1>3, <1>4, <1>5

\* The first page ends a load, or goes on to put the user back; the tab is loaded.
LEMMA LoadedGoes ==
    ASSUME load \in [Loads -> LoadType], NEW l \in Loads, NEW s \in Items,
           NEW r, r = [load[l] EXCEPT !.seen = s],
           cursor' \in [Tabs -> Items], pages' \in [Tabs -> Nat], Loaded(l, r)
    PROVE  /\ Goes(l, s)
           /\ load[l].more \/ load[l].tab = "saved" => load'[l] = NoLoad
           /\ loaded' = [loaded EXCEPT ![load[l].tab] = TRUE]
           /\ head' = (IF load[l].more THEN head ELSE [head EXCEPT ![load[l].tab] = s])
           /\ failed' = (IF load[l].more THEN failed ELSE [failed EXCEPT ![load[l].tab] = FALSE])
<1>1. r.more = load[l].more /\ r.tab = load[l].tab /\ r.seen = s
  BY LoadMeets
<1>2. CASE r.more \/ r.tab = "saved"
  <2>1. load' = [load EXCEPT ![l] = NoLoad]
    BY <1>2 DEF Loaded
  <2>2. load' \in [Loads -> LoadType] /\ Others(l) /\ load'[l] = NoLoad
    BY <2>1, NoLoadType, OneReplaced
  <2> QED
    BY <2>2, <1>1 DEF Goes, Loaded
<1>3. CASE ~(r.more \/ r.tab = "saved")
  <2>1. Goes(l, s)
    BY <1>1, <1>3, RestoreGoes DEF Loaded
  <2> QED
    BY <2>1, <1>1, <1>3 DEF Loaded
<1> QED
  BY <1>2, <1>3

\* What comes after a list is what makes it the longer one.
LEMMA BeyondIs ==
    ASSUME NEW s \in Line, NEW r \in Line, Grows(s, r)
    PROVE  Beyond(s, r) \in Line /\ s \o Beyond(s, r) = r
<1>1. r \in Seq(Row) /\ s \in Seq(Row) /\ Len(s) \in Nat /\ Len(r) \in Nat /\ Len(s) <= Len(r)
  BY DEF Grows, Line
<1>2. \A k \in 1..Len(s) : r[k] = s[k]
  BY DEF Follows, Grows
<1> DEFINE b == SubSeq(r, Len(s) + 1, Len(r))
<1>3. /\ b \in Seq(Row) /\ Len(b) = Len(r) - Len(s)
      /\ \A k \in 1..(Len(r) - Len(s)) : b[k] = r[Len(s) + k]
  BY <1>1
<1> HIDE DEF b
<1>4. s \o b \in Seq(Row) /\ Len(s \o b) = Len(r)
  BY <1>1, <1>3
<1>5. ASSUME NEW k \in 1..Len(r) PROVE (s \o b)[k] = r[k]
  BY <1>1, <1>2, <1>3
<1>6. s \o b = r
  BY <1>1, <1>4, <1>5, SeqEqual
<1> QED
  BY <1>3, <1>6 DEF Beyond, b, Line

\* A load of the timeline tops its page up with another.
TopsUp(l, new) ==
    /\ load' \in [Loads -> LoadType] /\ Others(l)
    /\ load[l].tab = "timeline"
    /\ load'[l].phase = "fetch" /\ load'[l].tab = "timeline" /\ load'[l].more = load[l].more
    /\ load'[l].from = CursorAfter(load[l].from) /\ load'[l].from # 0
    /\ load'[l].depth = load[l].depth + 1
    /\ load'[l].prev = load[l].prev /\ load'[l].back = load[l].back
    /\ load'[l].was = load[l].was /\ load'[l].seen = Met(l)
    /\ ~load[l].more => load'[l].stage = load[l].stage \o new

\* Types of what one page changes.
LEMMA Counts ==
    ASSUME Types, NEW t \in Tabs, Counted(t)
    PROVE  pages' \in [Tabs -> Nat]
<1>1. pages \in [Tabs -> Nat] /\ pages' = [pages EXCEPT ![t] = @ + 1]
  BY DEF Types, Counted
<1> QED
  BY <1>1

\* A cursor that is moved to an item is a cursor.
LEMMA CursorMoves ==
    ASSUME Types, NEW t, NEW c \in Items, cursor' = [cursor EXCEPT ![t] = c] \/ cursor' = cursor
    PROVE  cursor' \in [Tabs -> Items]
<1>1. cursor \in [Tabs -> Items]
  BY DEF Types
<1> QED
  BY <1>1

\* What is visible of the page at c is among the rows.
Shown(rows, c) == \A i \in Oldest(c)..Newest(c) : Visible(i, hide) => Has(rows, Own(i))

\* A page of the timeline: another follows, or the load has been through its first.
AfterTimeline(l, rows, new) ==
    /\ UNCHANGED <<tab, cur, kept, hide, top, clean, halfway, news>>
    /\ load[l].phase = "fetch" /\ load[l].tab = "timeline"
    /\ Shown(rows, load[l].from) /\ (Page(load[l].from) = <<>> => rows = list[cur])
    /\ Follows("timeline", list[cur], rows) /\ new \in Line /\ list[cur] \o new = rows
    /\ cursor' = [cursor EXCEPT !["timeline"] = CursorAfter(load[l].from)]
    /\ cursor' \in [Tabs -> Items] /\ pages' \in [Tabs -> Nat]
    /\ list' = [list EXCEPT ![cur] = rows]
    /\ \/ /\ TopsUp(l, new)
          /\ shown' = [shown EXCEPT !["timeline"] = IF load[l].more THEN @ \o new ELSE @]
          /\ UNCHANGED <<loaded, head, failed>>
       \/ /\ Goes(l, Met(l)) /\ (load[l].more => load'[l] = NoLoad)
          /\ shown' = [shown EXCEPT !["timeline"] = IF load[l].more THEN @ \o new
                                                    ELSE load[l].stage \o new]
          /\ loaded' = [loaded EXCEPT !["timeline"] = TRUE]
          /\ head' = (IF load[l].more THEN head ELSE [head EXCEPT !["timeline"] = Met(l)])
          /\ failed' = (IF load[l].more THEN failed
                        ELSE [failed EXCEPT !["timeline"] = FALSE])

\* What an answer to a load of the timeline leaves behind.
LEMMA TimelineArrives ==
    ASSUME Types, NEW l \in Loads, ArriveTimeline(l),
           NEW rows, rows = Rows("timeline", list[cur], load[l].from),
           NEW new, new = Beyond(list[cur], rows)
    PROVE  AfterTimeline(l, rows, new)
<1> DEFINE r == IF load[l].depth = 1 THEN [load[l] EXCEPT !.seen = top] ELSE load[l]
           c == CursorAfter(load[l].from)
           q == [r EXCEPT !.from = c, !.depth = @ + 1, !.stage = IF r.more THEN <<>> ELSE @ \o new]
           topUp == hide /\ Len(new) < Enough /\ CursorAfter(r.from) # 0 /\ r.depth < 3
<1>1. /\ load \in [Loads -> LoadType] /\ load[l].from \in Items /\ top \in Items
      /\ load[l].seen \in Items /\ load[l].depth \in 0..3 /\ load[l].stage \in Line
      /\ load[l].more \in BOOLEAN /\ list[cur] \in Line /\ "timeline" \in Tabs
  BY LoadFields DEF Types
<1>2. Met(l) \in Items
  BY <1>1 DEF Met
<1>3. r = [load[l] EXCEPT !.seen = Met(l)]
  <2>1. [load[l] EXCEPT !.seen = load[l].seen] = load[l]
    <3>1. load[l] \in LoadType
      BY <1>1
    <3> QED
      BY <3>1 DEF LoadType
  <2> QED
    BY <2>1 DEF Met
<1> HIDE DEF r
<1>4. /\ r \in LoadType /\ r.seen = Met(l) /\ r.tab = load[l].tab /\ r.more = load[l].more
      /\ r.phase = load[l].phase /\ r.from = load[l].from /\ r.stage = load[l].stage
      /\ r.prev = load[l].prev /\ r.back = load[l].back /\ r.depth = load[l].depth
      /\ r.was = load[l].was
  BY <1>1, <1>2, <1>3, LoadMeets
<1>5. /\ r.phase = "fetch" /\ r.tab = "timeline" /\ Counted("timeline")
      /\ cursor' = [cursor EXCEPT !["timeline"] = CursorAfter(r.from)]
      /\ list' = [list EXCEPT ![cur] = Rows("timeline", list[cur], r.from)]
      /\ shown' = [shown EXCEPT !["timeline"] = IF r.more THEN @ \o new
                                                ELSE IF topUp THEN @ ELSE r.stage \o new]
      /\ IF topUp
         THEN /\ load' = [load EXCEPT ![l] =
                            [r EXCEPT !.from = CursorAfter(r.from), !.depth = @ + 1,
                                      !.stage = IF r.more THEN <<>> ELSE @ \o new]]
              /\ UNCHANGED <<loaded, head, failed, lost>>
         ELSE Loaded(l, r)
  BY <1>4 DEF ArriveTimeline, r
<1>6. Follows("timeline", list[cur], rows) /\ new \in Line /\ list[cur] \o new = rows
  <2>1. Follows("timeline", list[cur], rows)
    BY <1>1, RowsFollow
  <2>2. Beyond(list[cur], rows) \in Line /\ list[cur] \o Beyond(list[cur], rows) = rows
    BY <2>1, <1>1, BeyondIs DEF Follows
  <2> QED
    BY <2>1, <2>2
<1>61. Shown(rows, load[l].from) /\ (Page(load[l].from) = <<>> => rows = list[cur])
  BY <1>1, RowsFollow DEF Shown
<1>62. UNCHANGED <<tab, cur, kept, hide, top, clean, halfway, news>>
  BY DEF ArriveTimeline
<1>7. c \in Items
  BY <1>1, PageIsSeq
<1>8. cursor' \in [Tabs -> Items] /\ pages' \in [Tabs -> Nat]
  BY <1>4, <1>5, <1>7 DEF Types, Counted
<1>9. CASE topUp
  <2>1. load' = [load EXCEPT ![l] = q] /\ c # 0 /\ r.depth < 3
    BY <1>4, <1>5, <1>9
  <2>2. /\ q.phase = r.phase /\ q.tab = r.tab /\ q.more = r.more /\ q.from = c
        /\ q.depth = r.depth + 1 /\ q.prev = r.prev /\ q.back = r.back /\ q.was = r.was
        /\ q.seen = r.seen /\ q.stage = (IF r.more THEN <<>> ELSE r.stage \o new)
    BY <1>4 DEF LoadType
  <2>3. q \in LoadType
    <3> DEFINE x == IF r.more THEN <<>> ELSE r.stage \o new
               d == r.depth + 1
    <3>1. x \in Line
      BY <1>1, <1>4, <1>6 DEF Line
    <3>2. d \in 0..3
      BY <1>1, <1>4, <2>1
    <3>3. q = [r EXCEPT !.from = c, !.depth = d, !.stage = x]
      OBVIOUS
    <3> HIDE DEF x, d, q, c
    <3>4. [r EXCEPT !.from = c, !.depth = d, !.stage = x] \in LoadType
      BY <1>4, <1>7, <3>1, <3>2 DEF LoadType
    <3> QED
      BY <3>3, <3>4
  <2> HIDE DEF q
  <2>4. load' \in [Loads -> LoadType] /\ Others(l) /\ load'[l] = q
    BY <1>1, <2>1, <2>3, OneReplaced
  <2>5. TopsUp(l, new)
    BY <1>4, <1>5, <2>1, <2>2, <2>4 DEF TopsUp
  <2>6. shown' = [shown EXCEPT !["timeline"] = IF load[l].more THEN @ \o new ELSE @]
    BY <1>4, <1>5, <1>9
  <2> QED
    BY <1>4, <1>5, <1>6, <1>61, <1>62, <1>8, <1>9, <2>5, <2>6 DEF AfterTimeline
<1>10. CASE ~topUp
  <2>1. Loaded(l, r)
    BY <1>5, <1>10
  <2>2. /\ Goes(l, Met(l))
        /\ load[l].more \/ load[l].tab = "saved" => load'[l] = NoLoad
        /\ loaded' = [loaded EXCEPT ![load[l].tab] = TRUE]
        /\ head' = (IF load[l].more THEN head ELSE [head EXCEPT ![load[l].tab] = Met(l)])
        /\ failed' = (IF load[l].more THEN failed ELSE [failed EXCEPT ![load[l].tab] = FALSE])
    BY <1>1, <1>2, <1>3, <1>8, <2>1, LoadedGoes
  <2>3. shown' = [shown EXCEPT !["timeline"] = IF load[l].more THEN @ \o new
                                               ELSE load[l].stage \o new]
    BY <1>4, <1>5, <1>10
  <2> QED
    BY <1>4, <1>5, <1>6, <1>61, <1>62, <1>8, <2>2, <2>3 DEF AfterTimeline
<1> QED
  BY <1>9, <1>10

\* A page of notifications: none, one more, or the first of a fresh list.
AfterNotifications(l, rows, new) ==
    /\ UNCHANGED <<tab, kept, hide, top, clean, halfway, news>>
    /\ load[l].phase = "fetch" /\ load[l].tab = "notifications"
    /\ cursor' \in [Tabs -> Items] /\ pages' \in [Tabs -> Nat]
    /\ Goes(l, top) /\ (load[l].more => load'[l] = NoLoad)
    /\ loaded' = [loaded EXCEPT !["notifications"] = TRUE]
    /\ head' = (IF load[l].more THEN head ELSE [head EXCEPT !["notifications"] = top])
    /\ failed' = (IF load[l].more THEN failed ELSE [failed EXCEPT !["notifications"] = FALSE])
    /\ \/ /\ Page(load[l].from) = <<>>
          /\ shown' = (IF load[l].more THEN shown ELSE [shown EXCEPT !["notifications"] = <<>>])
          /\ UNCHANGED <<cursor, cur, list>>
       \/ /\ load[l].more /\ Page(load[l].from) # <<>>
          /\ cursor' = [cursor EXCEPT !["notifications"] = CursorAfter(load[l].from)]
          /\ Follows("notifications", list[cur], rows)
          /\ new \in Line /\ list[cur] \o new = rows
          /\ list' = [list EXCEPT ![cur] = rows] /\ cur' = cur
          /\ shown' = [shown EXCEPT !["notifications"] = @ \o new]
       \/ /\ ~load[l].more /\ Page(load[l].from) # <<>>
          /\ cursor' = [cursor EXCEPT !["notifications"] = CursorAfter(load[l].from)]
          /\ Follows("notifications", <<>>, rows)
          /\ cur' = NewList /\ list' = [list EXCEPT ![NewList] = rows]
          /\ shown' = [shown EXCEPT !["notifications"] = rows]

\* What an answer to a load of the notifications leaves behind.
LEMMA NotificationsArrive ==
    ASSUME Types, NEW l \in Loads, ArriveNotifications(l),
           NEW rows, rows = Rows("notifications", IF load[l].more THEN list[cur] ELSE <<>>, load[l].from),
           NEW new, new = Beyond(list[cur], rows)
    PROVE  AfterNotifications(l, rows, new)
<1> DEFINE r == [load[l] EXCEPT !.seen = top]
           s == IF load[l].more THEN list[cur] ELSE <<>>
<1>1. /\ load \in [Loads -> LoadType] /\ load[l].from \in Items /\ top \in Items
      /\ load[l].more \in BOOLEAN /\ list[cur] \in Line
  BY LoadFields DEF Types
<1>2. s \in Line /\ <<>> \in Line
  BY <1>1 DEF Line
<1>3. /\ r \in LoadType /\ r.seen = top /\ r.tab = load[l].tab /\ r.more = load[l].more
      /\ r.phase = load[l].phase /\ r.from = load[l].from
  BY <1>1, LoadMeets
<1>4. /\ r.phase = "fetch" /\ r.tab = "notifications" /\ Counted("notifications")
      /\ IF Page(r.from) = <<>>
         THEN /\ shown' = IF r.more THEN shown ELSE [shown EXCEPT !["notifications"] = <<>>]
              /\ UNCHANGED <<cursor, cur, list>>
         ELSE /\ cursor' = [cursor EXCEPT !["notifications"] = CursorAfter(r.from)]
              /\ cur' = IF r.more THEN cur ELSE NewList
              /\ list' = [list EXCEPT ![cur'] = rows]
              /\ shown' = [shown EXCEPT !["notifications"] = IF r.more THEN @ \o new ELSE rows]
      /\ Loaded(l, r)
  BY <1>3 DEF ArriveNotifications
<1> HIDE DEF r
<1>5. load[l].tab = "notifications" /\ load[l].phase = "fetch" /\ "notifications" \in Tabs
  BY <1>1, <1>3, <1>4, LoadFields
<1>6. CursorAfter(load[l].from) \in Items
  BY <1>1, PageIsSeq
<1>7. cursor' \in [Tabs -> Items] /\ pages' \in [Tabs -> Nat]
  <2>1. pages' \in [Tabs -> Nat]
    BY <1>4, <1>5, Counts
  <2>2. cursor' \in [Tabs -> Items]
    BY <1>3, <1>4, <1>6, CursorMoves
  <2> QED
    BY <2>1, <2>2
<1>8. /\ Goes(l, top)
      /\ load[l].more \/ load[l].tab = "saved" => load'[l] = NoLoad
      /\ loaded' = [loaded EXCEPT ![load[l].tab] = TRUE]
      /\ head' = (IF load[l].more THEN head ELSE [head EXCEPT ![load[l].tab] = top])
      /\ failed' = (IF load[l].more THEN failed ELSE [failed EXCEPT ![load[l].tab] = FALSE])
  BY <1>1, <1>4, <1>7, LoadedGoes DEF r
<1>9. Follows("notifications", s, rows)
  BY <1>1, <1>2, <1>5, RowsFollow
<1>91. UNCHANGED <<tab, kept, hide, top, clean, halfway, news>>
  BY DEF ArriveNotifications
<1>10. CASE load[l].more
  <2>1. Follows("notifications", list[cur], rows)
    BY <1>9, <1>10
  <2>2. Beyond(list[cur], rows) \in Line /\ list[cur] \o Beyond(list[cur], rows) = rows
    BY <2>1, <1>1, BeyondIs DEF Follows
  <2>3. new \in Line /\ list[cur] \o new = rows
    BY <2>2
  <2> QED
    BY <1>3, <1>4, <1>5, <1>7, <1>8, <1>91, <1>10, <2>1, <2>3 DEF AfterNotifications
<1>11. CASE ~load[l].more
  BY <1>3, <1>4, <1>5, <1>7, <1>8, <1>9, <1>91, <1>11 DEF AfterNotifications
<1> QED
  BY <1>10, <1>11

\* A page of saved posts, if there are any.
AfterSaved(l, rows, new) ==
    /\ UNCHANGED <<tab, cur, pages, hide, top, clean, halfway, news>>
    /\ load[l].phase = "fetch" /\ load[l].tab = "saved"
    /\ cursor' \in [Tabs -> Items]
    /\ load' \in [Loads -> LoadType] /\ Others(l) /\ load'[l] = NoLoad
    /\ loaded' = [loaded EXCEPT !["saved"] = TRUE]
    /\ head' = (IF load[l].more THEN head ELSE [head EXCEPT !["saved"] = top])
    /\ failed' = (IF load[l].more THEN failed ELSE [failed EXCEPT !["saved"] = FALSE])
    /\ \/ UNCHANGED <<cursor, list, kept, shown>> /\ Page(load[l].from) = <<>>
       \/ /\ Page(load[l].from) # <<>>
          /\ cursor' = [cursor EXCEPT !["saved"] = CursorAfter(load[l].from)]
          /\ Follows("saved", list[cur], rows) /\ new \in Line /\ list[cur] \o new = rows
          /\ list' = [list EXCEPT ![cur] = rows]
          /\ kept' = [kept EXCEPT !["saved"] = cur]
          /\ shown' = [shown EXCEPT !["saved"] = @ \o new]

\* What an answer to a load of the saved posts leaves behind.
LEMMA SavedArrive ==
    ASSUME Types, NEW l \in Loads, ArriveSaved(l),
           NEW rows, rows = Rows("saved", list[cur], load[l].from),
           NEW new, new = Beyond(list[cur], rows)
    PROVE  AfterSaved(l, rows, new)
<1> DEFINE r == [load[l] EXCEPT !.seen = top]
<1>1. /\ load \in [Loads -> LoadType] /\ load[l].from \in Items /\ top \in Items
      /\ load[l].more \in BOOLEAN /\ list[cur] \in Line
  BY LoadFields DEF Types
<1>2. /\ r \in LoadType /\ r.seen = top /\ r.tab = load[l].tab /\ r.more = load[l].more
      /\ r.phase = load[l].phase /\ r.from = load[l].from
  BY <1>1, LoadMeets
<1>3. /\ r.phase = "fetch" /\ r.tab = "saved" /\ UNCHANGED pages
      /\ IF Page(r.from) = <<>> THEN UNCHANGED <<cursor, list, kept, shown>>
         ELSE /\ cursor' = [cursor EXCEPT !["saved"] = CursorAfter(r.from)]
              /\ list' = [list EXCEPT ![cur] = rows]
              /\ kept' = [kept EXCEPT !["saved"] = cur]
              /\ shown' = [shown EXCEPT !["saved"] = @ \o new]
      /\ Loaded(l, r)
  BY <1>2 DEF ArriveSaved
<1>4. load[l].tab = "saved" /\ load[l].phase = "fetch" /\ "saved" \in Tabs
  BY <1>1, <1>2, <1>3, LoadFields
<1>5. CursorAfter(load[l].from) \in Items
  BY <1>1, PageIsSeq
<1>6. cursor' \in [Tabs -> Items] /\ pages' \in [Tabs -> Nat]
  <2>1. pages' \in [Tabs -> Nat]
    BY <1>3 DEF Types
  <2>2. cursor' \in [Tabs -> Items]
    BY <1>2, <1>3, <1>5, CursorMoves
  <2> QED
    BY <2>1, <2>2
<1>7. /\ Goes(l, top)
      /\ load[l].more \/ load[l].tab = "saved" => load'[l] = NoLoad
      /\ loaded' = [loaded EXCEPT ![load[l].tab] = TRUE]
      /\ head' = (IF load[l].more THEN head ELSE [head EXCEPT ![load[l].tab] = top])
      /\ failed' = (IF load[l].more THEN failed ELSE [failed EXCEPT ![load[l].tab] = FALSE])
  BY <1>1, <1>3, <1>6, LoadedGoes
<1> HIDE DEF r
<1>8. Follows("saved", list[cur], rows)
  BY <1>1, <1>4, RowsFollow
<1>9. Beyond(list[cur], rows) \in Line /\ list[cur] \o Beyond(list[cur], rows) = rows
  BY <1>8, <1>1, BeyondIs DEF Follows
<1>10. UNCHANGED <<tab, cur, pages, hide, top, clean, halfway, news>>
  BY DEF ArriveSaved
<1> QED
  BY <1>2, <1>3, <1>4, <1>6, <1>7, <1>8, <1>9, <1>10 DEF Goes, AfterSaved

\* One more page for the place.
AfterRestore(l, rows, new) ==
    /\ UNCHANGED <<tab, cur, kept, hide, top, clean, halfway, failed, head, news>>
    /\ load[l].phase = "restore" /\ ~load[l].more /\ load[l].tab \in Tabs
    /\ load[l].tab = "timeline" => Shown(rows, load[l].from)
    /\ Page(load[l].from) = <<>> => rows = list[cur]
    /\ cursor' = [cursor EXCEPT ![load[l].tab] = CursorAfter(load[l].from)]
    /\ cursor' \in [Tabs -> Items] /\ pages' \in [Tabs -> Nat]
    /\ Goes(l, load[l].seen)
    /\ Follows(load[l].tab, list[cur], rows) /\ new \in Line /\ list[cur] \o new = rows
    /\ list' = [list EXCEPT ![cur] = rows]
    /\ shown' = [shown EXCEPT ![load[l].tab] = @ \o new]
    /\ loaded' = [loaded EXCEPT ![load[l].tab] = @ \/ load[l].tab = "notifications"]

\* What one more page leaves behind.
LEMMA RestoreArrives ==
    ASSUME Types, NEW l \in Loads, ArriveRestore(l),
           NEW rows, rows = Rows(load[l].tab, list[cur], load[l].from),
           NEW new, new = Beyond(list[cur], rows)
    PROVE  AfterRestore(l, rows, new)
<1> DEFINE a == load[l]
<1>1. /\ load \in [Loads -> LoadType] /\ a.from \in Items /\ top \in Items /\ a.tab \in Tabs
      /\ list[cur] \in Line /\ a.seen \in Items /\ a \in LoadType
  BY LoadFields DEF Types
<1>2. /\ a.phase = "restore" /\ Counted(a.tab)
      /\ cursor' = [cursor EXCEPT ![a.tab] = CursorAfter(a.from)]
      /\ list' = [list EXCEPT ![cur] = rows]
      /\ shown' = [shown EXCEPT ![a.tab] = @ \o new]
      /\ loaded' = [loaded EXCEPT ![a.tab] = @ \/ a.tab = "notifications"]
      /\ Restore(l, a, pages'[a.tab] # a.mark)
  BY DEF ArriveRestore
<1>3. ~a.more
  BY <1>2 DEF Types, Sane
<1>4. CursorAfter(a.from) \in Items
  BY <1>1, PageIsSeq
<1>5. cursor' \in [Tabs -> Items] /\ pages' \in [Tabs -> Nat]
  <2>1. pages' \in [Tabs -> Nat]
    BY <1>1, <1>2, Counts
  <2>2. cursor' \in [Tabs -> Items]
    BY <1>1, <1>2, <1>4 DEF Types
  <2> QED
    BY <2>1, <2>2
<1>6. a = [load[l] EXCEPT !.seen = a.seen]
  BY <1>1 DEF LoadType
<1>7. Goes(l, a.seen)
  <2> DEFINE may == pages'[a.tab] # a.mark
  <2>1. Restore(l, a, may)
    BY <1>2
  <2> HIDE DEF may
  <2> QED
    BY <2>1, <1>1, <1>3, <1>5, <1>6, RestoreGoes
<1>8. Follows(a.tab, list[cur], rows)
  BY <1>1, RowsFollow
<1>9. Beyond(list[cur], rows) \in Line /\ list[cur] \o Beyond(list[cur], rows) = rows
  BY <1>8, <1>1, BeyondIs DEF Follows
<1>10. /\ load[l].tab = "timeline" => Shown(rows, load[l].from)
       /\ Page(load[l].from) = <<>> => rows = list[cur]
  BY <1>1, RowsFollow DEF Shown
<1>11. UNCHANGED <<tab, cur, kept, hide, top, clean, halfway, failed, head, news>>
  BY DEF ArriveRestore
<1> QED
  BY <1>1, <1>2, <1>3, <1>5, <1>7, <1>8, <1>9, <1>10, <1>11 DEF AfterRestore

\* What the steps do to the loads keeps them sane.
LEMMA SaneAfter ==
    ASSUME Types, NEW l \in Loads, Others(l),
           \/ load'[l] = NoLoad
           \/ \E t \in Tabs, c \in Ids : Begins(l, t, c)
           \/ \E s : /\ Goes(l, s) /\ load[l].phase # "off" /\ load[l].tab # "saved"
                      /\ \A t \in Tabs : cursor'[t] # 1
           \/ \E new : TopsUp(l, new) /\ load[l].phase # "off"
    PROVE  \A m \in Loads : Sane(m)'
<1> SUFFICES ASSUME NEW m \in Loads PROVE Sane(m)'
  OBVIOUS
<1>0. Sane(m) /\ Sane(l) /\ \A t \in Tabs : cursor[t] # 1
  BY DEF Types
<1>1. CASE m # l
  <2>1. load'[m] = load[m]
    BY <1>1 DEF Others
  <2> QED
    BY <2>1, <1>0 DEF Sane, Fresh
<1>2. CASE load'[l] = NoLoad /\ m = l
  BY <1>2, NoLoadType DEF Sane, Fresh
<1>3. CASE m = l /\ \E t \in Tabs, c \in Ids : Begins(l, t, c)
  <2>1. PICK t \in Tabs, c \in Ids : Begins(l, t, c)
    BY <1>3
  <2>2. c # 0
    BY DEF Ids
  <2> QED
    BY <2>1, <2>2, <1>0, <1>3 DEF Sane, Fresh, Begins
<1>4. CASE m = l /\ \E s : /\ Goes(l, s) /\ load[l].phase # "off" /\ load[l].tab # "saved"
                           /\ \A t \in Tabs : cursor'[t] # 1
  <2>1. PICK s : /\ Goes(l, s) /\ load[l].phase # "off" /\ load[l].tab # "saved"
                 /\ \A t \in Tabs : cursor'[t] # 1
    BY <1>4
  <2>2. load[l].tab \in Tabs
    BY LoadFields DEF Types
  <2>3. CASE load'[l] = NoLoad
    BY <2>3, <1>2, <1>4
  <2>4. CASE load'[l] # NoLoad
    BY <2>1, <2>2, <2>4, <1>0, <1>4 DEF Sane, Fresh, Goes
  <2> QED
    BY <2>3, <2>4
<1>5. CASE m = l /\ \E new : TopsUp(l, new) /\ load[l].phase # "off"
  <2>1. PICK new : TopsUp(l, new) /\ load[l].phase # "off"
    BY <1>5
  <2>2. CursorAfter(load[l].from) # 1
    BY DEF CursorAfter
  <2>3. load[l].depth \in 0..3
    BY LoadFields DEF Types
  <2> QED
    BY <2>1, <2>2, <2>3, <1>0, <1>5 DEF Sane, Fresh, TopsUp
<1> QED
  BY <1>1, <1>2, <1>3, <1>4, <1>5

\* A fresh load changes these besides, and takes its time.
LEMMA FreshTypes ==
    ASSUME Types, NEW l \in Loads, NEW t \in Tabs, NEW u \in {0} \cup Uri, NEW c \in Ids,
           StartFresh(l, t, u, c)
    PROVE  /\ cur' \in Ids /\ list' \in [Ids -> Line] /\ shown' \in [Tabs -> Line]
           /\ cursor' \in [Tabs -> Items] /\ pages' \in [Tabs -> Nat] /\ halfway' \in Flags
           /\ load' \in [Loads -> LoadType] /\ \A m \in Loads : Sane(m)'
           /\ \A x \in Tabs : cursor'[x] # 1
<1>1. NewList \in Ids /\ <<>> \in Line /\ 0 \in Items
  BY NewListIsNew DEF Line, Items
<1>2. Begins(l, t, c)
  BY FreshBegins
<1>3. load' \in [Loads -> LoadType] /\ \A m \in Loads : Sane(m)'
  BY <1>2, SaneAfter DEF Begins
<1>4. cur' \in Ids
  BY <1>1 DEF StartFresh
<1>5. list' \in [Ids -> Line]
  BY <1>1 DEF StartFresh, Types
<1>6. shown' \in [Tabs -> Line]
  BY <1>1 DEF StartFresh, Types
<1>7. cursor' \in [Tabs -> Items] /\ \A x \in Tabs : cursor'[x] # 1
  BY <1>1 DEF StartFresh, Types
<1>8. pages' \in [Tabs -> Nat] /\ halfway' \in Flags
  BY DEF StartFresh, Types, Flags
<1> QED
  BY <1>3, <1>4, <1>5, <1>6, <1>7, <1>8

\* The post the user is on.
LEMMA FocusedType == ASSUME Types PROVE Focused \subseteq {0} \cup Uri
<1>1. list[cur] \in Seq(Row)
  BY DEF Types, Line
<1>2. \A k \in DOMAIN list[cur] : list[cur][k] \in Row
  BY <1>1
<1> QED
  BY <1>2 DEF Focused, Row

\* At first every tab has a list of its own.
LEMMA InitPlaces ==
    ASSUME Init
    PROVE  kept \in [Tabs -> 2..4] /\ kept \in [Tabs -> Ids] /\ \A t, u \in Tabs : t # u => kept[t] # kept[u]
<1> DEFINE f == [t \in Tabs |-> IF t = "timeline" THEN 2 ELSE IF t = "notifications" THEN 3 ELSE 4]
<1>1. f \in [Tabs -> 2..4] /\ \A t, u \in Tabs : t # u => f[t] # f[u]
  BY TabsAssumption
<1> HIDE DEF f
<1>2. kept \in [Tabs -> 2..4] /\ \A t, u \in Tabs : t # u => kept[t] # kept[u]
  BY <1>1 DEF Init
<1>3. 2..4 \subseteq Ids
  BY Names
<1> QED
  BY <1>2, <1>3

\* The first state is well typed.
LEMMA InitTypes == Init => Types
<1> SUFFICES ASSUME Init PROVE Types
  OBVIOUS
<1>1. kept \in [Tabs -> Ids]
  BY InitPlaces
<1>2. <<>> \in Line /\ 0 \in Items /\ cur \in Ids /\ NoLoad \in LoadType
  BY Names, NoLoadType DEF Init, Line, Items
<1>3. \A l \in Loads : Sane(l)
  BY NoLoadType DEF Sane, Fresh, Init
<1>4. top \in Items /\ top >= FirstTop
  BY DEF Init, Items
<1>5. list \in [Ids -> Line] /\ shown \in [Tabs -> Line] /\ load \in [Loads -> LoadType]
  BY <1>2 DEF Init
<1>6. /\ loaded \in Flags /\ clean \in Flags /\ halfway \in Flags /\ failed \in Flags
      /\ pages \in [Tabs -> Nat] /\ cursor \in [Tabs -> Items] /\ head \in [Tabs -> Items]
      /\ news \in [Tabs -> Items] /\ tab \in Tabs /\ \A t \in Tabs : cursor[t] # 1
  BY <1>2 DEF Init, Flags
<1> QED
  BY <1>1, <1>2, <1>3, <1>4, <1>5, <1>6 DEF Types

\* Every step keeps the types.
LEMMA StepTypes ==
    ASSUME Types, [Next]_vars
    PROVE  Types'
<1>1. CASE UNCHANGED vars
  BY <1>1 DEF Types, Sane, Fresh, vars, lists, marks, history
<1>2. ASSUME NEW l \in Loads, More(l) PROVE Types'
  <2> DEFINE r == [NoLoad EXCEPT !.phase = "fetch", !.tab = tab, !.more = TRUE,
                                 !.from = cursor[tab], !.depth = 1]
  <2>1. tab \in Tabs /\ cursor[tab] \in Items /\ cursor[tab] # 1
    BY DEF Types
  <2>2. r \in LoadType
    <3>1. 1 \in 0..3 /\ NoLoad \in LoadType
      BY NoLoadType
    <3> QED
      BY <2>1, <3>1 DEF LoadType
  <2>3. /\ r.phase = "fetch" /\ r.more = TRUE /\ r.depth = 1 /\ r.from = cursor[tab]
        /\ r.back = 0
    BY DEF NoLoad
  <2>4. load' = [load EXCEPT ![l] = r]
    BY <1>2 DEF More
  <2> HIDE DEF r
  <2>5. load' \in [Loads -> LoadType] /\ Others(l) /\ load'[l] = r
    BY <2>2, <2>4, OneReplaced DEF Types
  <2>6. ASSUME NEW m \in Loads PROVE Sane(m)'
    <3>1. CASE m = l
      BY <3>1, <2>1, <2>3, <2>5 DEF Sane, Fresh
    <3>2. CASE m # l
      <4>1. load'[m] = load[m] /\ Sane(m)
        BY <3>2, <2>5 DEF Others, Types
      <4> QED
        BY <4>1 DEF Sane, Fresh
    <3> QED
      BY <3>1, <3>2
  <2>7. clean' \in Flags
    BY <1>2 DEF More, Types, Flags
  <2> QED
    BY <1>2, <2>5, <2>6, <2>7 DEF More, Types, lists, marks
<1>3. ASSUME NEW l \in Loads, Again(l) PROVE Types'
  <2>1. PICK u \in Focused : StartFresh(l, tab, IF tab = "saved" THEN 0 ELSE u, cur)
    BY <1>3 DEF Again
  <2> DEFINE w == IF tab = "saved" THEN 0 ELSE u
  <2>2. w \in {0} \cup Uri /\ tab \in Tabs /\ cur \in Ids
    BY FocusedType DEF Types
  <2> HIDE DEF w
  <2>3. StartFresh(l, tab, w, cur)
    BY <2>1 DEF w
  <2>4. clean' \in Flags
    BY <1>3 DEF Again, Types, Flags, Busy
  <2> QED
    BY <1>3, <2>2, <2>3, <2>4, FreshTypes DEF Again, Types
<1>4. CASE ToggleHide
  <2>1. CASE \E l \in Loads : Again(l)
    BY <2>1, <1>3
  <2>2. CASE ~ \E l \in Loads : Again(l)
    BY <1>4, <2>2 DEF ToggleHide, Types, Sane, Fresh, lists, marks, Flags
  <2> QED
    BY <2>1, <2>2
<1>5. ASSUME NEW t \in Tabs, SwitchTab(t) PROVE Types'
  <2> DEFINE home == IF t = tab THEN cur ELSE kept[t]
             have == loaded[t] /\ ~Stale(t)
             free == IF Busy THEN [u \in Tabs |-> FALSE] ELSE clean
  <2>1. home \in Ids /\ free \in Flags /\ have \in BOOLEAN
    BY DEF Types, Flags
  <2>2. /\ tab' = t /\ kept' = [kept EXCEPT ![tab] = cur]
        /\ loaded' = [loaded EXCEPT ![t] = have]
        /\ UNCHANGED <<hide, top, failed, head, news, lost>>
        /\ IF have THEN /\ cur' = home /\ clean' = free
                        /\ UNCHANGED <<list, pages, cursor, shown, load, halfway>>
           ELSE /\ \E l \in Loads : StartFresh(l, t, 0, home)
                /\ clean' = [free EXCEPT ![t] = ~Busy]
    BY <1>5 DEF SwitchTab
  <2> HIDE DEF home, have, free
  <2>3. kept' \in [Tabs -> Ids] /\ loaded' \in Flags
    BY <2>1, <2>2 DEF Types, Flags
  <2>4. CASE have
    BY <2>1, <2>2, <2>3, <2>4 DEF Types, Sane, Fresh
  <2>5. CASE ~have
    <3>1. PICK l \in Loads : StartFresh(l, t, 0, home)
      BY <2>2, <2>5
    <3>2. clean' \in Flags
      BY <2>1, <2>2, <2>5 DEF Flags
    <3> QED
      BY <2>1, <2>2, <2>3, <3>1, <3>2, FreshTypes DEF Types
  <2> QED
    BY <2>4, <2>5
<1>6. ASSUME NEW t \in Tabs, Announce(t) PROVE Types'
  BY <1>6 DEF Announce, Types, Sane, Fresh, lists, Flags
<1>7. CASE Post
  BY <1>7 DEF Post, Types, Sane, Fresh, lists, marks, history, Items
<1>8. ASSUME NEW l \in Loads, ArriveTimeline(l) PROVE Types'
  <2> DEFINE rows == Rows("timeline", list[cur], load[l].from)
             new  == Beyond(list[cur], rows)
  <2>1. AfterTimeline(l, rows, new)
    BY <1>8, TimelineArrives
  <2> HIDE DEF rows, new
  <2>3. list' \in [Ids -> Line]
    BY <2>1 DEF AfterTimeline, Follows, Types
  <2>4. \A t \in Tabs : cursor'[t] # 1
    BY <2>1 DEF AfterTimeline, Types, CursorAfter
  <2>5. \A m \in Loads : Sane(m)'
    BY <2>1, <2>4, SaneAfter DEF AfterTimeline, TopsUp, Goes
  <2>6. load' \in [Loads -> LoadType]
    BY <2>1 DEF AfterTimeline, TopsUp, Goes
  <2>7. shown' \in [Tabs -> Line]
    <3>1. /\ shown \in [Tabs -> Line] /\ shown["timeline"] \o new \in Line
          /\ load[l].stage \o new \in Line
      BY <2>1, LoadFields DEF AfterTimeline, Types, Line
    <3> QED
      BY <2>1, <3>1 DEF AfterTimeline
  <2>8. Met(l) \in Items
    BY LoadFields DEF Met, Types
  <2>9. loaded' \in Flags /\ failed' \in Flags
    <3>1. /\ loaded' = loaded \/ loaded' = [loaded EXCEPT !["timeline"] = TRUE]
          /\ failed' = failed \/ failed' = [failed EXCEPT !["timeline"] = FALSE]
      BY <2>1 DEF AfterTimeline
    <3> QED
      BY <3>1 DEF Types, Flags
  <2>10. head' \in [Tabs -> Items]
    <3>1. head' = head \/ head' = [head EXCEPT !["timeline"] = Met(l)]
      BY <2>1 DEF AfterTimeline
    <3> QED
      BY <2>8, <3>1 DEF Types
  <2> QED
    BY <2>1, <2>3, <2>4, <2>5, <2>6, <2>7, <2>9, <2>10 DEF AfterTimeline, Types
<1>9. ASSUME NEW l \in Loads, ArriveNotifications(l) PROVE Types'
  <2> DEFINE rows == Rows("notifications", IF load[l].more THEN list[cur] ELSE <<>>, load[l].from)
             new  == Beyond(list[cur], rows)
  <2>1. AfterNotifications(l, rows, new)
    BY <1>9, NotificationsArrive
  <2> HIDE DEF rows, new
  <2>2. NewList \in Ids /\ <<>> \in Line
    BY NewListIsNew DEF Line
  <2>3. list' \in [Ids -> Line] /\ cur' \in Ids
    <3>1. list \in [Ids -> Line] /\ cur \in Ids
      BY DEF Types
    <3>2. \/ list' = list /\ cur' = cur
          \/ rows \in Line /\ list' = [list EXCEPT ![cur] = rows] /\ cur' = cur
          \/ rows \in Line /\ list' = [list EXCEPT ![NewList] = rows] /\ cur' = NewList
      BY <2>1 DEF AfterNotifications, Follows
    <3> QED
      BY <2>2, <3>1, <3>2
  <2>4. \A t \in Tabs : cursor'[t] # 1
    BY <2>1 DEF AfterNotifications, Types, CursorAfter
  <2>5. \A m \in Loads : Sane(m)'
    BY <2>1, <2>4, SaneAfter DEF AfterNotifications, Goes
  <2>6. load' \in [Loads -> LoadType]
    BY <2>1 DEF AfterNotifications, Goes
  <2>7. shown' \in [Tabs -> Line]
    <3>1. CASE new \in Line
      <4>1. shown \in [Tabs -> Line] /\ ("notifications" \in Tabs => shown["notifications"] \o new \in Line)
        BY <3>1 DEF Types, Line
      <4> QED
        BY <2>1, <2>2, <4>1 DEF AfterNotifications, Follows
    <3>2. CASE new \notin Line
      BY <2>1, <2>2, <3>2 DEF AfterNotifications, Follows, Types
    <3> QED
      BY <3>1, <3>2
  <2>8. loaded' \in Flags /\ failed' \in Flags
    BY <2>1 DEF AfterNotifications, Types, Flags
  <2>9. head' \in [Tabs -> Items]
    BY <2>1 DEF AfterNotifications, Types
  <2> QED
    BY <2>1, <2>3, <2>4, <2>5, <2>6, <2>7, <2>8, <2>9 DEF AfterNotifications, Types
<1>10. ASSUME NEW l \in Loads, ArriveSaved(l) PROVE Types'
  <2> DEFINE rows == Rows("saved", list[cur], load[l].from)
             new  == Beyond(list[cur], rows)
  <2>1. AfterSaved(l, rows, new)
    BY <1>10, SavedArrive
  <2> HIDE DEF rows, new
  <2>2. list' \in [Ids -> Line] /\ kept' \in [Tabs -> Ids]
    <3>1. list \in [Ids -> Line] /\ cur \in Ids /\ kept \in [Tabs -> Ids]
      BY DEF Types
    <3>2. \/ list' = list /\ kept' = kept
          \/ rows \in Line /\ list' = [list EXCEPT ![cur] = rows] /\ kept' = [kept EXCEPT !["saved"] = cur]
      BY <2>1 DEF AfterSaved, Follows
    <3> QED
      BY <3>1, <3>2
  <2>3. \A t \in Tabs : cursor'[t] # 1
    BY <2>1 DEF AfterSaved, Types, CursorAfter
  <2>4. \A m \in Loads : Sane(m)'
    BY <2>1, SaneAfter DEF AfterSaved
  <2>5. shown' \in [Tabs -> Line]
    <3>1. CASE new \in Line
      <4>1. shown \in [Tabs -> Line] /\ ("saved" \in Tabs => shown["saved"] \o new \in Line)
        BY <3>1 DEF Types, Line
      <4> QED
        BY <2>1, <4>1 DEF AfterSaved
    <3>2. CASE new \notin Line
      BY <2>1, <3>2 DEF AfterSaved, Types
    <3> QED
      BY <3>1, <3>2
  <2>6. loaded' \in Flags /\ failed' \in Flags
    BY <2>1 DEF AfterSaved, Types, Flags
  <2>7. head' \in [Tabs -> Items]
    BY <2>1 DEF AfterSaved, Types
  <2> QED
    BY <2>1, <2>2, <2>3, <2>4, <2>5, <2>6, <2>7 DEF AfterSaved, Types
<1>11. ASSUME NEW l \in Loads, ArriveRestore(l) PROVE Types'
  <2> DEFINE rows == Rows(load[l].tab, list[cur], load[l].from)
             new  == Beyond(list[cur], rows)
  <2>1. AfterRestore(l, rows, new)
    BY <1>11, RestoreArrives
  <2> HIDE DEF rows, new
  <2>2. list' \in [Ids -> Line]
    BY <2>1 DEF AfterRestore, Follows, Types
  <2>3. \A t \in Tabs : cursor'[t] # 1
    BY <2>1 DEF AfterRestore, Types, CursorAfter
  <2>4. \A m \in Loads : Sane(m)'
    <3>1. Others(l) /\ Goes(l, load[l].seen) /\ load[l].phase # "off" /\ load[l].tab # "saved"
      BY <2>1 DEF AfterRestore, Goes, Types, Sane
    <3> QED
      BY <2>3, <3>1, SaneAfter
  <2>5. load' \in [Loads -> LoadType]
    BY <2>1 DEF AfterRestore, Goes
  <2>6. shown' \in [Tabs -> Line]
    <3>1. shown \in [Tabs -> Line] /\ shown[load[l].tab] \in Line /\ new \in Line
      BY <2>1 DEF AfterRestore, Types
    <3>2. shown[load[l].tab] \o new \in Line
      BY <3>1 DEF Line
    <3> QED
      BY <2>1, <3>1, <3>2 DEF AfterRestore
  <2>7. loaded' \in Flags
    BY <2>1 DEF AfterRestore, Types, Flags
  <2> QED
    BY <2>1, <2>2, <2>3, <2>4, <2>5, <2>6, <2>7 DEF AfterRestore, Types
<1>12. ASSUME NEW l \in Loads, Fail(l) PROVE Types'
  <2>1. /\ UNCHANGED <<tab, loaded, pages, hide, top, head, news, lost>>
        /\ FailTimeline(l) \/ FailNotifications(l) \/ FailSaved(l)
    BY <1>12 DEF Fail
  <2>2. Ended(l) /\ load[l].phase # "off"
    BY <2>1 DEF FailTimeline, FailNotifications, FailSaved
  <2>3. load' \in [Loads -> LoadType] /\ Others(l) /\ load'[l] = NoLoad
    BY <2>2, NoLoadType, OneReplaced DEF Ended, Types
  <2>4. \A m \in Loads : Sane(m)'
    BY <2>3, SaneAfter
  <2>5. /\ load[l].prev \in {0} \cup Ids /\ load[l].back \in Items /\ load[l].back # 1
        /\ load[l].tab = "timeline" /\ ~load[l].more => load[l].prev \in Ids
        /\ <<>> \in Line
    BY <2>2, LoadFields DEF Types, Sane, Fresh, Line
  <2>6. clean' \in Flags /\ failed' \in Flags /\ halfway' \in Flags
    BY <2>1 DEF FailTimeline, FailNotifications, FailSaved, Types, Flags
  <2>7. /\ cur' \in Ids /\ cursor' \in [Tabs -> Items] /\ shown' \in [Tabs -> Line]
        /\ UNCHANGED <<list, kept>> /\ \A t \in Tabs : cursor'[t] # 1
    BY <2>1, <2>5 DEF FailTimeline, FailNotifications, FailSaved, Types, lists
  <2> QED
    BY <2>1, <2>3, <2>4, <2>6, <2>7 DEF Types
<1> QED
  BY <1>1, <1>2, <1>3, <1>4, <1>5, <1>6, <1>7, <1>8, <1>9, <1>10, <1>11, <1>12
  DEF Next, Answer, Reload, AnnounceHere

\* The variables have their types, and no restore fetches more pages than the ceiling,
\* at every page size, for any feed.
THEOREM TypesHold == Spec => []TypeOK
<1>1. Types => TypeOK
  <2> SUFFICES ASSUME Types PROVE TypeOK
    OBVIOUS
  <2>1. Line = Seq([tab : Tabs, uri : UNION {Range(Shows[i]) : i \in DOMAIN Shows}])
    BY DEF Line, Row, Uri
  <2>2. \A l \in Loads : /\ load[l].phase \in {"off", "fetch", "restore"} /\ load[l].tab \in Tabs
                         /\ load[l].budget \in 0..RestoreCap /\ load[l].depth \in 0..3
    BY LoadFields DEF Types
  <2> QED
    BY <2>1, <2>2 DEF Types, TypeOK, Flags
<1> QED
  BY <1>1, InitTypes, StepTypes, PTL DEF Spec

-----------------------------------------------------------------------------
(***************************************************************************)
(* No post is twice in a list.                                             *)
(***************************************************************************)
AllOnce == \A n \in Ids : Once(list[n])

\* In the empty list nothing is twice.
LEMMA NothingIsOnce == Once(<<>>)
BY DEF Once

\* One list may change, and has no post twice then.
LEMMA OneListChanges ==
    ASSUME Types, AllOnce, NEW n \in Ids, NEW r, Once(r),
           list' = list \/ list' = [list EXCEPT ![n] = r]
    PROVE  AllOnce'
BY DEF AllOnce, Types

\* No step puts a post into a list that has it.
LEMMA StepAllOnce ==
    ASSUME Types, AllOnce, [Next]_vars
    PROVE  AllOnce'
<1>1. NewList \in Ids /\ cur \in Ids /\ Once(<<>>) /\ Once(list[cur])
  BY NewListIsNew, NothingIsOnce DEF Types, AllOnce
<1>2. CASE list' = list
  BY <1>2, <1>1, OneListChanges
<1>3. ASSUME NEW l \in Loads, NEW t, NEW u, NEW c, StartFresh(l, t, u, c) PROVE AllOnce'
  BY <1>1, <1>3, OneListChanges DEF StartFresh
<1>4. ASSUME NEW t \in Tabs, SwitchTab(t) PROVE AllOnce'
  BY <1>2, <1>3, <1>4 DEF SwitchTab
<1>5. ASSUME NEW l \in Loads, Again(l) PROVE AllOnce'
  BY <1>3, <1>5 DEF Again
<1>6. ASSUME NEW l \in Loads, ArriveTimeline(l) PROVE AllOnce'
  <2> DEFINE rows == Rows("timeline", list[cur], load[l].from)
             new  == Beyond(list[cur], rows)
  <2>1. AfterTimeline(l, rows, new)
    BY <1>6, TimelineArrives
  <2> HIDE DEF rows, new
  <2> QED
    BY <2>1, <1>1, OneListChanges DEF AfterTimeline, Follows
<1>7. ASSUME NEW l \in Loads, ArriveNotifications(l) PROVE AllOnce'
  <2> DEFINE rows == Rows("notifications", IF load[l].more THEN list[cur] ELSE <<>>, load[l].from)
             new  == Beyond(list[cur], rows)
  <2>1. AfterNotifications(l, rows, new)
    BY <1>7, NotificationsArrive
  <2> HIDE DEF rows, new
  <2> QED
    BY <2>1, <1>1, <1>2, OneListChanges DEF AfterNotifications, Follows
<1>8. ASSUME NEW l \in Loads, ArriveSaved(l) PROVE AllOnce'
  <2> DEFINE rows == Rows("saved", list[cur], load[l].from)
             new  == Beyond(list[cur], rows)
  <2>1. AfterSaved(l, rows, new)
    BY <1>8, SavedArrive
  <2> HIDE DEF rows, new
  <2> QED
    BY <2>1, <1>1, <1>2, OneListChanges DEF AfterSaved, Follows
<1>9. ASSUME NEW l \in Loads, ArriveRestore(l) PROVE AllOnce'
  <2> DEFINE rows == Rows(load[l].tab, list[cur], load[l].from)
             new  == Beyond(list[cur], rows)
  <2>1. AfterRestore(l, rows, new)
    BY <1>9, RestoreArrives
  <2> HIDE DEF rows, new
  <2> QED
    BY <2>1, <1>1, OneListChanges DEF AfterRestore, Follows
<1>10. ASSUME NEW l \in Loads, Fail(l) PROVE AllOnce'
  BY <1>2, <1>10 DEF Fail, FailTimeline, FailNotifications, FailSaved, lists
<1>11. ASSUME NEW l \in Loads, More(l) PROVE AllOnce'
  BY <1>2, <1>11 DEF More, lists
<1>12. CASE ToggleHide
  BY <1>2, <1>5, <1>12 DEF ToggleHide, lists
<1>13. ASSUME NEW t \in Tabs, Announce(t) PROVE AllOnce'
  BY <1>2, <1>13 DEF Announce, lists
<1>14. CASE Post \/ UNCHANGED vars
  BY <1>2, <1>14 DEF Post, vars, lists
<1> QED
  BY <1>4, <1>5, <1>6, <1>7, <1>8, <1>9, <1>10, <1>11, <1>12, <1>13, <1>14
  DEF Next, Answer, Reload, AnnounceHere

\* No post of the timeline or of the saved posts is twice in a list, whatever loads
\* overlap, whatever fails.
THEOREM PostsAreOnce == Spec => []NoPostTwice
<1>1. Types /\ AllOnce => NoPostTwice
  BY DEF Types, AllOnce, Once, NoPostTwice
<1>2. Init => AllOnce
  BY NothingIsOnce DEF Init, AllOnce
<1> QED
  BY <1>1, <1>2, InitTypes, StepTypes, StepAllOnce, PTL DEF Spec

-----------------------------------------------------------------------------
(***************************************************************************)
(* Who else is at work while a tab is clean.                               *)
(***************************************************************************)
\* While a tab is clean, all loads are of the tab on the screen; while that one is, a
\* fresh load has the page to itself.
Here  == \A t \in Tabs, l \in Loads : clean[t] /\ load[l].phase # "off" => load[l].tab = tab
Alone == \A l, m \in Loads : clean[tab] /\ Fresh(l) /\ m # l => load[m].phase = "off"

\* What a fresh load does besides.
AfterFresh(l, t, c) ==
    /\ Begins(l, t, c)
    /\ cursor' = [cursor EXCEPT ![t] = 0]
    /\ halfway' = [halfway EXCEPT ![t] = FALSE]
    /\ \/ t = "notifications" /\ cur' = c /\ list' = list
       \/ t # "notifications" /\ cur' = NewList /\ list' = [list EXCEPT ![NewList] = <<>>]
    /\ shown' = (IF t = "saved" THEN [shown EXCEPT ![t] = <<>>] ELSE shown)

\* A fresh load, as the proofs below need it.
LEMMA FreshDoes ==
    ASSUME Types, NEW l \in Loads, NEW t \in Tabs, NEW u \in {0} \cup Uri, NEW c \in Ids,
           StartFresh(l, t, u, c)
    PROVE  AfterFresh(l, t, c)
<1>1. Begins(l, t, c)
  BY FreshBegins
<1> QED
  BY <1>1 DEF StartFresh, AfterFresh

AfterAgain(l) == /\ AfterFresh(l, tab, cur)
                 /\ clean' = [clean EXCEPT ![tab] = ~Busy]
                 /\ UNCHANGED <<tab, kept, loaded, top, failed, head, news>>

\* A reload of the tab on the screen, as the proofs below need it.
LEMMA AgainDoes ==
    ASSUME Types, NEW l \in Loads, Again(l)
    PROVE  AfterAgain(l)
<1>1. PICK u \in Focused : StartFresh(l, tab, IF tab = "saved" THEN 0 ELSE u, cur)
  BY DEF Again
<1> DEFINE w == IF tab = "saved" THEN 0 ELSE u
<1>2. w \in {0} \cup Uri /\ tab \in Tabs /\ cur \in Ids
  BY FocusedType DEF Types
<1> HIDE DEF w
<1>3. StartFresh(l, tab, w, cur)
  BY <1>1 DEF w
<1>4. AfterFresh(l, tab, cur)
  BY <1>2, <1>3, FreshDoes
<1> QED
  BY <1>4 DEF Again, AfterAgain

\* Another tab, or the same again; nothing is clean if a load was under way.
AfterSwitch(t, home) ==
    /\ home = (IF t = tab THEN cur ELSE kept[t]) /\ home \in Ids
    /\ tab' = t /\ kept' = [kept EXCEPT ![tab] = cur]
    /\ UNCHANGED <<top, failed, head, news>>
    /\ \A x \in Tabs : x # t => loaded'[x] = loaded[x]
    /\ Busy => \A x \in Tabs : ~clean'[x]
    /\ \/ /\ cur' = home /\ loaded'[t] /\ loaded[t] /\ (t # tab => t = "timeline")
          /\ ~Busy => clean' = clean
          /\ UNCHANGED <<list, cursor, shown, load, halfway>>
       \/ /\ \E l \in Loads : AfterFresh(l, t, home)
          /\ ~Busy => clean' = [clean EXCEPT ![t] = TRUE]

\* A switch of tabs, as the proofs below need it.
LEMMA SwitchDoes ==
    ASSUME Types, NEW t \in Tabs, SwitchTab(t)
    PROVE  \E home : AfterSwitch(t, home)
<1> DEFINE home == IF t = tab THEN cur ELSE kept[t]
           have == loaded[t] /\ ~Stale(t)
           free == IF Busy THEN [u \in Tabs |-> FALSE] ELSE clean
<1>1. home \in Ids
  BY DEF Types
<1>2. /\ tab' = t /\ kept' = [kept EXCEPT ![tab] = cur]
      /\ loaded' = [loaded EXCEPT ![t] = have]
      /\ UNCHANGED <<top, failed, head, news>>
      /\ IF have THEN /\ cur' = home /\ clean' = free
                      /\ UNCHANGED <<list, pages, cursor, shown, load, halfway>>
         ELSE /\ \E l \in Loads : StartFresh(l, t, 0, home)
              /\ clean' = [free EXCEPT ![t] = ~Busy]
  BY DEF SwitchTab
<1>3. \A x \in Tabs : x # t => loaded'[x] = loaded[x]
  BY <1>2 DEF Types, Flags
<1>4. Busy \in BOOLEAN /\ clean \in Flags
  BY DEF Types, Busy
<1>5. CASE have
  <2>1. loaded'[t] /\ loaded[t] /\ (t # tab => t = "timeline")
    BY <1>2, <1>5 DEF Types, Flags, Stale
  <2>2. Busy => \A x \in Tabs : ~clean'[x]
    BY <1>2, <1>5
  <2>3. ~Busy => clean' = clean
    BY <1>2, <1>5
  <2>4. AfterSwitch(t, home)
    BY <1>1, <1>2, <1>3, <1>5, <2>1, <2>2, <2>3 DEF AfterSwitch
  <2> QED
    BY <2>4
<1>6. CASE ~have
  <2>1. PICK l \in Loads : StartFresh(l, t, 0, home)
    BY <1>2, <1>6
  <2>2. AfterFresh(l, t, home)
    BY <1>1, <2>1, FreshDoes
  <2>3. Busy => \A x \in Tabs : ~clean'[x]
    BY <1>2, <1>6
  <2>4. ~Busy => clean' = [clean EXCEPT ![t] = TRUE]
    BY <1>2, <1>6
  <2>5. AfterSwitch(t, home)
    BY <1>1, <1>2, <1>3, <2>2, <2>3, <2>4 DEF AfterSwitch
  <2> QED
    BY <2>5
<1> QED
  BY <1>5, <1>6

\* loadMore.
AfterMore(l) ==
    /\ load' \in [Loads -> LoadType] /\ Others(l)
    /\ load[l].phase = "off"
    /\ load'[l].phase = "fetch" /\ load'[l].tab = tab /\ load'[l].more
    /\ load'[l].from = cursor[tab] /\ cursor[tab] # 0
    /\ load'[l].prev = 0 /\ load'[l].back = 0
    /\ \A t \in Tabs : clean'[t] => clean[t]
    /\ clean'[tab] => ~Refreshing
    /\ UNCHANGED <<tab, cur, list, kept, loaded, cursor, shown, top, halfway, failed, head, news>>

\* The key j on the last row, as the proofs below need it.
LEMMA MoreDoes ==
    ASSUME Types, NEW l \in Loads, More(l)
    PROVE  AfterMore(l)
<1> DEFINE r == [NoLoad EXCEPT !.phase = "fetch", !.tab = tab, !.more = TRUE,
                               !.from = cursor[tab], !.depth = 1]
<1>1. tab \in Tabs /\ cursor[tab] \in Items
  BY DEF Types
<1>2. r \in LoadType
  <2>1. 1 \in 0..3 /\ NoLoad \in LoadType
    BY NoLoadType
  <2> QED
    BY <1>1, <2>1 DEF LoadType
<1>3. r.phase = "fetch" /\ r.more /\ r.from = cursor[tab] /\ r.tab = tab /\ r.prev = 0 /\ r.back = 0
  BY DEF NoLoad
<1>4. load' = [load EXCEPT ![l] = r] /\ load[l].phase = "off" /\ cursor[tab] # 0
  BY DEF More
<1> HIDE DEF r
<1>5. load' \in [Loads -> LoadType] /\ Others(l) /\ load'[l] = r
  BY <1>2, <1>4, OneReplaced DEF Types
<1>6. (\A t \in Tabs : clean'[t] => clean[t]) /\ (clean'[tab] => ~Refreshing)
  BY <1>1 DEF More, Types, Flags
<1> QED
  BY <1>3, <1>4, <1>5, <1>6 DEF More, AfterMore, lists, marks

\* A load goes on or ends.
Going(l) == /\ Others(l) /\ load[l].phase # "off" /\ tab' = tab
            /\ \A t \in Tabs : clean'[t] => clean[t]
            /\ load'[l].phase # "off" => load'[l].tab = load[l].tab /\ (load'[l].more <=> load[l].more)

\* An answer moves its own load only.
LEMMA ArrivesGoing ==
    ASSUME NEW l \in Loads, NEW rows, NEW new,
           \/ AfterTimeline(l, rows, new) \/ AfterNotifications(l, rows, new)
           \/ AfterSaved(l, rows, new) \/ AfterRestore(l, rows, new)
    PROVE  Going(l)
<1>1. CASE AfterTimeline(l, rows, new)
  BY <1>1, NoLoadType DEF Going, AfterTimeline, Goes, TopsUp
<1>2. CASE AfterNotifications(l, rows, new)
  BY <1>2, NoLoadType DEF Going, AfterNotifications, Goes
<1>3. CASE AfterSaved(l, rows, new)
  BY <1>3, NoLoadType DEF Going, AfterSaved
<1>4. CASE AfterRestore(l, rows, new)
  BY <1>4, NoLoadType DEF Going, AfterRestore, Goes
<1> QED
  BY <1>1, <1>2, <1>3, <1>4

\* A failure ends its own load only.
LEMMA FailGoing ==
    ASSUME Types, NEW l \in Loads, Fail(l)
    PROVE  Going(l) /\ load'[l] = NoLoad
<1>1. FailTimeline(l) \/ FailNotifications(l) \/ FailSaved(l)
  BY DEF Fail
<1>2. Ended(l) /\ load[l].phase # "off"
  BY <1>1 DEF FailTimeline, FailNotifications, FailSaved
<1>3. Others(l) /\ load'[l] = NoLoad
  BY <1>2, NoLoadType, OneReplaced DEF Ended, Types
<1>4. \A t \in Tabs : clean'[t] => clean[t]
  BY <1>1 DEF FailTimeline, FailNotifications, FailSaved, Types, Flags
<1> QED
  BY <1>2, <1>3, <1>4, NoLoadType DEF Going, Fail

\* "Hide replies" away from the timeline; a new item, or nothing.
AfterHide == /\ tab # "timeline" /\ clean' = [clean EXCEPT !["timeline"] = FALSE]
             /\ UNCHANGED <<tab, cur, list, kept, loaded, cursor, shown, load, top, halfway,
                            failed, head, news>>
AfterPost == /\ top' \in {top, top + 1}
             /\ UNCHANGED <<tab, cur, list, kept, loaded, cursor, shown, load, clean, halfway,
                            failed, head, news>>

\* What a step is, as far as the proofs below have use for it.
OneStep == \/ \E l \in Loads : AfterMore(l) \/ AfterAgain(l) \/ Fail(l)
           \/ \E l \in Loads : \E rows, new : \/ AfterTimeline(l, rows, new)
                                              \/ AfterNotifications(l, rows, new)
                                              \/ AfterSaved(l, rows, new)
                                              \/ AfterRestore(l, rows, new)
           \/ \E t \in Tabs : \E home : AfterSwitch(t, home)
           \/ \E t \in Tabs : Announce(t)
           \/ AfterHide \/ AfterPost

\* Every step is one of a few kinds.
LEMMA StepIsOne ==
    ASSUME Types, [Next]_vars
    PROVE  OneStep
<1>1. ASSUME NEW l \in Loads, More(l) PROVE OneStep
  BY <1>1, MoreDoes DEF OneStep
<1>2. ASSUME NEW l \in Loads, Again(l) PROVE OneStep
  BY <1>2, AgainDoes DEF OneStep
<1>3. ASSUME NEW l \in Loads, ArriveTimeline(l) PROVE OneStep
  BY <1>3, TimelineArrives DEF OneStep
<1>4. ASSUME NEW l \in Loads, ArriveNotifications(l) PROVE OneStep
  BY <1>4, NotificationsArrive DEF OneStep
<1>5. ASSUME NEW l \in Loads, ArriveSaved(l) PROVE OneStep
  BY <1>5, SavedArrive DEF OneStep
<1>6. ASSUME NEW l \in Loads, ArriveRestore(l) PROVE OneStep
  BY <1>6, RestoreArrives DEF OneStep
<1>7. ASSUME NEW l \in Loads, Fail(l) PROVE OneStep
  BY <1>7 DEF OneStep
<1>8. ASSUME NEW t \in Tabs, SwitchTab(t) PROVE OneStep
  BY <1>8, SwitchDoes DEF OneStep
<1>9. ASSUME NEW t \in Tabs, Announce(t) PROVE OneStep
  BY <1>9 DEF OneStep
<1>10. CASE ToggleHide
  <2>1. CASE \E l \in Loads : Again(l)
    BY <2>1, <1>2
  <2>2. CASE ~ \E l \in Loads : Again(l)
    <3>1. AfterHide
      BY <1>10, <2>2 DEF ToggleHide, AfterHide, lists, marks
    <3> QED
      BY <3>1 DEF OneStep
  <2> QED
    BY <2>1, <2>2
<1>11. CASE Post \/ UNCHANGED vars
  <2>1. AfterPost
    BY <1>11 DEF Post, AfterPost, vars, lists, marks, history
  <2> QED
    BY <2>1 DEF OneStep
<1> QED
  BY <1>1, <1>2, <1>3, <1>4, <1>5, <1>6, <1>7, <1>8, <1>9, <1>10, <1>11
  DEF Next, Answer, Reload, AnnounceHere

\* An answer leaves alone who else loads, and which tab that is.
LEMMA GoingGuards ==
    ASSUME Types, Here, Alone, NEW l \in Loads, Going(l)
    PROVE  Here' /\ Alone'
<1>1. \A m \in Loads : load'[m].phase # "off" =>
        /\ load[m].phase # "off" /\ load'[m].tab = load[m].tab /\ (load'[m].more <=> load[m].more)
  BY DEF Going, Others
<1>2. Here'
  BY <1>1 DEF Here, Going
<1>3. tab \in Tabs
  BY DEF Types
<1>4. Alone'
  BY <1>1, <1>3 DEF Alone, Fresh, Going
<1> QED
  BY <1>2, <1>4

\* Every step keeps the loads of clean tabs to themselves.
LEMMA StepGuards ==
    ASSUME Types, Here, Alone, OneStep
    PROVE  Here' /\ Alone'
<1>0. tab \in Tabs /\ clean \in Flags /\ Busy \in BOOLEAN
  BY DEF Types, Busy
<1>1. ASSUME NEW l \in Loads, AfterMore(l) PROVE Here' /\ Alone'
  <2>1. Here'
    BY <1>1 DEF Here, AfterMore, Others
  <2>2. Alone'
    BY <1>0, <1>1 DEF Alone, AfterMore, Others, Fresh, Refreshing
  <2> QED
    BY <2>1, <2>2
<1>2. ASSUME NEW l \in Loads, AfterAgain(l) PROVE Here' /\ Alone'
  <2>1. /\ tab' = tab /\ Others(l) /\ load'[l].tab = tab /\ clean' = [clean EXCEPT ![tab] = ~Busy]
    BY <1>2 DEF AfterAgain, AfterFresh, Begins
  <2>2. clean'[tab] => ~Busy
    BY <1>0, <2>1 DEF Flags
  <2>3. \A t \in Tabs : t # tab => clean'[t] = clean[t]
    BY <1>0, <2>1 DEF Flags
  <2>4. Here'
    <3> SUFFICES ASSUME NEW t \in Tabs, NEW m \in Loads, clean'[t], load'[m].phase # "off"
                 PROVE  load'[m].tab = tab
      BY <2>1 DEF Here
    <3>1. CASE m = l
      BY <3>1, <2>1
    <3>2. CASE m # l
      <4>1. load'[m] = load[m]
        BY <3>2, <2>1 DEF Others
      <4> QED
        BY <4>1, <2>2, <2>3 DEF Busy, Here
    <3> QED
      BY <3>1, <3>2
  <2>5. Alone'
    BY <2>1, <2>2 DEF Alone, Others, Busy, Fresh
  <2> QED
    BY <2>4, <2>5
<1>3. ASSUME NEW l \in Loads, Going(l) PROVE Here' /\ Alone'
  BY <1>3, GoingGuards
<1>4. ASSUME NEW t \in Tabs, NEW home, AfterSwitch(t, home) PROVE Here' /\ Alone'
  <2>1. CASE Busy
    BY <2>1, <1>4 DEF AfterSwitch, Here, Alone
  <2>2. CASE ~Busy /\ load' = load
    BY <2>2 DEF Busy, Here, Alone, Fresh
  <2>3. CASE ~Busy /\ \E l \in Loads : AfterFresh(l, t, home)
    <3>1. PICK l \in Loads : AfterFresh(l, t, home)
      BY <2>3
    <3>2. /\ \A m \in Loads : m # l => load'[m].phase = "off"
          /\ load'[l].tab = t /\ tab' = t
      BY <2>3, <3>1, <1>4 DEF Busy, AfterFresh, Begins, Others, AfterSwitch
    <3> QED
      BY <3>2 DEF Here, Alone, Fresh
  <2> QED
    BY <1>4, <2>1, <2>2, <2>3 DEF AfterSwitch
<1>5. CASE \E t \in Tabs : Announce(t)
  BY <1>5 DEF Announce, Here, Alone, Fresh
<1>6. CASE AfterHide \/ AfterPost
  <2>1. tab' = tab /\ load' = load /\ \A t \in Tabs : clean'[t] => clean[t]
    BY <1>6, <1>0 DEF AfterHide, AfterPost, Flags
  <2> QED
    BY <2>1, <1>0 DEF Here, Alone, Fresh
<1> QED
  BY <1>1, <1>2, <1>3, <1>4, <1>5, <1>6, ArrivesGoing, FailGoing DEF OneStep

-----------------------------------------------------------------------------
(***************************************************************************)
(* What sync has announced is there.                                       *)
(***************************************************************************)
Unfetched(t) == t = tab => \A l \in Loads : ~Fetching(l)

\* News are no newer than the feed; a fresh load that has its first page has seen
\* them, and so has the last load of a tab that counts as loaded; the tab on the
\* screen counts as loaded, or is being loaded, or has never been touched.
NewsIsOld  == \A t \in Tabs : news[t] <= top
NewsIsSeen == \A l \in Loads : clean[tab] /\ Fresh(l) /\ load[l].depth # 1 => load[l].seen >= news[tab]
NewsIsIn   == \A t \in Tabs : clean[t] /\ ~failed[t] /\ loaded[t] /\ Unfetched(t) => head[t] >= news[t]
Untouched  == cursor[tab] = 0 /\ \A l \in Loads : load[l].phase = "off"
NotLoaded  == clean[tab] /\ ~failed[tab] /\ ~loaded[tab] => Untouched \/ \E l \in Loads : Fetching(l)

NewsInv == NewsIsOld /\ NewsIsSeen /\ NewsIsIn /\ NotLoaded

\* A fresh load of a clean tab has met all news when it has a page.
LEMMA MetNews ==
    ASSUME Types, NewsInv, NEW l \in Loads, clean[tab], Fresh(l)
    PROVE  Met(l) >= news[tab]
BY DEF Types, NewsInv, NewsIsOld, NewsIsSeen, Met

\* A load that is not fetching a first page arrives at a tab that counts as loaded.
LEMMA LoadedBefore ==
    ASSUME Types, Here, Alone, NewsInv, NEW l \in Loads, load[l].phase # "off", ~Fetching(l),
           clean[tab]
    PROVE  (\A m \in Loads : ~Fetching(m)) /\ (~failed[tab] => loaded[tab] /\ head[tab] >= news[tab])
<1>1. \A m \in Loads : ~Fetching(m)
  BY DEF Alone, Fetching, Fresh
<1> QED
  BY <1>1 DEF NewsInv, NotLoaded, NewsIsIn, Unfetched, Untouched, Types

\* A load that ends or goes on, and what may become of the tab it is for.
LEMMA GoingNews ==
    ASSUME Types, Here, Alone, NewsInv, NEW l \in Loads, Going(l), NEW x, x = load[l].tab,
           NEW s, clean[tab] /\ Fresh(l) => s >= news[tab],
           UNCHANGED <<top, news>>,
           \A t \in Tabs : t # x => UNCHANGED <<head[t], failed[t], loaded[t]>>,
           Fresh(l) /\ load'[l].phase # "off" => load'[l].seen = s \/ UNCHANGED <<load[l].seen, load[l].depth>>,
           \/ failed'[x]
           \/ UNCHANGED <<head[x], failed[x], loaded[x]>> /\ (Fetching(l) => Fetching(l)')
           \/ UNCHANGED <<head[x], failed[x]>> /\ ~Fetching(l) /\ loaded'[x]
           \/ ~load[l].more /\ head'[x] = s /\ loaded'[x]
    PROVE  NewsInv'
<1>0. tab \in Tabs /\ x \in Tabs /\ load[l].phase # "off" /\ tab' = tab
  BY LoadFields DEF Types, Going
<1>1. NewsIsOld'
  BY DEF NewsInv, NewsIsOld
<1>2. (\E t \in Tabs : clean'[t]) => x = tab
  BY <1>0 DEF Here, Going
<1>3. \A m \in Loads : m # l => load'[m] = load[m]
  BY DEF Going, Others
<1>4. NewsIsSeen'
  <2> SUFFICES ASSUME NEW m \in Loads, clean'[tab], Fresh(m)', load'[m].depth # 1
               PROVE  load'[m].seen >= news[tab]
    BY <1>0 DEF NewsIsSeen
  <2>1. clean[tab]
    BY <1>0 DEF Going
  <2>2. CASE m = l
    <3>1. Fresh(l) /\ s >= news[tab]
      BY <1>0, <2>1, <2>2 DEF Fresh, Going
    <3>2. CASE load'[l].seen = s
      BY <2>2, <3>1, <3>2
    <3>3. CASE UNCHANGED <<load[l].seen, load[l].depth>>
      BY <2>1, <2>2, <3>1, <3>3 DEF NewsInv, NewsIsSeen
    <3> QED
      BY <2>2, <3>1, <3>2, <3>3 DEF Fresh
  <2>3. CASE m # l
    BY <1>3, <2>1, <2>3 DEF NewsInv, NewsIsSeen, Fresh
  <2> QED
    BY <2>2, <2>3
<1>5. NewsIsIn'
  <2> SUFFICES ASSUME NEW t \in Tabs, clean'[t], ~failed'[t], loaded'[t], Unfetched(t)'
               PROVE  head'[t] >= news[t]
    BY DEF NewsIsIn
  <2>1. clean[t] /\ x = tab
    BY <1>2 DEF Going
  <2>2. CASE t # x
    BY <2>1, <2>2 DEF NewsInv, NewsIsIn, Unfetched
  <2>3. CASE t = x
    <3>1. CASE ~load[l].more /\ head'[x] = s
      BY <1>0, <2>1, <2>3, <3>1 DEF Fresh
    <3>2. CASE UNCHANGED <<head[x], failed[x]>> /\ ~Fetching(l)
      BY <1>0, <2>1, <2>3, <3>2, LoadedBefore
    <3>3. CASE UNCHANGED <<head[x], failed[x], loaded[x]>> /\ Fetching(l) /\ Fetching(l)'
      BY <1>0, <2>1, <2>3, <3>3 DEF Unfetched
    <3> QED
      BY <2>3, <3>1, <3>2, <3>3
  <2> QED
    BY <2>2, <2>3
<1>6. NotLoaded'
  <2> SUFFICES ASSUME clean'[tab], ~failed'[tab], ~loaded'[tab]
               PROVE  \E m \in Loads : Fetching(m)'
    BY <1>0 DEF NotLoaded
  <2>1. clean[tab] /\ x = tab
    BY <1>0, <1>2 DEF Going
  <2>2. UNCHANGED <<head[x], failed[x], loaded[x]>> /\ (Fetching(l) => Fetching(l)')
    BY <2>1
  <2>3. PICK m \in Loads : Fetching(m)
    BY <1>0, <2>1, <2>2 DEF NewsInv, NotLoaded, Untouched
  <2> QED
    BY <1>3, <2>2, <2>3 DEF Fetching
<1> QED
  BY <1>1, <1>4, <1>5, <1>6 DEF NewsInv

\* Every step keeps what sync announced behind what was loaded.
LEMMA StepNews ==
    ASSUME Types, Here, Alone, NewsInv, OneStep
    PROVE  NewsInv'
<1>0. /\ tab \in Tabs /\ clean \in Flags /\ loaded \in Flags /\ failed \in Flags /\ Busy \in BOOLEAN
      /\ \A t \in Tabs : head[t] \in Items /\ news[t] \in Items
      /\ top \in Items
  BY DEF Types, Busy
<1>1. ASSUME NEW l \in Loads, AfterMore(l) PROVE NewsInv'
  <2>1. /\ UNCHANGED <<tab, loaded, cursor, top, failed, head, news>> /\ Others(l)
        /\ ~Fetching(l) /\ ~Fetching(l)' /\ ~Fresh(l)' /\ cursor[tab] # 0
        /\ \A t \in Tabs : clean'[t] => clean[t]
    BY <1>1 DEF AfterMore, Fetching, Fresh
  <2>2. \A m \in Loads : m # l => load'[m] = load[m] /\ (Fetching(m)' <=> Fetching(m)) /\ (Fresh(m)' <=> Fresh(m))
    BY <2>1 DEF Others, Fetching, Fresh
  <2>3. NewsIsOld' /\ NewsIsSeen'
    BY <1>0, <2>1, <2>2 DEF NewsInv, NewsIsOld, NewsIsSeen
  <2>4. NewsIsIn'
    BY <2>1, <2>2 DEF NewsInv, NewsIsIn, Unfetched
  <2>5. NotLoaded'
    BY <1>0, <2>1, <2>2 DEF NewsInv, NotLoaded, Untouched
  <2> QED
    BY <2>3, <2>4, <2>5 DEF NewsInv
<1>2. ASSUME NEW l \in Loads, AfterAgain(l) PROVE NewsInv'
  <2>1. /\ UNCHANGED <<tab, loaded, top, failed, head, news>> /\ Others(l)
        /\ Fetching(l)' /\ load'[l].depth = 1 /\ clean' = [clean EXCEPT ![tab] = ~Busy]
    BY <1>2 DEF AfterAgain, AfterFresh, Begins, Fetching
  <2>2. (clean'[tab] => ~Busy) /\ \A t \in Tabs : t # tab => clean'[t] = clean[t]
    BY <1>0, <2>1 DEF Flags
  <2>3. NewsIsOld' /\ NewsIsSeen'
    BY <2>1, <2>2 DEF NewsInv, NewsIsOld, NewsIsSeen, Others, Busy, Fresh
  <2>4. NewsIsIn'
    BY <2>1, <2>2 DEF NewsInv, NewsIsIn, Unfetched
  <2>5. NotLoaded'
    BY <2>1 DEF NotLoaded
  <2> QED
    BY <2>3, <2>4, <2>5 DEF NewsInv
<1>3. ASSUME NEW t \in Tabs, NEW home, AfterSwitch(t, home) PROVE NewsInv'
  <2>1. /\ tab' = t /\ UNCHANGED <<top, failed, head, news>>
        /\ \A x \in Tabs : x # t => loaded'[x] = loaded[x]
        /\ Busy => \A x \in Tabs : ~clean'[x]
    BY <1>3 DEF AfterSwitch
  <2>2. NewsIsOld'
    BY <2>1 DEF NewsInv, NewsIsOld
  <2>3. CASE Busy
    BY <2>1, <2>2, <2>3 DEF NewsInv, NewsIsSeen, NewsIsIn, NotLoaded
  <2>4. CASE ~Busy /\ load' = load /\ loaded'[t] /\ loaded[t] /\ clean' = clean
    <3>1. \A m \in Loads : ~Fresh(m) /\ ~Fetching(m) /\ ~Fresh(m)'
      BY <2>4 DEF Busy, Fresh, Fetching
    <3>2. NewsIsSeen' /\ NotLoaded'
      BY <2>1, <2>4, <3>1 DEF NewsIsSeen, NotLoaded
    <3>3. NewsIsIn'
      BY <2>1, <2>4, <3>1 DEF NewsInv, NewsIsIn, Unfetched
    <3> QED
      BY <2>2, <3>2, <3>3 DEF NewsInv
  <2>5. ASSUME ~Busy, NEW l \in Loads, AfterFresh(l, t, home), clean' = [clean EXCEPT ![t] = TRUE]
        PROVE  NewsInv'
    <3>1. Fetching(l)' /\ load'[l].depth = 1 /\ \A m \in Loads : ~Fetching(m) /\ (m # l => ~Fresh(m)')
      BY <2>5 DEF AfterFresh, Begins, Fetching, Fresh, Busy, Others
    <3>2. NewsIsSeen' /\ NotLoaded'
      BY <2>1, <3>1 DEF NewsIsSeen, NotLoaded
    <3>3. \A x \in Tabs : x # t => clean'[x] = clean[x]
      BY <1>0, <2>5 DEF Flags
    <3>4. NewsIsIn'
      BY <2>1, <3>1, <3>3 DEF NewsInv, NewsIsIn, Unfetched
    <3> QED
      BY <2>2, <3>2, <3>4 DEF NewsInv
  <2> QED
    BY <1>3, <2>3, <2>4, <2>5 DEF AfterSwitch
<1>4. ASSUME NEW t \in Tabs, Announce(t) PROVE NewsInv'
  <2>1. /\ t # tab /\ loaded' = [loaded EXCEPT ![t] = FALSE] /\ news' = [news EXCEPT ![t] = top]
        /\ UNCHANGED <<tab, cursor, load, top, clean, failed, head>>
    BY <1>4 DEF Announce
  <2>2. /\ ~loaded'[t] /\ news'[t] = top /\ news'[tab] = news[tab] /\ loaded'[tab] = loaded[tab]
        /\ \A x \in Tabs : x # t => loaded'[x] = loaded[x] /\ news'[x] = news[x]
    BY <1>0, <2>1 DEF Types, Flags
  <2>3. NewsIsOld'
    BY <1>0, <2>1, <2>2 DEF NewsInv, NewsIsOld, Items
  <2>4. NewsIsSeen' /\ NewsIsIn' /\ NotLoaded'
    BY <2>1, <2>2 DEF NewsInv, NewsIsSeen, NewsIsIn, NotLoaded, Unfetched, Untouched, Fresh, Fetching
  <2> QED
    BY <2>3, <2>4 DEF NewsInv
<1>5. CASE AfterHide \/ AfterPost
  <2>1. /\ UNCHANGED <<tab, loaded, cursor, load, failed, head, news>> /\ top' >= top
        /\ \A t \in Tabs : clean'[t] => clean[t]
    BY <1>0, <1>5 DEF AfterHide, AfterPost, Flags, Items
  <2>2. top' \in Int
    BY <1>0, <1>5 DEF AfterHide, AfterPost, Items
  <2>3. NewsIsOld'
    BY <1>0, <2>1, <2>2 DEF NewsInv, NewsIsOld, Items
  <2>4. NewsIsSeen' /\ NewsIsIn' /\ NotLoaded'
    BY <1>0, <2>1 DEF NewsInv, NewsIsSeen, NewsIsIn, NotLoaded, Unfetched, Untouched, Fresh, Fetching
  <2> QED
    BY <2>3, <2>4 DEF NewsInv
<1>6. ASSUME NEW l \in Loads, NEW rows, NEW new, AfterTimeline(l, rows, new) PROVE NewsInv'
  <2>1. Going(l) /\ load[l].tab = "timeline" /\ UNCHANGED <<top, news>>
    BY <1>6, ArrivesGoing DEF AfterTimeline
  <2>2. clean[tab] /\ Fresh(l) => Met(l) >= news[tab]
    BY MetNews
  <2>3. \A t \in Tabs : t # "timeline" => UNCHANGED <<head[t], failed[t], loaded[t]>>
    BY <1>6 DEF AfterTimeline, Types, Flags
  <2>4. Fresh(l) /\ load'[l].phase # "off" => load'[l].seen = Met(l)
    BY <1>6, NoLoadType DEF AfterTimeline, TopsUp, Goes
  <2>5. \/ UNCHANGED <<head["timeline"], failed["timeline"], loaded["timeline"]>>
           /\ (Fetching(l) => Fetching(l)')
        \/ UNCHANGED <<head["timeline"], failed["timeline"]>> /\ ~Fetching(l) /\ loaded'["timeline"]
        \/ ~load[l].more /\ head'["timeline"] = Met(l) /\ loaded'["timeline"]
    <3>1. CASE TopsUp(l, new) /\ UNCHANGED <<loaded, head, failed>>
      BY <3>1 DEF TopsUp, Fetching
    <3>2. CASE ~(TopsUp(l, new) /\ UNCHANGED <<loaded, head, failed>>)
      <4>1. "timeline" \in DOMAIN head /\ "timeline" \in DOMAIN failed /\ "timeline" \in DOMAIN loaded
        BY DEF Types, Flags
      <4> QED
        BY <1>6, <3>2, <4>1 DEF AfterTimeline, Fetching
    <3> QED
      BY <3>1, <3>2
  <2> QED
    BY <2>1, <2>2, <2>3, <2>4, <2>5, GoingNews
<1>7. ASSUME NEW l \in Loads, NEW rows, NEW new, AfterNotifications(l, rows, new) PROVE NewsInv'
  <2>1. Going(l) /\ load[l].tab = "notifications" /\ UNCHANGED <<top, news>>
    BY <1>7, ArrivesGoing DEF AfterNotifications
  <2>2. top >= news[tab]
    BY <1>0 DEF NewsInv, NewsIsOld, Items
  <2>3. \A t \in Tabs : t # "notifications" => UNCHANGED <<head[t], failed[t], loaded[t]>>
    BY <1>7 DEF AfterNotifications, Types, Flags
  <2>4. Fresh(l) /\ load'[l].phase # "off" => load'[l].seen = top
    BY <1>7, NoLoadType DEF AfterNotifications, Goes
  <2>5. "notifications" \in Tabs
    BY <2>1, LoadFields DEF Types
  <2>6. \/ UNCHANGED <<head["notifications"], failed["notifications"]>> /\ ~Fetching(l)
           /\ loaded'["notifications"]
        \/ ~load[l].more /\ head'["notifications"] = top /\ loaded'["notifications"]
    BY <1>7, <2>5 DEF AfterNotifications, Fetching, Types, Flags
  <2> QED
    BY <2>1, <2>2, <2>3, <2>4, <2>6, GoingNews
<1>8. ASSUME NEW l \in Loads, NEW rows, NEW new, AfterSaved(l, rows, new) PROVE NewsInv'
  <2>1. Going(l) /\ load[l].tab = "saved" /\ UNCHANGED <<top, news>>
    BY <1>8, ArrivesGoing DEF AfterSaved
  <2>2. top >= news[tab]
    BY <1>0 DEF NewsInv, NewsIsOld, Items
  <2>3. \A t \in Tabs : t # "saved" => UNCHANGED <<head[t], failed[t], loaded[t]>>
    BY <1>8 DEF AfterSaved, Types, Flags
  <2>4. load'[l].phase = "off"
    BY <1>8, NoLoadType DEF AfterSaved
  <2>5. "saved" \in Tabs
    BY <2>1, LoadFields DEF Types
  <2>6. \/ UNCHANGED <<head["saved"], failed["saved"]>> /\ ~Fetching(l) /\ loaded'["saved"]
        \/ ~load[l].more /\ head'["saved"] = top /\ loaded'["saved"]
    BY <1>8, <2>5 DEF AfterSaved, Fetching, Types, Flags
  <2> QED
    BY <2>1, <2>2, <2>3, <2>4, <2>6, GoingNews
<1>9. ASSUME NEW l \in Loads, NEW rows, NEW new, AfterRestore(l, rows, new) PROVE NewsInv'
  <2>0. PICK x \in Tabs : x = load[l].tab
    BY LoadFields DEF Types
  <2>1. Going(l) /\ UNCHANGED <<top, news, head, failed>> /\ ~Fetching(l)
    BY <1>9, ArrivesGoing DEF AfterRestore, Fetching
  <2>2. clean[tab] /\ Fresh(l) => top >= news[tab]
    BY <1>0 DEF NewsInv, NewsIsOld, Items
  <2>3. \A t \in Tabs : t # x => UNCHANGED <<head[t], failed[t], loaded[t]>>
    BY <1>9, <2>0, <2>1 DEF AfterRestore, Types, Flags
  <2>4. load'[l].phase # "off" => UNCHANGED <<load[l].seen, load[l].depth>>
    BY <1>9, NoLoadType DEF AfterRestore, Goes
  <2>5. \/ UNCHANGED <<head[x], failed[x], loaded[x]>> /\ ~Fetching(l)
        \/ UNCHANGED <<head[x], failed[x]>> /\ ~Fetching(l) /\ loaded'[x]
    BY <1>0, <1>9, <2>0, <2>1 DEF AfterRestore, Flags
  <2>6. \/ failed'[x]
        \/ UNCHANGED <<head[x], failed[x], loaded[x]>> /\ (Fetching(l) => Fetching(l)')
        \/ UNCHANGED <<head[x], failed[x]>> /\ ~Fetching(l) /\ loaded'[x]
        \/ ~load[l].more /\ head'[x] = top /\ loaded'[x]
    BY <2>5
  <2> QED
    BY <2>0, <2>1, <2>2, <2>3, <2>4, <2>6, GoingNews
<1>10. ASSUME NEW l \in Loads, Fail(l) PROVE NewsInv'
  <2>0. PICK x \in Tabs : x = load[l].tab
    BY LoadFields DEF Types
  <2>1. Going(l) /\ load'[l] = NoLoad
    BY <1>10, FailGoing, LoadFields DEF Types
  <2>2. /\ UNCHANGED <<tab, loaded, top, head, news>>
        /\ FailTimeline(l) \/ FailNotifications(l) \/ FailSaved(l)
    BY <1>10 DEF Fail
  <2>3. \A t \in Tabs : t # x => failed'[t] = failed[t]
    BY <2>0, <2>2 DEF FailTimeline, FailNotifications, FailSaved, Types, Flags
  <2>4. Fetching(l) => failed'[x]
    BY <1>0, <2>0, <2>1, <2>2 DEF FailTimeline, FailNotifications, FailSaved, Fetching, Flags
  <2>5. failed'[x] \/ failed'[x] = failed[x]
    BY <1>0, <2>0, <2>1, <2>2 DEF FailTimeline, FailNotifications, FailSaved, Flags
  <2>6. clean[tab] /\ Fresh(l) => top >= news[tab]
    BY <1>0 DEF NewsInv, NewsIsOld, Items
  <2>7. load'[l].phase = "off"
    BY <2>1, NoLoadType
  <2>8. \/ failed'[x]
        \/ UNCHANGED <<head[x], failed[x], loaded[x]>> /\ (Fetching(l) => Fetching(l)')
    BY <2>2, <2>4, <2>5
  <2>9. x = load[l].tab /\ UNCHANGED <<top, news>>
        /\ \A t \in Tabs : t # x => UNCHANGED <<head[t], failed[t], loaded[t]>>
    BY <2>0, <2>2, <2>3
  <2> QED
    BY <2>0, <2>1, <2>6, <2>7, <2>8, <2>9, GoingNews
<1> QED
  BY <1>1, <1>2, <1>3, <1>4, <1>5, <1>6, <1>7, <1>8, <1>9, <1>10 DEF OneStep

\* What sync has announced of a tab is in its list once the tab is on the screen and counts as
\* loaded, provided that its last fresh load had the page to itself, without a switch or
\* another load of it in between, and did not fail; of a tab whose loads overlapped or failed
\* nothing is said.
THEOREM NewsAreShown == Spec => []NewsIsShown
<1> DEFINE Inv == Types /\ Here /\ Alone /\ NewsInv
<1>1. Init => Inv
  <2> SUFFICES ASSUME Init PROVE Inv
    OBVIOUS
  <2>1. Types
    BY InitTypes
  <2>2. \A l \in Loads : load[l].phase = "off"
    BY NoLoadType DEF Init
  <2>3. Here /\ Alone
    BY <2>2 DEF Here, Alone
  <2>4. NewsInv
    BY <2>1, <2>2 DEF Init, NewsInv, NewsIsOld, NewsIsSeen, NewsIsIn, NotLoaded, Untouched, Fresh, Types, Items
  <2> QED
    BY <2>1, <2>3, <2>4
<1>2. Inv /\ [Next]_vars => Inv'
  BY StepTypes, StepIsOne, StepGuards, StepNews
<1>3. Inv => NewsIsShown
  <2> SUFFICES ASSUME Inv, NEW t \in Tabs, t = tab, Sound(t), loaded[t], ~failed[t] PROVE head[t] >= news[t]
    BY DEF NewsIsShown
  <2>1. Unfetched(t)
    BY DEF Sound, Settled, Busy, Unfetched, Fetching
  <2> QED
    BY <2>1 DEF Sound, Settled, NewsInv, NewsIsIn
<1> HIDE DEF Inv
<1> QED
  BY <1>1, <1>2, <1>3, PTL DEF Spec

-----------------------------------------------------------------------------
(***************************************************************************)
(* No two places name the same list.                                       *)
(***************************************************************************)
\* Where the list of the tab t is named.  The saved posts may share the list of the
\* tab on the screen when their answer comes late, and nothing depends on them then.
Place(t) == IF t = tab THEN cur ELSE kept[t]
Live(t)  == t = tab \/ t # "saved" \/ clean[t]

Apart    == \A t, u \in Tabs : Live(t) /\ Live(u) /\ t # u => Place(t) # Place(u)
Held     == \A l \in Loads, t \in Tabs : load[l].prev # 0 /\ Live(t) => load[l].prev # Place(t)
HeldOnce == \A l, m \in Loads : load[l].prev # 0 /\ l # m => load[l].prev # load[m].prev
Distinct == Apart /\ Held /\ HeldOnce

\* A step that moves no list but that of the tab x: to a new one, which leaves the old
\* one to the load l at most, or to the one that l holds.
LEMMA OneMoves ==
    ASSUME Types, Distinct, NEW l \in Loads, Others(l), NEW x \in Tabs,
           \A u \in Tabs : u # x => Place(u)' = Place(u) /\ (Live(u)' => Live(u)),
           \/ /\ Place(x)' = NewList
              /\ load'[l].prev \in {0, load[l].prev} \/ (load'[l].prev = Place(x) /\ Live(x))
           \/ /\ Place(x)' = Place(x) /\ (Live(x)' => Live(x))
              /\ load'[l].prev \in {0, load[l].prev}
           \/ Place(x)' = load[l].prev /\ load[l].prev # 0 /\ load'[l].prev = 0
    PROVE  Distinct'
<1>1. /\ \A u \in Tabs : NewList # Place(u)
      /\ \A m \in Loads : NewList # load[m].prev
  BY NewListIsNew DEF Place
<1>2. \A m \in Loads : m # l => load'[m] = load[m]
  BY DEF Others
<1>3. Apart'
  BY <1>1 DEF Apart, Held, Distinct
<1>4. Held'
  <2> SUFFICES ASSUME NEW m \in Loads, NEW t \in Tabs, load'[m].prev # 0, Live(t)'
               PROVE  load'[m].prev # Place(t)'
    BY DEF Held
  <2>1. CASE m # l
    BY <2>1, <1>1, <1>2 DEF Distinct, Held, HeldOnce
  <2>2. CASE m = l
    BY <2>2, <1>1 DEF Distinct, Held, Apart
  <2> QED
    BY <2>1, <2>2
<1>5. HeldOnce'
  BY <1>1, <1>2 DEF Distinct, Held, HeldOnce
<1> QED
  BY <1>3, <1>4, <1>5 DEF Distinct

\* A fresh load, of the tab on the screen or of the one switched to.
LEMMA FreshMoves ==
    ASSUME Types, Distinct, NEW l \in Loads, NEW t \in Tabs, AfterFresh(l, t, Place(t)),
           tab' = t, \A u \in Tabs : u # t => Place(u)' = Place(u) /\ (clean'[u] => clean[u])
    PROVE  Distinct'
<1>1. Others(l) /\ load'[l].prev = (IF t = "timeline" THEN Place(t) ELSE 0) /\ Place(t)' = cur'
  BY DEF AfterFresh, Begins, Place
<1>2. \A u \in Tabs : u # t => (Live(u)' => Live(u))
  BY DEF Live
<1>3. CASE t = "notifications"
  <2>1. Place(t)' = Place(t) /\ Live(t)
    BY <1>1, <1>3 DEF AfterFresh, Live
  <2> QED
    BY <1>1, <1>2, <1>3, <2>1, OneMoves
<1>4. CASE t # "notifications"
  <2>1. Place(t)' = NewList /\ (t = "timeline" => Live(t))
    BY <1>1, <1>4 DEF AfterFresh, Live
  <2> QED
    BY <1>1, <1>2, <1>4, <2>1, OneMoves
<1> QED
  BY <1>3, <1>4

\* At first no load holds a list, and every tab has one of its own.
LEMMA InitDistinct == Init => Distinct
<1> SUFFICES ASSUME Init PROVE Distinct
  OBVIOUS
<1>1. cur = 1 /\ \A t \in Tabs : kept[t] # 1
  <2>1. \A t \in Tabs : kept[t] \in 2..4
    BY InitPlaces
  <2>2. cur = 1
    BY DEF Init
  <2> QED
    BY <2>1, <2>2
<1>2. \A t, u \in Tabs : t # u => Place(t) # Place(u)
  BY <1>1, InitPlaces DEF Place
<1>3. \A l \in Loads : load[l].prev = 0
  BY NoLoadType DEF Init
<1> QED
  BY <1>2, <1>3 DEF Distinct, Apart, Held, HeldOnce

\* Every step keeps the references apart.
LEMMA StepDistinct ==
    ASSUME Types, Here, Distinct, OneStep
    PROVE  Distinct'
<1>0. /\ tab \in Tabs /\ clean \in Flags /\ kept \in [Tabs -> Ids] /\ Busy \in BOOLEAN
      /\ \A l \in Loads : load[l].tab \in Tabs
  BY LoadFields DEF Types, Busy
<1>1. ASSUME NEW l \in Loads, Others(l), UNCHANGED <<tab, cur, kept>>,
             load'[l].prev \in {0, load[l].prev}, \A t \in Tabs : clean'[t] => clean[t]
      PROVE  Distinct'
  <2>1. \A u \in Tabs : Place(u)' = Place(u) /\ (Live(u)' => Live(u))
    BY <1>1 DEF Place, Live
  <2> QED
    BY <1>0, <1>1, <2>1, OneMoves
<1>2. ASSUME UNCHANGED <<tab, cur, kept, load>>, \A t \in Tabs : clean'[t] => clean[t]
      PROVE  Distinct'
  BY <1>2 DEF Distinct, Apart, Held, HeldOnce, Place, Live
<1>3. ASSUME NEW l \in Loads, AfterMore(l) PROVE Distinct'
  BY <1>1, <1>3 DEF AfterMore
<1>4. ASSUME NEW l \in Loads, AfterAgain(l) PROVE Distinct'
  <2>1. AfterFresh(l, tab, cur) /\ tab' = tab /\ kept' = kept /\ clean' = [clean EXCEPT ![tab] = ~Busy]
    BY <1>4 DEF AfterAgain
  <2>2. Place(tab) = cur /\ \A u \in Tabs : u # tab => Place(u)' = Place(u) /\ clean'[u] = clean[u]
    BY <1>0, <2>1 DEF Place, Flags
  <2> QED
    BY <1>0, <2>1, <2>2, FreshMoves
<1>5. ASSUME NEW t \in Tabs, NEW home, AfterSwitch(t, home) PROVE Distinct'
  <2>1. home = Place(t) /\ tab' = t /\ kept' = [kept EXCEPT ![tab] = cur]
    BY <1>5 DEF AfterSwitch, Place
  <2>2. \A u \in Tabs : u # t => Place(u)' = Place(u)
    BY <1>0, <2>1 DEF Place
  <2>3. CASE cur' = home /\ load' = load /\ (t # tab => t = "timeline") /\ \A u \in Tabs : clean'[u] => clean[u]
    <3>1. Place(t)' = Place(t)
      BY <2>1, <2>3 DEF Place
    <3>2. \A u \in Tabs : Live(u)' => Live(u)
      BY <2>1, <2>3 DEF Live
    <3> QED
      BY <2>2, <2>3, <3>1, <3>2 DEF Distinct, Apart, Held, HeldOnce
  <2>4. ASSUME NEW l \in Loads, AfterFresh(l, t, home), \A u \in Tabs : u # t => (clean'[u] => clean[u])
        PROVE  Distinct'
    BY <2>1, <2>2, <2>4, FreshMoves
  <2>5. CASE \A u \in Tabs : ~clean'[u]
    BY <1>5, <2>3, <2>4, <2>5 DEF AfterSwitch
  <2>6. CASE ~Busy
    <3>1. CASE clean' = clean
      BY <1>5, <2>3, <2>4, <3>1 DEF AfterSwitch
    <3>2. CASE clean' = [clean EXCEPT ![t] = TRUE] /\ \E l \in Loads : AfterFresh(l, t, home)
      BY <1>0, <2>4, <3>2 DEF Flags
    <3> QED
      BY <1>5, <2>6, <3>1, <3>2 DEF AfterSwitch
  <2> QED
    BY <1>5, <2>5, <2>6 DEF AfterSwitch
<1>6. CASE (\E t \in Tabs : Announce(t)) \/ AfterHide \/ AfterPost
  <2>1. UNCHANGED <<tab, cur, kept, load>> /\ \A t \in Tabs : clean'[t] => clean[t]
    BY <1>0, <1>6 DEF Announce, AfterHide, AfterPost, lists, Flags
  <2> QED
    BY <2>1, <1>2
<1>7. ASSUME NEW l \in Loads, NEW rows, NEW new, AfterTimeline(l, rows, new) PROVE Distinct'
  <2>1. Others(l) /\ load'[l].prev \in {0, load[l].prev} /\ UNCHANGED <<tab, cur, kept, clean>>
    BY <1>7, NoLoadType DEF AfterTimeline, TopsUp, Goes
  <2> QED
    BY <2>1, <1>1
<1>8. ASSUME NEW l \in Loads, NEW rows, NEW new, AfterRestore(l, rows, new) PROVE Distinct'
  <2>1. Others(l) /\ load'[l].prev \in {0, load[l].prev} /\ UNCHANGED <<tab, cur, kept, clean>>
    BY <1>8, NoLoadType DEF AfterRestore, Goes
  <2> QED
    BY <2>1, <1>1
<1>9. ASSUME NEW l \in Loads, NEW rows, NEW new, AfterNotifications(l, rows, new) PROVE Distinct'
  <2>1. Others(l) /\ load'[l].prev \in {0, load[l].prev} /\ UNCHANGED <<tab, kept, clean>>
    BY <1>9, NoLoadType DEF AfterNotifications, Goes
  <2>2. cur' \in {cur, NewList}
    BY <1>9 DEF AfterNotifications
  <2>3. Place(tab)' \in {Place(tab), NewList} /\ \A u \in Tabs : u # tab => Place(u)' = Place(u)
    BY <2>1, <2>2 DEF Place
  <2>4. \A u \in Tabs : Live(u)' => Live(u)
    BY <2>1 DEF Live
  <2> QED
    BY <1>0, <2>1, <2>3, <2>4, OneMoves
<1>10. ASSUME NEW l \in Loads, NEW rows, NEW new, AfterSaved(l, rows, new) PROVE Distinct'
  <2>1. Others(l) /\ load'[l].prev = 0 /\ UNCHANGED <<tab, cur, clean>>
    BY <1>10, NoLoadType DEF AfterSaved
  <2>2. \A u \in Tabs : (Live(u)' => Live(u)) /\ (u # "saved" => Place(u)' = Place(u))
    BY <1>0, <1>10, <2>1 DEF Live, Place, AfterSaved
  <2>3. load[l].phase # "off" /\ load[l].tab = "saved"
    BY <1>10 DEF AfterSaved
  <2>4. CASE tab = "saved"
    <3>1. \A u \in Tabs : Place(u)' = Place(u)
      BY <2>1, <2>2, <2>4 DEF Place
    <3> QED
      BY <1>0, <2>1, <2>2, <3>1, OneMoves
  <2>5. CASE tab # "saved"
    <3>1. "saved" \in Tabs /\ ~clean["saved"]
      BY <1>0, <2>3, <2>5 DEF Here
    <3>2. ~Live("saved")'
      BY <2>1, <2>5, <3>1 DEF Live
    <3>3. \A u \in Tabs : Live(u)' => Live(u) /\ Place(u)' = Place(u)
      BY <2>2, <3>2
    <3>4. \A m \in Loads : load'[m].prev \in {0, load[m].prev}
      BY <2>1 DEF Others
    <3> QED
      BY <2>1, <3>3, <3>4 DEF Distinct, Apart, Held, HeldOnce, Others
  <2> QED
    BY <2>4, <2>5
<1>11. ASSUME NEW l \in Loads, Fail(l) PROVE Distinct'
  <2>1. /\ Others(l) /\ load'[l].prev = 0 /\ tab' = tab
        /\ \A t \in Tabs : clean'[t] => clean[t]
    BY <1>11, FailGoing, NoLoadType DEF Going
  <2>2. kept' = kept /\ (cur' = cur \/ (cur' = load[l].prev /\ Fresh(l) /\ load[l].tab = "timeline"))
    BY <1>11 DEF Fail, FailTimeline, FailNotifications, FailSaved, lists, Fresh
  <2>3. CASE cur' = cur
    BY <1>1, <2>1, <2>2, <2>3
  <2>4. CASE cur' = load[l].prev /\ Fresh(l) /\ load[l].tab = "timeline"
    <3>1. load[l].prev # 0
      BY <2>4 DEF Types, Sane
    <3>2. Place(tab)' = load[l].prev /\ \A u \in Tabs : (u # tab => Place(u)' = Place(u)) /\ (Live(u)' => Live(u))
      BY <2>1, <2>2, <2>4 DEF Place, Live
    <3> QED
      BY <1>0, <2>1, <3>1, <3>2, OneMoves
  <2> QED
    BY <2>2, <2>3, <2>4
<1> QED
  BY <1>3, <1>4, <1>5, <1>6, <1>7, <1>8, <1>9, <1>10, <1>11 DEF OneStep

-----------------------------------------------------------------------------
(***************************************************************************)
(* No cursor is beyond the feed, and an empty feed fills no list.          *)
(***************************************************************************)
Low   == /\ \A t \in Tabs : cursor[t] <= top
         /\ \A l \in Loads : load[l].from <= top /\ load[l].back <= top
Empty == top = 0 => \A n \in Ids : list[n] = <<>>

\* The cursor after a page is not beyond the feed; only an empty feed has no page.
LEMMA CursorIsLow ==
    ASSUME top \in Items, NEW c \in Items, c <= top
    PROVE  CursorAfter(c) <= top
BY DEF CursorAfter, Oldest, Newest, Items

\* A page is empty only when the feed is, and nothing comes after the oldest item.
LEMMA PageIsEmpty ==
    ASSUME top \in Items, NEW c \in Items, c # 1
    PROVE  /\ Page(c) = <<>> => c = 0 /\ top = 0
           /\ c = 0 /\ top = 0 => Page(c) = <<>>
<1>1. Page(c) \in Seq(1..MaxTop) /\ Oldest(c) \in 1..(MaxTop + 1) /\ Newest(c) \in Items
  BY PageIsSeq
<1>2. DOMAIN Page(c) = 1..(Newest(c) - Oldest(c) + 1)
  BY DEF Page
<1>3. ASSUME Page(c) = <<>> PROVE Newest(c) = 0
  <2>1. 1..(Newest(c) - Oldest(c) + 1) = {}
    BY <1>2, <1>3
  <2>2. ~(1 <= Newest(c) - Oldest(c) + 1)
    BY <2>1, <1>1 DEF Items
  <2> QED
    BY <2>2, <1>1 DEF Oldest, Items
<1>4. ASSUME c = 0, top = 0 PROVE Page(c) = <<>>
  <2>1. Newest(c) = 0 /\ Oldest(c) = 1
    BY <1>4 DEF Newest, Oldest
  <2>2. DOMAIN Page(c) = {} /\ DOMAIN Page(c) = 1..Len(Page(c)) /\ Len(Page(c)) \in Nat
    BY <1>1, <1>2, <2>1
  <2> QED
    BY <1>1, <2>2
<1> QED
  BY <1>3, <1>4 DEF Newest, Items

\* Every step keeps the cursors under the newest item of the feed.
LEMMA StepLow ==
    ASSUME Types, Low, OneStep
    PROVE  Low'
<1>0. /\ tab \in Tabs /\ cursor \in [Tabs -> Items] /\ top \in Items
      /\ \A l \in Loads : load[l].from \in Items /\ load[l].back \in Items
  BY LoadFields DEF Types
<1>1. 0 <= top
  BY <1>0 DEF Items
<1>2. ASSUME NEW l \in Loads, Others(l), top' = top, load'[l].from <= top, load'[l].back <= top,
             \A t \in Tabs : cursor'[t] <= top
      PROVE  Low'
  BY <1>2 DEF Low, Others
<1>3. ASSUME NEW l \in Loads, NEW t \in Tabs, NEW c, AfterFresh(l, t, c), top' = top PROVE Low'
  <2>1. /\ Others(l) /\ load'[l].from = 0 /\ load'[l].back = cursor[t]
        /\ cursor' = [cursor EXCEPT ![t] = 0]
    BY <1>3 DEF AfterFresh, Begins
  <2>2. \A u \in Tabs : cursor'[u] <= top
    BY <1>0, <1>1, <2>1 DEF Low
  <2> QED
    BY <1>0, <1>1, <1>2, <1>3, <2>1, <2>2 DEF Low
<1>4. ASSUME NEW l \in Loads, Others(l), top' = top, NEW x \in Tabs, x = load[l].tab,
             \/ cursor' = cursor
             \/ cursor' = [cursor EXCEPT ![x] = CursorAfter(load[l].from)]
             \/ cursor' = [cursor EXCEPT ![x] = load[l].back],
             \/ load'[l] = NoLoad
             \/ /\ load'[l].from = CursorAfter(load[l].from) \/ load'[l].from = cursor'[x]
                /\ load'[l].back = load[l].back
      PROVE  Low'
  <2>1. CursorAfter(load[l].from) <= top /\ load[l].back <= top
    BY <1>0, CursorIsLow DEF Low
  <2>2. \A u \in Tabs : cursor'[u] <= top
    BY <1>0, <1>4, <2>1 DEF Low
  <2>3. load'[l].from <= top /\ load'[l].back <= top
    BY <1>1, <1>4, <2>1, <2>2, NoLoadType
  <2> QED
    BY <1>2, <1>4, <2>2, <2>3
<1>5. ASSUME NEW l \in Loads, AfterMore(l) PROVE Low'
  BY <1>0, <1>1, <1>2, <1>5 DEF AfterMore, Low
<1>6. ASSUME NEW l \in Loads, AfterAgain(l) PROVE Low'
  BY <1>0, <1>3, <1>6 DEF AfterAgain
<1>7. ASSUME NEW t \in Tabs, NEW home, AfterSwitch(t, home) PROVE Low'
  BY <1>3, <1>7 DEF AfterSwitch, Low
<1>8. CASE (\E t \in Tabs : Announce(t)) \/ AfterHide \/ AfterPost
  <2>1. UNCHANGED <<cursor, load>> /\ top' \in {top, top + 1}
    BY <1>8 DEF Announce, AfterHide, AfterPost
  <2> QED
    BY <2>1, <1>0 DEF Low, Items
<1>9. ASSUME NEW l \in Loads, NEW rows, NEW new, AfterTimeline(l, rows, new) PROVE Low'
  <2>1. /\ Others(l) /\ top' = top /\ load[l].tab = "timeline"
        /\ cursor' = [cursor EXCEPT !["timeline"] = CursorAfter(load[l].from)]
    BY <1>9 DEF AfterTimeline, TopsUp, Goes
  <2>2. \/ load'[l] = NoLoad
        \/ /\ load'[l].from = CursorAfter(load[l].from) \/ load'[l].from = cursor'["timeline"]
           /\ load'[l].back = load[l].back
    BY <1>9 DEF AfterTimeline, TopsUp, Goes
  <2> QED
    BY <1>4, <2>1, <2>2, TabsAssumption
<1>10. ASSUME NEW l \in Loads, NEW rows, NEW new, AfterNotifications(l, rows, new) PROVE Low'
  <2>1. /\ Others(l) /\ top' = top /\ load[l].tab = "notifications"
        /\ cursor' = cursor \/ cursor' = [cursor EXCEPT !["notifications"] = CursorAfter(load[l].from)]
    BY <1>10 DEF AfterNotifications, Goes
  <2>2. \/ load'[l] = NoLoad
        \/ load'[l].from = cursor'["notifications"] /\ load'[l].back = load[l].back
    BY <1>10 DEF AfterNotifications, Goes
  <2>3. "notifications" \in Tabs
    BY <2>1, LoadFields DEF Types
  <2> QED
    BY <1>4, <2>1, <2>2, <2>3
<1>11. ASSUME NEW l \in Loads, NEW rows, NEW new, AfterSaved(l, rows, new) PROVE Low'
  <2>1. /\ Others(l) /\ top' = top /\ load[l].tab = "saved" /\ load'[l] = NoLoad
        /\ cursor' = cursor \/ cursor' = [cursor EXCEPT !["saved"] = CursorAfter(load[l].from)]
    BY <1>11 DEF AfterSaved
  <2>2. "saved" \in Tabs
    BY <2>1, LoadFields DEF Types
  <2> QED
    BY <1>4, <2>1, <2>2
<1>12. ASSUME NEW l \in Loads, NEW rows, NEW new, AfterRestore(l, rows, new) PROVE Low'
  <2>0. PICK x \in Tabs : x = load[l].tab
    BY <1>12 DEF AfterRestore
  <2>1. /\ Others(l) /\ top' = top
        /\ cursor' = [cursor EXCEPT ![x] = CursorAfter(load[l].from)]
    BY <1>12, <2>0 DEF AfterRestore, Goes
  <2>2. \/ load'[l] = NoLoad
        \/ load'[l].from = cursor'[x] /\ load'[l].back = load[l].back
    BY <1>12, <2>0 DEF AfterRestore, Goes
  <2> QED
    BY <1>4, <2>0, <2>1, <2>2
<1>13. ASSUME NEW l \in Loads, Fail(l) PROVE Low'
  <2>0. PICK x \in Tabs : x = load[l].tab
    BY LoadFields DEF Types
  <2>1. Others(l) /\ load'[l] = NoLoad /\ top' = top
    BY <1>13, FailGoing DEF Going, Fail
  <2>2. cursor' = cursor \/ cursor' = [cursor EXCEPT ![x] = load[l].back]
    BY <1>13, <2>0 DEF Fail, FailTimeline, FailNotifications, FailSaved
  <2> QED
    BY <1>4, <2>0, <2>1, <2>2
<1> QED
  BY <1>5, <1>6, <1>7, <1>8, <1>9, <1>10, <1>11, <1>12, <1>13 DEF OneStep

\* Every step keeps empty what no load has filled.
LEMMA StepEmpty ==
    ASSUME Types, Low, Empty, OneStep
    PROVE  Empty'
<1>0. /\ cur \in Ids /\ list \in [Ids -> Line] /\ top \in Items /\ NewList \in Ids
      /\ \A l \in Loads : load[l].from \in Items /\ load[l].from # 1
  BY LoadFields, NewListIsNew DEF Types, Sane
<1>1. ASSUME NEW n \in Ids, NEW r, top = 0 => r = <<>>, top' = top,
             list' = list \/ list' = [list EXCEPT ![n] = r]
      PROVE  Empty'
  BY <1>0, <1>1 DEF Empty
<1>2. ASSUME NEW l \in Loads, top = 0 PROVE Page(load[l].from) = <<>>
  <2>1. load[l].from <= 0
    BY <1>2 DEF Low
  <2>2. load[l].from = 0
    BY <1>0, <2>1 DEF Items
  <2> QED
    BY <1>0, <1>2, <2>2, PageIsEmpty
<1>3. top = 0 => list[cur] = <<>>
  BY <1>0 DEF Empty
<1>4. ASSUME NEW l \in Loads, AfterMore(l) \/ AfterAgain(l) \/ Fail(l) PROVE Empty'
  BY <1>0, <1>1, <1>4
  DEF AfterMore, AfterAgain, AfterFresh, Fail, FailTimeline, FailNotifications, FailSaved, lists
<1>5. ASSUME NEW t \in Tabs, NEW home, AfterSwitch(t, home) PROVE Empty'
  BY <1>0, <1>1, <1>5 DEF AfterSwitch, AfterFresh
<1>6. CASE (\E t \in Tabs : Announce(t)) \/ AfterHide \/ AfterPost
  <2>1. list' = list /\ top' \in {top, top + 1}
    BY <1>6 DEF Announce, AfterHide, AfterPost, lists
  <2> QED
    BY <2>1, <1>0 DEF Empty, Items
<1>7. ASSUME NEW l \in Loads, NEW rows, NEW new, AfterTimeline(l, rows, new) PROVE Empty'
  BY <1>0, <1>1, <1>2, <1>3, <1>7 DEF AfterTimeline
<1>8. ASSUME NEW l \in Loads, NEW rows, NEW new, AfterNotifications(l, rows, new) PROVE Empty'
  BY <1>0, <1>1, <1>2, <1>3, <1>8 DEF AfterNotifications
<1>9. ASSUME NEW l \in Loads, NEW rows, NEW new, AfterSaved(l, rows, new) PROVE Empty'
  BY <1>0, <1>1, <1>2, <1>3, <1>9 DEF AfterSaved
<1>10. ASSUME NEW l \in Loads, NEW rows, NEW new, AfterRestore(l, rows, new) PROVE Empty'
  BY <1>0, <1>1, <1>2, <1>3, <1>10 DEF AfterRestore
<1> QED
  BY <1>4, <1>5, <1>6, <1>7, <1>8, <1>9, <1>10 DEF OneStep

-----------------------------------------------------------------------------
(***************************************************************************)
(* What the keys move through is what the panel shows.                     *)
(***************************************************************************)
OnScreen(t) == list[Place(t)] = shown[t]

\* What a fresh load without its first page finds: the timeline has what it has staged
\* in its list, and the old list, to put back, is on the screen; notifications have
\* changed nothing; the saved posts have emptied both.
Coming(l) == /\ tab = "timeline" => /\ list[cur] = load[l].stage
                                    /\ load[l].was => list[load[l].prev] = shown[tab]
             /\ tab = "notifications" /\ load[l].was => OnScreen(tab)
             /\ tab = "saved" => list[cur] = <<>> /\ shown[tab] = <<>>

Still     == \A t \in Tabs : clean[t] /\ ~halfway[t] /\ Unfetched(t) => OnScreen(t)
Comes     == \A l \in Loads : clean[tab] /\ ~halfway[tab] /\ Fetching(l) => Coming(l)
ScreenInv == Still /\ Comes

\* A fresh load begins; it has the page to itself if it leaves its tab clean.
LEMMA FreshScreens ==
    ASSUME Types, ScreenInv, NEW l \in Loads, NEW t \in Tabs, AfterFresh(l, t, Place(t)),
           tab' = t, clean'[t] => ~Busy,
           \A u \in Tabs : u # t => /\ Place(u)' = Place(u)
                                    /\ clean'[u] => clean[u] /\ (u # tab \/ ~Busy)
    PROVE  ScreenInv'
<1>0. /\ \A u \in Tabs : Place(u) \in Ids /\ NewList # Place(u)
      /\ list \in [Ids -> Line] /\ shown \in [Tabs -> Line] /\ halfway \in Flags /\ NewList \in Ids
  BY NewListIsNew DEF Types, Place
<1>1. /\ Others(l) /\ Fetching(l)' /\ load'[l].stage = <<>>
      /\ load'[l].prev = (IF t = "timeline" THEN Place(t) ELSE 0)
      /\ load'[l].was = (clean[t] /\ ~halfway[t])
      /\ halfway' = [halfway EXCEPT ![t] = FALSE]
      /\ \/ t = "notifications" /\ cur' = Place(t) /\ list' = list
         \/ t # "notifications" /\ cur' = NewList /\ list' = [list EXCEPT ![NewList] = <<>>]
      /\ shown' = (IF t = "saved" THEN [shown EXCEPT ![t] = <<>>] ELSE shown)
  BY DEF AfterFresh, Begins, Fetching
<1>2. \A u \in Tabs : list'[Place(u)] = list[Place(u)]
  BY <1>0, <1>1
<1>3. Still'
  <2> SUFFICES ASSUME NEW u \in Tabs, clean'[u], ~halfway'[u], Unfetched(u)'
               PROVE  OnScreen(u)'
    BY DEF Still
  <2>1. u # t
    BY <1>1 DEF Unfetched
  <2>2. clean[u] /\ ~halfway[u] /\ Place(u)' = Place(u) /\ shown'[u] = shown[u]
    BY <1>0, <1>1, <2>1 DEF Flags
  <2>3. Unfetched(u)
    BY <2>1 DEF Unfetched, Busy, Fetching
  <2>4. OnScreen(u)
    BY <2>2, <2>3 DEF ScreenInv, Still
  <2> QED
    BY <1>2, <2>2, <2>4 DEF OnScreen
<1>4. Comes'
  <2> SUFFICES ASSUME NEW m \in Loads, clean'[t], Fetching(m)' PROVE Coming(m)'
    BY DEF Comes
  <2>1. m = l /\ ~Busy
    BY <1>1 DEF Others, Fetching, Busy
  <2>2. load'[l].was => OnScreen(t)
    BY <1>1, <2>1 DEF ScreenInv, Still, Unfetched, Busy, Fetching
  <2>3. CASE t = "timeline"
    BY <1>0, <1>1, <1>2, <2>1, <2>2, <2>3 DEF Coming, OnScreen
  <2>4. CASE t = "notifications"
    BY <1>1, <2>1, <2>2, <2>4 DEF Coming, OnScreen, Place
  <2>5. CASE t = "saved"
    BY <1>0, <1>1, <2>1, <2>5 DEF Coming
  <2> QED
    BY <2>3, <2>4, <2>5 DEF Coming
<1> QED
  BY <1>3, <1>4 DEF ScreenInv

\* A load goes on or ends: the other tabs are as they were, and its own is as is to be
\* expected, if it is on the screen and is clean.
LEMMA GoingScreens ==
    ASSUME Types, Here, Alone, ScreenInv, NEW l \in Loads, Going(l),
           tab = load[l].tab => \A u \in Tabs : u # tab /\ clean[u] =>
             /\ list'[Place(u)'] = list[Place(u)] /\ shown'[u] = shown[u] /\ halfway'[u] = halfway[u],
           tab = load[l].tab /\ clean[tab] /\ clean'[tab] /\ ~halfway'[tab] =>
             IF Fetching(l)' THEN Coming(l)' ELSE OnScreen(tab)'
    PROVE  ScreenInv'
<1>0. /\ tab \in Tabs /\ tab' = tab /\ load[l].phase # "off" /\ Others(l)
      /\ \A t \in Tabs : clean'[t] => clean[t]
  BY DEF Going, Types
<1>1. (\E t \in Tabs : clean'[t]) => tab = load[l].tab
  BY <1>0 DEF Here
<1>2. \A m \in Loads : m # l => load'[m] = load[m]
  BY <1>0 DEF Others
<1>3. clean[tab] => \A m \in Loads : m # l => ~Fetching(m)'
  BY <1>0, <1>2 DEF Alone, Fetching, Fresh
<1>4. Still'
  <2> SUFFICES ASSUME NEW u \in Tabs, clean'[u], ~halfway'[u], Unfetched(u)'
               PROVE  OnScreen(u)'
    BY DEF Still
  <2>1. CASE u # tab
    <3>1. OnScreen(u)
      BY <1>0, <1>1, <2>1 DEF ScreenInv, Still, Unfetched
    <3> QED
      BY <1>0, <1>1, <2>1, <3>1 DEF OnScreen
  <2>2. CASE u = tab
    BY <1>0, <1>1, <2>2 DEF Unfetched
  <2> QED
    BY <2>1, <2>2
<1>5. Comes'
  BY <1>0, <1>1, <1>3 DEF Comes
<1> QED
  BY <1>4, <1>5 DEF ScreenInv

\* What is on the screen when a load arrives or fails that is not fetching its first
\* page.
LEMMA ScreenBefore ==
    ASSUME Types, Alone, ScreenInv, NEW l \in Loads, load[l].phase # "off", ~Fetching(l),
           clean[tab], ~halfway[tab]
    PROVE  list[cur] = shown[tab]
<1>1. \A m \in Loads : ~Fetching(m)
  BY DEF Alone, Fetching, Fresh
<1>2. tab \in Tabs
  BY DEF Types
<1> QED
  BY <1>1, <1>2 DEF ScreenInv, Still, Unfetched, OnScreen, Place

\* The list on the screen is not that of another tab that is clean.
LEMMA OthersApart ==
    ASSUME Types, Distinct, NEW u \in Tabs, u # tab, clean[u]
    PROVE  /\ kept[u] # cur /\ kept[u] # NewList /\ Place(u) = kept[u] /\ kept[u] \in Ids
           /\ \A l \in Loads : load[l].prev # 0 => load[l].prev # kept[u]
<1>1. Live(u) /\ Live(tab) /\ tab \in Tabs /\ Place(u) = kept[u] /\ Place(tab) = cur
  BY DEF Live, Place, Types
<1> QED
  BY <1>1, NewListIsNew DEF Distinct, Apart, Held, Types

\* An answer to a load of the timeline keeps the screen with the state.
LEMMA TimelineScreens ==
    ASSUME Types, Here, Alone, Distinct, ScreenInv, NEW l \in Loads, NEW rows, NEW new,
           AfterTimeline(l, rows, new)
    PROVE  ScreenInv'
<1>0. /\ cur \in Ids /\ list \in [Ids -> Line] /\ shown \in [Tabs -> Line] /\ "timeline" \in Tabs
      /\ load[l].stage \in Line /\ load[l].more \in BOOLEAN /\ load[l].prev \in {0} \cup Ids
  BY LoadFields DEF Types
<1>1. /\ Going(l) /\ load[l].tab = "timeline" /\ load[l].phase = "fetch"
      /\ UNCHANGED <<tab, cur, kept, clean, halfway>>
      /\ list[cur] \o new = rows /\ list' = [list EXCEPT ![cur] = rows]
  BY ArrivesGoing DEF AfterTimeline
<1>2. ASSUME NEW u \in Tabs, u # tab, clean[u], tab = "timeline"
      PROVE  list'[Place(u)'] = list[Place(u)] /\ shown'[u] = shown[u] /\ halfway'[u] = halfway[u]
  <2>1. kept[u] # cur /\ kept[u] \in Ids /\ Place(u) = kept[u] /\ Place(u)' = kept[u]
    BY <1>1, <1>2, OthersApart DEF Place
  <2>2. list'[kept[u]] = list[kept[u]]
    BY <1>0, <1>1, <2>1
  <2>3. shown'[u] = shown[u]
    BY <1>0, <1>2 DEF AfterTimeline
  <2> QED
    BY <1>1, <2>1, <2>2, <2>3
<1>3. ASSUME tab = "timeline", clean[tab], ~halfway[tab]
      PROVE  IF Fetching(l)' THEN Coming(l)' ELSE OnScreen(tab)'
  <2>0. Place(tab)' = cur /\ list'[cur] = rows
    BY <1>0, <1>1 DEF Place
  <2>1. CASE load[l].more
    <3>1. ~Fetching(l)'
      BY <1>1, <2>1, NoLoadType DEF Going, Fetching
    <3>2. list[cur] = shown[tab]
      BY <1>1, <1>3, <2>1, ScreenBefore DEF Fetching
    <3>3. shown'[tab] = shown[tab] \o new
      BY <1>0, <1>3, <2>1 DEF AfterTimeline
    <3> QED
      BY <1>1, <2>0, <3>1, <3>2, <3>3 DEF OnScreen
  <2>2. CASE ~load[l].more
    <3>1. Fetching(l) /\ Fresh(l)
      BY <1>1, <2>2 DEF Fetching, Fresh
    <3>2. list[cur] = load[l].stage /\ (load[l].was => list[load[l].prev] = shown[tab])
      BY <1>3, <3>1 DEF ScreenInv, Comes, Coming
    <3>3. CASE TopsUp(l, new) /\ shown' = [shown EXCEPT !["timeline"] = IF load[l].more THEN @ \o new ELSE @]
      <4>1. /\ Fetching(l)' /\ load'[l].stage = load[l].stage \o new /\ load'[l].prev = load[l].prev
            /\ load'[l].was = load[l].was
        BY <2>2, <3>3 DEF TopsUp, Fetching
      <4>2. shown'[tab] = shown[tab]
        BY <1>0, <1>3, <2>2, <3>3
      <4>3. load[l].prev # 0 /\ load[l].prev # cur /\ load[l].prev \in Ids
        <5>1. load[l].prev # 0
          BY <1>1, <3>1 DEF Types, Sane
        <5>2. Live(tab) /\ Place(tab) = cur /\ tab \in Tabs
          BY DEF Live, Place, Types
        <5> QED
          BY <1>0, <5>1, <5>2 DEF Distinct, Held
      <4>4. list'[load[l].prev] = list[load[l].prev]
        BY <1>0, <1>1, <4>3
      <4> QED
        BY <1>1, <1>3, <2>0, <3>2, <4>1, <4>2, <4>4 DEF Coming
    <3>4. CASE /\ Goes(l, Met(l))
               /\ shown' = [shown EXCEPT !["timeline"] = IF load[l].more THEN @ \o new
                                                          ELSE load[l].stage \o new]
      <4>1. ~Fetching(l)'
        BY <3>4, NoLoadType DEF Goes, Fetching
      <4>2. shown'[tab] = load[l].stage \o new
        BY <1>0, <1>3, <2>2, <3>4
      <4> QED
        BY <1>1, <2>0, <3>2, <4>1, <4>2 DEF OnScreen
    <3> QED
      BY <3>3, <3>4 DEF AfterTimeline
  <2> QED
    BY <2>1, <2>2
<1> QED
  BY <1>1, <1>2, <1>3, GoingScreens

\* An answer to a load of the notifications keeps the screen with the state.
LEMMA NotificationsScreen ==
    ASSUME Types, Here, Alone, Distinct, Low, Empty, ScreenInv, NEW l \in Loads, NEW rows, NEW new,
           AfterNotifications(l, rows, new)
    PROVE  ScreenInv'
<1>0. /\ cur \in Ids /\ list \in [Ids -> Line] /\ shown \in [Tabs -> Line] /\ NewList \in Ids
      /\ load[l].more \in BOOLEAN /\ load[l].from \in Items /\ load[l].from # 1 /\ top \in Items
  BY LoadFields, NewListIsNew DEF Types, Sane
<1>1. /\ Going(l) /\ load[l].tab = "notifications" /\ load[l].phase = "fetch"
      /\ UNCHANGED <<tab, kept, clean, halfway>> /\ ~Fetching(l)'
  <2>1. Going(l)
    BY ArrivesGoing
  <2>2. Goes(l, top)
    BY DEF AfterNotifications
  <2>3. load'[l].phase # "fetch"
    BY <2>2, NoLoadType DEF Goes
  <2>4. /\ load[l].tab = "notifications" /\ load[l].phase = "fetch"
        /\ UNCHANGED <<tab, kept, clean, halfway>>
    BY DEF AfterNotifications
  <2> QED
    BY <2>1, <2>3, <2>4 DEF Fetching
<1>2. ASSUME NEW u \in Tabs, u # tab, clean[u], tab = "notifications"
      PROVE  list'[Place(u)'] = list[Place(u)] /\ shown'[u] = shown[u] /\ halfway'[u] = halfway[u]
  <2>1. kept[u] # cur /\ kept[u] # NewList /\ kept[u] \in Ids /\ Place(u) = kept[u] /\ Place(u)' = kept[u]
    BY <1>1, <1>2, OthersApart DEF Place
  <2>2. list'[kept[u]] = list[kept[u]]
    BY <1>0, <2>1 DEF AfterNotifications
  <2>3. shown'[u] = shown[u]
    BY <1>0, <1>2 DEF AfterNotifications
  <2> QED
    BY <1>1, <2>1, <2>2, <2>3
<1>3. ASSUME tab = "notifications", clean[tab], ~halfway[tab] PROVE OnScreen(tab)'
  <2>0. Place(tab)' = cur' /\ tab \in Tabs
    BY <1>1 DEF Place, Types
  <2>1. load[l].more => list[cur] = shown[tab]
    BY <1>1, <1>3, ScreenBefore DEF Fetching
  <2>2. CASE Page(load[l].from) = <<>>
    <3>1. top = 0 /\ list[cur] = <<>>
      BY <1>0, <2>2, PageIsEmpty DEF Empty
    <3>2. list'[cur'] = list[cur]
      BY <2>2 DEF AfterNotifications
    <3>3. shown'[tab] = IF load[l].more THEN shown[tab] ELSE <<>>
      BY <1>0, <1>3, <2>0, <2>2 DEF AfterNotifications
    <3> QED
      BY <1>1, <2>0, <2>1, <3>1, <3>2, <3>3 DEF OnScreen
  <2>3. CASE Page(load[l].from) # <<>> /\ load[l].more
    <3>1. list'[cur'] = list[cur] \o new /\ shown'[tab] = shown[tab] \o new
      BY <1>0, <1>3, <2>0, <2>3 DEF AfterNotifications
    <3> QED
      BY <1>1, <2>0, <2>1, <2>3, <3>1 DEF OnScreen
  <2>4. CASE Page(load[l].from) # <<>> /\ ~load[l].more
    <3>1. list'[cur'] = rows /\ shown'[tab] = rows
      BY <1>0, <1>3, <2>0, <2>4 DEF AfterNotifications
    <3> QED
      BY <1>1, <2>0, <3>1 DEF OnScreen
  <2> QED
    BY <2>2, <2>3, <2>4
<1> QED
  BY <1>1, <1>2, <1>3, GoingScreens

\* An answer to a load of the saved posts keeps the screen with the state.
LEMMA SavedScreen ==
    ASSUME Types, Here, Alone, Distinct, ScreenInv, NEW l \in Loads, NEW rows, NEW new,
           AfterSaved(l, rows, new)
    PROVE  ScreenInv'
<1>0. /\ cur \in Ids /\ list \in [Ids -> Line] /\ shown \in [Tabs -> Line] /\ kept \in [Tabs -> Ids]
      /\ load[l].more \in BOOLEAN
  BY LoadFields DEF Types
<1>1. /\ Going(l) /\ load[l].tab = "saved" /\ load[l].phase = "fetch"
      /\ UNCHANGED <<tab, cur, clean, halfway>> /\ ~Fetching(l)'
  <2>1. Going(l)
    BY ArrivesGoing
  <2>2. load'[l] = NoLoad /\ load[l].tab = "saved" /\ load[l].phase = "fetch"
    BY DEF AfterSaved
  <2>3. UNCHANGED <<tab, cur, clean, halfway>>
    BY DEF AfterSaved
  <2>4. ~Fetching(l)'
    BY <2>2, NoLoadType DEF Fetching
  <2> QED
    BY <2>1, <2>2, <2>3, <2>4
<1>2. ASSUME NEW u \in Tabs, u # tab, clean[u], tab = "saved"
      PROVE  list'[Place(u)'] = list[Place(u)] /\ shown'[u] = shown[u] /\ halfway'[u] = halfway[u]
  <2>1. kept[u] # cur /\ kept[u] \in Ids /\ Place(u) = kept[u]
    BY <1>2, OthersApart
  <2>2. kept'[u] = kept[u] /\ shown'[u] = shown[u]
    BY <1>0, <1>2 DEF AfterSaved
  <2>3. list'[kept[u]] = list[kept[u]]
    BY <1>0, <2>1 DEF AfterSaved
  <2>4. Place(u)' = kept[u]
    BY <1>1, <1>2, <2>2 DEF Place
  <2> QED
    BY <1>1, <2>1, <2>2, <2>3, <2>4
<1>3. ASSUME tab = "saved", clean[tab], ~halfway[tab] PROVE OnScreen(tab)'
  <2>0. Place(tab)' = cur /\ tab \in Tabs
    BY <1>1 DEF Place, Types
  <2>1. list[cur] = shown[tab]
    <3>1. CASE Fetching(l)
      BY <1>3, <3>1 DEF ScreenInv, Comes, Coming
    <3>2. CASE ~Fetching(l)
      BY <1>1, <1>3, <3>2, ScreenBefore
    <3> QED
      BY <3>1, <3>2
  <2>2. \/ list' = list /\ shown' = shown
        \/ list'[cur] = list[cur] \o new /\ shown'[tab] = shown[tab] \o new
    BY <1>0, <1>3, <2>0 DEF AfterSaved
  <2> QED
    BY <1>1, <2>0, <2>1, <2>2 DEF OnScreen
<1> QED
  BY <1>1, <1>2, <1>3, GoingScreens

\* One more page keeps the screen with the state.
LEMMA RestoreScreens ==
    ASSUME Types, Here, Alone, Distinct, ScreenInv, NEW l \in Loads, NEW rows, NEW new,
           AfterRestore(l, rows, new)
    PROVE  ScreenInv'
<1>0. cur \in Ids /\ list \in [Ids -> Line] /\ shown \in [Tabs -> Line]
  BY DEF Types
<1>1. /\ Going(l) /\ load[l].phase = "restore" /\ ~Fetching(l)
      /\ UNCHANGED <<tab, cur, kept, clean, halfway>> /\ ~Fetching(l)'
      /\ list[cur] \o new = rows /\ list' = [list EXCEPT ![cur] = rows]
      /\ shown' = [shown EXCEPT ![load[l].tab] = @ \o new]
  BY ArrivesGoing, NoLoadType DEF AfterRestore, Goes, Fetching
<1>2. ASSUME NEW u \in Tabs, u # tab, clean[u], tab = load[l].tab
      PROVE  list'[Place(u)'] = list[Place(u)] /\ shown'[u] = shown[u] /\ halfway'[u] = halfway[u]
  <2>1. kept[u] # cur /\ kept[u] \in Ids /\ Place(u) = kept[u] /\ Place(u)' = kept[u]
    BY <1>1, <1>2, OthersApart DEF Place
  <2>2. list'[kept[u]] = list[kept[u]]
    BY <1>0, <1>1, <2>1
  <2> QED
    BY <1>0, <1>1, <1>2, <2>1, <2>2
<1>3. ASSUME tab = load[l].tab, clean[tab], ~halfway[tab] PROVE OnScreen(tab)'
  <2>1. list[cur] = shown[tab]
    BY <1>1, <1>3, ScreenBefore
  <2>2. Place(tab)' = cur /\ list'[cur] = rows /\ tab \in Tabs
    BY <1>0, <1>1 DEF Place, Types
  <2>3. shown'[tab] = shown[tab] \o new
    BY <1>0, <1>1, <1>3, <2>2
  <2> QED
    BY <1>1, <2>1, <2>2, <2>3 DEF OnScreen
<1> QED
  BY <1>1, <1>2, <1>3, GoingScreens

\* A failure keeps the screen with the state, where it claims to.
LEMMA FailScreens ==
    ASSUME Types, Here, Alone, Distinct, ScreenInv, NEW l \in Loads, Fail(l)
    PROVE  ScreenInv'
<1>0. /\ shown \in [Tabs -> Line] /\ halfway \in Flags /\ clean \in Flags /\ load[l].more \in BOOLEAN
      /\ load[l].phase \in {"off", "fetch", "restore"} /\ load[l].was \in BOOLEAN
  BY LoadFields DEF Types
<1>1. /\ Going(l) /\ ~Fetching(l)' /\ load[l].phase # "off" /\ tab' = tab /\ UNCHANGED <<list, kept>>
      /\ FailTimeline(l) \/ FailNotifications(l) \/ FailSaved(l)
  BY FailGoing, NoLoadType DEF Fail, Fetching, Going, FailTimeline, FailNotifications, FailSaved, lists
<1>2. ASSUME NEW u \in Tabs, u # tab, clean[u], tab = load[l].tab
      PROVE  list'[Place(u)'] = list[Place(u)] /\ shown'[u] = shown[u] /\ halfway'[u] = halfway[u]
  <2>1. Place(u)' = kept[u] /\ Place(u) = kept[u]
    BY <1>1, <1>2 DEF Place
  <2>2. shown'[u] = shown[u] /\ halfway'[u] = halfway[u]
    BY <1>0, <1>1, <1>2 DEF FailTimeline, FailNotifications, FailSaved, Flags
  <2> QED
    BY <1>1, <2>1, <2>2
<1>3. ASSUME tab = load[l].tab, clean[tab], clean'[tab], ~halfway'[tab] PROVE OnScreen(tab)'
  <2>0. Place(tab)' = cur' /\ tab \in Tabs
    BY <1>1 DEF Place, Types
  <2>1. ~halfway[tab]
    BY <1>0, <1>1, <1>3, <2>0 DEF FailTimeline, FailNotifications, FailSaved, Flags
  <2>2. ~Fetching(l) => list[cur] = shown[tab]
    BY <1>1, <1>3, <2>1, ScreenBefore
  <2>3. Fetching(l) => Coming(l)
    BY <1>3, <2>1 DEF ScreenInv, Comes
  <2>4. CASE FailTimeline(l)
    <3>1. tab = "timeline" /\ shown' = shown /\ cur' = (IF load[l].more THEN cur ELSE load[l].prev)
      BY <1>3, <2>4 DEF FailTimeline
    <3>2. load[l].more \/ (Fetching(l) /\ load[l].was)
      BY <1>0, <1>1, <1>3, <2>0, <2>4, <3>1 DEF FailTimeline, Flags, Fetching
    <3> QED
      BY <1>1, <2>0, <2>2, <2>3, <3>1, <3>2 DEF OnScreen, Coming, Fetching
  <2>5. CASE FailNotifications(l)
    <3>1. tab = "notifications" /\ shown' = shown /\ cur' = cur
      BY <1>3, <2>5 DEF FailNotifications, lists
    <3>2. Fetching(l) => load[l].was
      BY <1>0, <1>3, <2>0, <2>5, <3>1 DEF FailNotifications, Flags, Fetching
    <3> QED
      BY <1>1, <2>0, <2>2, <2>3, <3>1, <3>2 DEF OnScreen, Coming, Place
  <2>6. CASE FailSaved(l)
    <3>1. tab = "saved" /\ cur' = cur /\ shown'[tab] = <<>>
      BY <1>0, <1>3, <2>0, <2>6 DEF FailSaved, lists
    <3>2. Fetching(l)
      <4>1. ~load[l].more
        BY <1>0, <1>3, <2>0, <2>6, <3>1 DEF FailSaved, Flags
      <4>2. load[l].phase # "restore"
        BY <1>3, <3>1 DEF Types, Sane
      <4> QED
        BY <1>0, <1>1, <4>1, <4>2 DEF Fetching
    <3> QED
      BY <1>1, <2>0, <2>3, <3>1, <3>2 DEF OnScreen, Coming
  <2> QED
    BY <1>1, <2>4, <2>5, <2>6
<1> QED
  BY <1>1, <1>2, <1>3, GoingScreens

\* Every step keeps the screen with the state.
LEMMA StepScreens ==
    ASSUME Types, Here, Alone, Distinct, Low, Empty, ScreenInv, OneStep
    PROVE  ScreenInv'
<1>0. tab \in Tabs /\ clean \in Flags /\ kept \in [Tabs -> Ids] /\ Busy \in BOOLEAN
  BY DEF Types, Busy
<1>1. ASSUME NEW l \in Loads, AfterMore(l) PROVE ScreenInv'
  <2>1. /\ UNCHANGED <<tab, cur, list, kept, shown, halfway>> /\ Others(l) /\ load'[l].more
        /\ load[l].phase = "off" /\ \A t \in Tabs : clean'[t] => clean[t]
    BY <1>1 DEF AfterMore
  <2>2. \A m \in Loads : (Fetching(m)' <=> Fetching(m)) /\ (Fetching(m) => load'[m] = load[m])
    BY <2>1 DEF Others, Fetching
  <2> QED
    BY <1>0, <2>1, <2>2 DEF ScreenInv, Still, Comes, Coming, OnScreen, Place, Unfetched
<1>2. ASSUME NEW l \in Loads, AfterAgain(l) PROVE ScreenInv'
  <2>1. AfterFresh(l, tab, Place(tab)) /\ tab' = tab /\ kept' = kept /\ clean' = [clean EXCEPT ![tab] = ~Busy]
    BY <1>2 DEF AfterAgain, Place
  <2>2. \A u \in Tabs : u # tab => Place(u)' = Place(u) /\ clean'[u] = clean[u]
    BY <1>0, <2>1 DEF Place, Flags
  <2>3. clean'[tab] => ~Busy
    BY <1>0, <2>1 DEF Flags
  <2> QED
    BY <1>0, <2>1, <2>2, <2>3, FreshScreens
<1>3. ASSUME NEW t \in Tabs, NEW home, AfterSwitch(t, home) PROVE ScreenInv'
  <2>1. home = Place(t) /\ tab' = t /\ kept' = [kept EXCEPT ![tab] = cur]
    BY <1>3 DEF AfterSwitch, Place
  <2>2. \A u \in Tabs : u # t => Place(u)' = Place(u)
    BY <1>0, <2>1 DEF Place
  <2>3. CASE Busy
    <3>1. \A u \in Tabs : ~clean'[u]
      BY <1>3, <2>3 DEF AfterSwitch
    <3> QED
      BY <2>1, <3>1 DEF ScreenInv, Still, Comes
  <2>4. CASE ~Busy /\ cur' = home /\ clean' = clean /\ UNCHANGED <<list, shown, load, halfway>>
    <3>1. \A u \in Tabs : Place(u)' = Place(u)
      BY <2>1, <2>2, <2>4 DEF Place
    <3>2. \A m \in Loads : ~Fetching(m) /\ ~Fetching(m)'
      BY <2>4 DEF Busy, Fetching
    <3> QED
      BY <2>4, <3>1, <3>2 DEF ScreenInv, Still, Comes, OnScreen, Unfetched
  <2>5. ASSUME ~Busy, NEW l \in Loads, AfterFresh(l, t, home), clean' = [clean EXCEPT ![t] = TRUE]
        PROVE  ScreenInv'
    <3>1. \A u \in Tabs : u # t => (clean'[u] => clean[u])
      BY <1>0, <2>5 DEF Flags
    <3> QED
      BY <2>1, <2>2, <2>5, <3>1, FreshScreens
  <2> QED
    BY <1>3, <2>3, <2>4, <2>5 DEF AfterSwitch
<1>4. CASE (\E t \in Tabs : Announce(t)) \/ AfterHide \/ AfterPost
  <2>1. UNCHANGED <<tab, cur, list, kept, shown, load, halfway>> /\ \A t \in Tabs : clean'[t] => clean[t]
    BY <1>0, <1>4 DEF Announce, AfterHide, AfterPost, lists, Flags
  <2> QED
    BY <1>0, <2>1 DEF ScreenInv, Still, Comes, Coming, OnScreen, Place, Unfetched, Fetching
<1>5. ASSUME NEW l \in Loads, NEW rows, NEW new,
             \/ AfterTimeline(l, rows, new) \/ AfterNotifications(l, rows, new)
             \/ AfterSaved(l, rows, new) \/ AfterRestore(l, rows, new)
      PROVE  ScreenInv'
  BY <1>5, TimelineScreens, NotificationsScreen, SavedScreen, RestoreScreens
<1> QED
  BY <1>1, <1>2, <1>3, <1>4, <1>5, FailScreens DEF OneStep

\* What the keys move through is what the panel shows, for every tab whose last fresh
\* load had the page to itself, when nothing is under way.
THEOREM StateIsShown == Spec => []StateIsOnScreen
<1> DEFINE Inv == Types /\ Here /\ Alone /\ Distinct /\ Low /\ Empty /\ ScreenInv
<1>1. Init => Inv
  <2> SUFFICES ASSUME Init PROVE Inv
    OBVIOUS
  <2>1. Types
    BY InitTypes
  <2>2. \A l \in Loads : load[l] = NoLoad
    BY DEF Init
  <2>3. Here /\ Alone
    BY <2>2, NoLoadType DEF Here, Alone
  <2>4. Distinct
    BY InitDistinct
  <2>5. Low
    BY <2>1, <2>2, NoLoadType DEF Init, Low, Types, Items
  <2>6. Empty
    BY DEF Init, Empty
  <2>7. ScreenInv
    <3>1. \A t \in Tabs : Place(t) \in Ids
      BY <2>1 DEF Place, Types
    <3>2. \A l \in Loads : ~Fetching(l)
      BY <2>2, NoLoadType DEF Fetching
    <3> QED
      BY <3>1, <3>2 DEF Init, ScreenInv, Still, Comes, OnScreen
  <2> QED
    BY <2>1, <2>3, <2>4, <2>5, <2>6, <2>7
<1>2. Inv /\ [Next]_vars => Inv'
  BY StepTypes, StepIsOne, StepGuards, StepDistinct, StepLow, StepEmpty, StepScreens
<1>3. Inv => StateIsOnScreen
  <2> SUFFICES ASSUME Inv, NEW t \in Tabs, Sound(t) PROVE Current(t) = shown[t]
    BY DEF StateIsOnScreen
  <2>1. Unfetched(t)
    BY DEF Sound, Settled, Busy, Unfetched, Fetching
  <2>2. OnScreen(t)
    BY <2>1 DEF Sound, Settled, ScreenInv, Still
  <2> QED
    BY <2>2 DEF OnScreen, Current, Place
<1> HIDE DEF Inv
<1> QED
  BY <1>1, <1>2, <1>3, PTL DEF Spec

-----------------------------------------------------------------------------
(***************************************************************************)
(* Paging skips no item of the timeline.                                   *)
(***************************************************************************)
\* The items from c to h are in the list s, but for those that may be hidden.
Covers(s, c, h) == \A i \in c..h : i > 0 /\ i \notin Replies => Has(s, Own(i))

\* What a load of the timeline finds: the list covers what it has met, or what the last
\* load has met, from the cursor that it has sent; the old list covers what it did.
Paged(l) == IF Fetching(l)
            THEN /\ load[l].depth = 1 => load[l].from = 0
                 /\ load[l].depth # 1 => load[l].from # 0 /\ Covers(list[cur], load[l].from, load[l].seen)
                 /\ load[l].was => Covers(list[load[l].prev], load[l].back, head["timeline"])
            ELSE load[l].from # 0 /\ Covers(list[cur], load[l].from, head["timeline"])

Covered  == clean["timeline"] /\ ~halfway["timeline"] /\ Unfetched("timeline") =>
              Covers(list[Place("timeline")], cursor["timeline"], head["timeline"])
Pages    == \A l \in Loads : clean["timeline"] /\ ~halfway["timeline"] /\ tab = "timeline"
                               /\ load[l].phase # "off" => Paged(l)
CoverInv == Covered /\ Pages

\* A list that has grown covers what it did.
LEMMA CoversStays ==
    ASSUME NEW s \in Line, NEW r, NEW c, NEW h, Follows("timeline", s, r), Covers(s, c, h)
    PROVE  Covers(r, c, h)
BY HasStays DEF Covers

\* With its page a load covers what it covered, down to the cursor after the page.
LEMMA PageCovers ==
    ASSUME top \in Items, NEW s \in Line, NEW rows, NEW c \in Items, NEW h \in Items,
           Shown(rows, c), Follows("timeline", s, rows),
           (c # 0 /\ Covers(s, c, h)) \/ (c = 0 /\ h = top)
    PROVE  Covers(rows, CursorAfter(c), h)
<1> SUFFICES ASSUME NEW i \in CursorAfter(c)..h, i > 0, i \notin Replies PROVE Has(rows, Own(i))
  BY DEF Covers
<1>0. CursorAfter(c) \in Nat /\ Oldest(c) \in Nat /\ Newest(c) \in Nat /\ i \in Int
      /\ c \in Nat /\ h \in Nat
  BY PageIsSeq DEF Items
<1>1. Visible(i, hide)
  BY DEF Visible
<1>2. CASE c # 0 /\ i >= c
  <2>1. i \in c..h
    BY <1>0, <1>2
  <2>2. Has(s, Own(i))
    BY <1>2, <2>1 DEF Covers
  <2> QED
    BY <2>2, HasStays
<1>3. CASE ~(c # 0 /\ i >= c)
  <2>1. i <= Newest(c)
    BY <1>0, <1>3 DEF Newest
  <2>2. i >= Oldest(c)
    <3>1. CASE Oldest(c) > 1
      BY <1>0, <3>1 DEF CursorAfter
    <3>2. CASE ~(Oldest(c) > 1)
      BY <1>0, <3>2
    <3> QED
      BY <3>1, <3>2
  <2>3. i \in Oldest(c)..Newest(c)
    BY <1>0, <2>1, <2>2
  <2> QED
    BY <1>1, <2>3 DEF Shown
<1> QED
  BY <1>2, <1>3

\* A fresh load begins.
LEMMA FreshCovers ==
    ASSUME Types, CoverInv, NEW l \in Loads, NEW t \in Tabs, AfterFresh(l, t, Place(t)),
           tab' = t, head' = head, clean'[t] => ~Busy,
           \A u \in Tabs : u # t => /\ Place(u)' = Place(u)
                                    /\ clean'[u] => clean[u] /\ (u # tab \/ ~Busy)
    PROVE  CoverInv'
<1>0. /\ \A u \in Tabs : Place(u) \in Ids /\ NewList # Place(u)
      /\ list \in [Ids -> Line] /\ halfway \in Flags /\ NewList \in Ids /\ "timeline" \in Tabs
      /\ cursor \in [Tabs -> Items]
  BY NewListIsNew DEF Types, Place
<1>1. /\ Others(l) /\ Fetching(l)' /\ load'[l].depth = 1 /\ load'[l].from = 0
      /\ load'[l].prev = (IF t = "timeline" THEN Place(t) ELSE 0)
      /\ load'[l].was = (clean[t] /\ ~halfway[t]) /\ load'[l].back = cursor[t]
      /\ halfway' = [halfway EXCEPT ![t] = FALSE]
      /\ cursor' = [cursor EXCEPT ![t] = 0]
      /\ list' = list \/ list' = [list EXCEPT ![NewList] = <<>>]
  BY DEF AfterFresh, Begins, Fetching
<1>2. \A u \in Tabs : list'[Place(u)] = list[Place(u)]
  BY <1>0, <1>1
<1>3. ~Busy => Unfetched("timeline")
  BY DEF Unfetched, Busy, Fetching
<1>4. CASE t = "timeline"
  <2>1. Covered'
    BY <1>1, <1>4 DEF Covered, Unfetched
  <2>2. Pages'
    <3> SUFFICES ASSUME NEW m \in Loads, clean'[t], load'[m].phase # "off" PROVE Paged(m)'
      BY <1>4 DEF Pages
    <3>1. m = l /\ ~Busy
      BY <1>1 DEF Others, Busy
    <3>2. load'[l].was => Covers(list[Place(t)], cursor[t], head[t])
      BY <1>1, <1>3, <1>4, <3>1 DEF CoverInv, Covered
    <3> QED
      BY <1>1, <1>2, <1>4, <3>1, <3>2 DEF Paged
  <2> QED
    BY <2>1, <2>2 DEF CoverInv
<1>5. CASE t # "timeline"
  <2>1. Pages'
    BY <1>5 DEF Pages
  <2>2. Covered'
    <3> SUFFICES ASSUME clean'["timeline"], ~halfway'["timeline"]
                 PROVE  Covers(list'[Place("timeline")'], cursor'["timeline"], head["timeline"])
      BY DEF Covered
    <3>1. /\ ~halfway["timeline"] /\ cursor'["timeline"] = cursor["timeline"]
          /\ Place("timeline")' = Place("timeline") /\ clean["timeline"]
      BY <1>0, <1>1, <1>5 DEF Flags
    <3>2. Unfetched("timeline")
      BY <1>0, <1>3, <1>5 DEF Unfetched
    <3>3. Covers(list[Place("timeline")], cursor["timeline"], head["timeline"])
      BY <3>1, <3>2 DEF CoverInv, Covered
    <3> QED
      BY <1>0, <1>2, <3>1, <3>3
  <2> QED
    BY <2>1, <2>2 DEF CoverInv
<1> QED
  BY <1>4, <1>5

\* A load goes on or ends: the timeline is as it was if it is away; if not, the load is
\* as is to be expected, and a load for more leaves what the others for more rely on.
LEMMA GoingCovers ==
    ASSUME Types, Here, Alone, CoverInv, NEW l \in Loads, Going(l),
           tab = load[l].tab /\ tab # "timeline" /\ clean["timeline"] =>
             /\ list'[Place("timeline")'] = list[Place("timeline")]
             /\ cursor'["timeline"] = cursor["timeline"] /\ head'["timeline"] = head["timeline"]
             /\ halfway'["timeline"] = halfway["timeline"],
           tab = load[l].tab /\ tab = "timeline" /\ clean[tab] /\ clean'[tab] /\ ~halfway'[tab] =>
             /\ ~Fetching(l)' => Covers(list'[cur'], cursor'[tab], head'[tab])
             /\ load'[l].phase # "off" => Paged(l)'
             /\ load[l].more => /\ ~halfway[tab] /\ head'[tab] = head[tab]
                                /\ \A c : Covers(list[cur], c, head[tab]) => Covers(list'[cur'], c, head[tab])
    PROVE  CoverInv'
<1>0. /\ tab \in Tabs /\ tab' = tab /\ load[l].phase # "off" /\ Others(l) /\ "timeline" \in Tabs
      /\ \A t \in Tabs : clean'[t] => clean[t]
  BY DEF Going, Types
<1>1. clean'["timeline"] => tab = load[l].tab
  BY <1>0 DEF Here
<1>2. \A m \in Loads : m # l => load'[m] = load[m]
  BY <1>0 DEF Others
<1>3. clean[tab] => \A m \in Loads : m # l => ~Fetching(m)' /\ ~Fetching(m)
  BY <1>0, <1>2 DEF Alone, Fetching, Fresh
<1>4. Covered'
  <2> SUFFICES ASSUME clean'["timeline"], ~halfway'["timeline"], Unfetched("timeline")'
               PROVE  Covers(list'[Place("timeline")'], cursor'["timeline"], head'["timeline"])
    BY DEF Covered
  <2>1. CASE tab # "timeline"
    <3>1. clean["timeline"] /\ tab = load[l].tab
      BY <1>0, <1>1
    <3>2. Unfetched("timeline") /\ ~halfway["timeline"]
      BY <2>1, <3>1 DEF Unfetched
    <3>3. Covers(list[Place("timeline")], cursor["timeline"], head["timeline"])
      BY <3>1, <3>2 DEF CoverInv, Covered
    <3> QED
      BY <2>1, <3>1, <3>3
  <2>2. CASE tab = "timeline"
    <3>1. ~Fetching(l)' /\ Place("timeline")' = cur'
      BY <1>0, <2>2 DEF Unfetched, Place
    <3> QED
      BY <1>0, <1>1, <2>2, <3>1
  <2> QED
    BY <2>1, <2>2
<1>5. Pages'
  <2> SUFFICES ASSUME NEW m \in Loads, clean'["timeline"], ~halfway'["timeline"], tab = "timeline",
                      load'[m].phase # "off"
               PROVE  Paged(m)'
    BY <1>0 DEF Pages
  <2>1. CASE m = l
    BY <1>0, <1>1, <2>1
  <2>2. CASE m # l
    <3>1. load'[m] = load[m] /\ ~Fetching(m) /\ ~Fetching(m)' /\ clean[tab] /\ load[m].phase # "off"
      BY <1>0, <1>2, <1>3, <2>2
    <3>2. load[l].more
      BY <1>0, <2>2, <3>1 DEF Alone, Fresh
    <3>3. Paged(m)
      BY <1>0, <1>1, <3>1, <3>2 DEF CoverInv, Pages
    <3> QED
      BY <1>0, <1>1, <3>1, <3>2, <3>3 DEF Paged
  <2> QED
    BY <2>1, <2>2
<1> QED
  BY <1>4, <1>5 DEF CoverInv

\* An answer to a load of the timeline leaves no gap between its items.
LEMMA TimelineCovers ==
    ASSUME Types, Here, Alone, Distinct, CoverInv, NEW l \in Loads, NEW rows, NEW new,
           AfterTimeline(l, rows, new)
    PROVE  CoverInv'
<1>0. /\ cur \in Ids /\ list \in [Ids -> Line] /\ "timeline" \in Tabs /\ top \in Items
      /\ load[l].more \in BOOLEAN /\ load[l].prev \in {0} \cup Ids /\ load[l].from \in Items
      /\ load[l].seen \in Items /\ load[l].depth \in Nat /\ load[l].depth # 0
      /\ head \in [Tabs -> Items] /\ cursor \in [Tabs -> Items]
  <2>1. load[l].phase # "off"
    BY DEF AfterTimeline
  <2> QED
    BY <2>1, LoadFields DEF Types, Sane
<1>1. /\ Going(l) /\ load[l].tab = "timeline" /\ load[l].phase = "fetch"
      /\ UNCHANGED <<tab, cur, kept, clean, halfway>>
      /\ list' = [list EXCEPT ![cur] = rows] /\ Follows("timeline", list[cur], rows)
      /\ Shown(rows, load[l].from)
      /\ cursor' = [cursor EXCEPT !["timeline"] = CursorAfter(load[l].from)]
  BY ArrivesGoing DEF AfterTimeline
<1>2. ASSUME tab = "timeline", clean[tab], ~halfway[tab]
      PROVE  /\ ~Fetching(l)' => Covers(list'[cur'], cursor'[tab], head'[tab])
             /\ load'[l].phase # "off" => Paged(l)'
             /\ load[l].more => /\ ~halfway[tab] /\ head'[tab] = head[tab]
                                /\ \A c : Covers(list[cur], c, head[tab]) => Covers(list'[cur'], c, head[tab])
  <2>0. /\ list[cur] \in Line /\ list'[cur'] = rows /\ cursor'[tab] = CursorAfter(load[l].from)
        /\ load[l].phase # "off" /\ CursorAfter(load[l].from) \in Items /\ head[tab] \in Items
    BY <1>0, <1>1, <1>2, PageIsSeq
  <2>1. Paged(l)
    BY <1>1, <1>2, <2>0 DEF CoverInv, Pages
  <2>2. CASE load[l].more
    <3>1. head'[tab] = head[tab] /\ ~Fetching(l)'
      BY <1>1, <2>2, NoLoadType DEF AfterTimeline, Going, Fetching
    <3>2. load[l].from # 0 /\ Covers(list[cur], load[l].from, head[tab])
      BY <1>2, <2>1, <2>2 DEF Paged, Fetching
    <3>3. Covers(rows, CursorAfter(load[l].from), head[tab])
      BY <1>0, <1>1, <2>0, <3>2, PageCovers
    <3>4. ASSUME load'[l].phase # "off" PROVE Paged(l)'
      <4>1. load'[l].from = CursorAfter(load[l].from) /\ load'[l].from # 0
        BY <2>2, <3>4, NoLoadType DEF AfterTimeline, TopsUp
      <4> QED
        BY <1>2, <2>0, <3>1, <3>3, <4>1 DEF Paged
    <3>5. \A c : Covers(list[cur], c, head[tab]) => Covers(rows, c, head[tab])
      BY <1>1, <2>0, CoversStays
    <3> QED
      BY <1>2, <2>0, <3>1, <3>3, <3>4, <3>5
  <2>3. CASE ~load[l].more
    <3>1. Fetching(l) /\ Fresh(l) /\ Met(l) \in Items
      BY <1>0, <1>1, <2>3 DEF Fetching, Fresh, Met
    <3>2. Covers(rows, CursorAfter(load[l].from), Met(l))
      <4>1. (load[l].from # 0 /\ Covers(list[cur], load[l].from, Met(l))) \/ (load[l].from = 0 /\ Met(l) = top)
        BY <2>1, <3>1 DEF Paged, Met
      <4> QED
        BY <1>0, <1>1, <2>0, <3>1, <4>1, PageCovers
    <3>3. CASE TopsUp(l, new) /\ UNCHANGED <<loaded, head, failed>>
      <4>1. /\ Fetching(l)' /\ load'[l].depth # 1 /\ load'[l].from = CursorAfter(load[l].from)
            /\ load'[l].from # 0 /\ load'[l].seen = Met(l) /\ load'[l].prev = load[l].prev
            /\ load'[l].back = load[l].back /\ load'[l].was = load[l].was
        BY <1>0, <2>3, <3>3 DEF TopsUp, Fetching
      <4>2. load[l].prev # 0 /\ load[l].prev # cur /\ load[l].prev \in Ids
        <5>1. load[l].prev # 0
          BY <1>1, <3>1 DEF Types, Sane
        <5>2. Live(tab) /\ Place(tab) = cur /\ tab \in Tabs
          BY DEF Live, Place, Types
        <5> QED
          BY <1>0, <5>1, <5>2 DEF Distinct, Held
      <4>3. list'[load[l].prev] = list[load[l].prev]
        BY <1>0, <1>1, <4>2
      <4>4. load[l].was => Covers(list[load[l].prev], load[l].back, head["timeline"])
        BY <2>1, <3>1 DEF Paged
      <4>5. Paged(l)'
        BY <2>0, <3>2, <3>3, <4>1, <4>3, <4>4 DEF Paged
      <4> QED
        BY <2>3, <4>1, <4>5
    <3>4. CASE Goes(l, Met(l)) /\ head' = (IF load[l].more THEN head ELSE [head EXCEPT !["timeline"] = Met(l)])
      <4>1. head'[tab] = Met(l)
        BY <1>0, <1>2, <2>3, <3>4
      <4>2. ~Fetching(l)'
        BY <3>4, NoLoadType DEF Goes, Fetching
      <4>3. ASSUME load'[l].phase # "off" PROVE load'[l].from = cursor'["timeline"] /\ load'[l].from # 0
        BY <1>1, <3>4, <4>3, NoLoadType DEF Goes
      <4>4. ASSUME load'[l].phase # "off" PROVE Paged(l)'
        BY <1>2, <2>0, <3>2, <4>1, <4>2, <4>3, <4>4 DEF Paged
      <4> QED
        BY <2>0, <2>3, <3>2, <4>1, <4>4
    <3> QED
      BY <2>3, <3>3, <3>4 DEF AfterTimeline
  <2> QED
    BY <2>2, <2>3
<1> QED
  BY <1>1, <1>2, GoingCovers

\* One more page leaves no gap between the items.
LEMMA RestoreCovers ==
    ASSUME Types, Here, Alone, Distinct, CoverInv, NEW l \in Loads, NEW rows, NEW new,
           AfterRestore(l, rows, new)
    PROVE  CoverInv'
<1>0. /\ cur \in Ids /\ list \in [Ids -> Line] /\ "timeline" \in Tabs /\ top \in Items
      /\ load[l].from \in Items /\ load[l].tab \in Tabs
      /\ head \in [Tabs -> Items] /\ cursor \in [Tabs -> Items]
  BY LoadFields DEF Types
<1>1. /\ Going(l) /\ load[l].phase = "restore" /\ ~load[l].more /\ ~Fetching(l) /\ ~Fetching(l)'
      /\ UNCHANGED <<tab, cur, kept, clean, halfway, head>>
      /\ list' = [list EXCEPT ![cur] = rows] /\ Follows(load[l].tab, list[cur], rows)
      /\ load[l].tab = "timeline" => Shown(rows, load[l].from)
      /\ cursor' = [cursor EXCEPT ![load[l].tab] = CursorAfter(load[l].from)]
      /\ load'[l].phase # "off" => load'[l].from = cursor'[load[l].tab] /\ load'[l].from # 0
  <2>1. Going(l)
    BY ArrivesGoing
  <2>2. /\ ~Fetching(l) /\ ~Fetching(l)'
        /\ load'[l].phase # "off" => load'[l].from = cursor'[load[l].tab] /\ load'[l].from # 0
    BY NoLoadType DEF AfterRestore, Goes, Fetching
  <2> QED
    BY <2>1, <2>2 DEF AfterRestore
<1>2. ASSUME tab = load[l].tab, tab # "timeline", clean["timeline"]
      PROVE  /\ list'[Place("timeline")'] = list[Place("timeline")]
             /\ cursor'["timeline"] = cursor["timeline"]
  <2>1. kept["timeline"] # cur /\ Place("timeline") = kept["timeline"] /\ Place("timeline")' = kept["timeline"]
        /\ kept["timeline"] \in Ids
    BY <1>0, <1>1, <1>2, OthersApart DEF Place
  <2> QED
    BY <1>0, <1>1, <1>2, <2>1
<1>3. ASSUME tab = load[l].tab, tab = "timeline", clean[tab], ~halfway[tab]
      PROVE  /\ Covers(list'[cur'], cursor'[tab], head'[tab])
             /\ load'[l].phase # "off" => Paged(l)'
  <2>0. /\ list[cur] \in Line /\ list'[cur'] = rows /\ cursor'[tab] = CursorAfter(load[l].from)
        /\ load[l].phase # "off" /\ head[tab] \in Items
    BY <1>0, <1>1, <1>3
  <2>1. load[l].from # 0 /\ Covers(list[cur], load[l].from, head[tab])
    BY <1>1, <1>3, <2>0 DEF CoverInv, Pages, Paged
  <2>2. Covers(rows, CursorAfter(load[l].from), head[tab])
    BY <1>0, <1>1, <1>3, <2>0, <2>1, PageCovers
  <2> QED
    BY <1>1, <1>3, <2>0, <2>2 DEF Paged
<1> QED
  BY <1>1, <1>2, <1>3, GoingCovers

\* The other tabs leave the timeline alone.
LEMMA AwayCovers ==
    ASSUME Types, Here, Alone, Distinct, CoverInv, NEW l \in Loads, NEW rows, NEW new,
           AfterNotifications(l, rows, new) \/ AfterSaved(l, rows, new)
    PROVE  CoverInv'
<1>0. /\ cur \in Ids /\ list \in [Ids -> Line] /\ "timeline" \in Tabs /\ NewList \in Ids
      /\ head \in [Tabs -> Items] /\ cursor \in [Tabs -> Items] /\ kept \in [Tabs -> Ids]
  BY NewListIsNew DEF Types
<1>1. Going(l) /\ tab' = tab /\ halfway' = halfway /\ load[l].tab # "timeline"
  BY ArrivesGoing DEF AfterNotifications, AfterSaved
<1>2. ASSUME tab = load[l].tab, tab # "timeline", clean["timeline"]
      PROVE  /\ list'[Place("timeline")'] = list[Place("timeline")]
             /\ cursor'["timeline"] = cursor["timeline"] /\ head'["timeline"] = head["timeline"]
  <2>1. /\ kept["timeline"] # cur /\ kept["timeline"] # NewList
        /\ Place("timeline") = kept["timeline"] /\ kept["timeline"] \in Ids
    BY <1>0, <1>2, OthersApart
  <2>2. kept'["timeline"] = kept["timeline"]
    BY <1>0 DEF AfterNotifications, AfterSaved
  <2>3. Place("timeline")' = kept["timeline"]
    BY <1>1, <1>2, <2>2 DEF Place
  <2>4. list' = list \/ list' = [list EXCEPT ![cur] = rows] \/ list' = [list EXCEPT ![NewList] = rows]
    BY DEF AfterNotifications, AfterSaved
  <2>5. list'[kept["timeline"]] = list[kept["timeline"]]
    BY <1>0, <2>1, <2>4
  <2>6. cursor'["timeline"] = cursor["timeline"] /\ head'["timeline"] = head["timeline"]
    BY <1>0 DEF AfterNotifications, AfterSaved
  <2> QED
    BY <2>1, <2>3, <2>5, <2>6
<1> QED
  BY <1>1, <1>2, GoingCovers

\* A failure leaves no gap between the items.
LEMMA FailCovers ==
    ASSUME Types, Here, Alone, CoverInv, NEW l \in Loads, Fail(l)
    PROVE  CoverInv'
<1>0. /\ halfway \in Flags /\ clean \in Flags /\ load[l].more \in BOOLEAN /\ "timeline" \in Tabs
      /\ load[l].phase \in {"off", "fetch", "restore"} /\ load[l].was \in BOOLEAN
      /\ cursor \in [Tabs -> Items]
  BY LoadFields DEF Types
<1>1. /\ Going(l) /\ load'[l].phase = "off" /\ load[l].phase # "off" /\ tab' = tab
      /\ UNCHANGED <<list, kept, head>>
      /\ FailTimeline(l) \/ FailNotifications(l) \/ FailSaved(l)
  BY FailGoing, NoLoadType DEF Fail, Going, FailTimeline, FailNotifications, FailSaved, lists
<1>2. ASSUME tab = load[l].tab, tab # "timeline"
      PROVE  /\ list'[Place("timeline")'] = list[Place("timeline")]
             /\ cursor'["timeline"] = cursor["timeline"]
             /\ halfway'["timeline"] = halfway["timeline"]
  BY <1>0, <1>1, <1>2 DEF FailTimeline, FailNotifications, FailSaved, Place, lists, Flags
<1>3. ASSUME tab = load[l].tab, tab = "timeline", clean[tab], clean'[tab], ~halfway'[tab]
      PROVE  /\ Covers(list'[cur'], cursor'[tab], head'[tab])
             /\ load[l].more => ~halfway[tab] /\ cur' = cur
  <2>1. /\ FailTimeline(l) /\ ~halfway[tab] /\ load[l].phase # "restore"
        /\ load[l].more \/ load[l].was
        /\ cur' = (IF load[l].more THEN cur ELSE load[l].prev)
        /\ cursor'[tab] = (IF load[l].more THEN cursor[tab] ELSE load[l].back)
    BY <1>0, <1>1, <1>3 DEF FailTimeline, FailNotifications, FailSaved, Flags
  <2>2. CASE load[l].more
    <3>1. \A m \in Loads : ~Fetching(m)
      BY <1>1, <1>3, <2>2 DEF Alone, Fetching, Fresh
    <3>2. Covers(list[cur], cursor[tab], head[tab])
      BY <1>3, <2>1, <3>1 DEF CoverInv, Covered, Unfetched, Place
    <3> QED
      BY <1>1, <2>1, <2>2, <3>2
  <2>3. CASE ~load[l].more
    <3>1. Fetching(l)
      BY <1>0, <1>1, <2>1, <2>3 DEF Fetching
    <3>2. Covers(list[load[l].prev], load[l].back, head[tab])
      BY <1>1, <1>3, <2>1, <2>3, <3>1 DEF CoverInv, Pages, Paged
    <3> QED
      BY <1>1, <2>1, <2>3, <3>2
  <2> QED
    BY <2>2, <2>3
<1> QED
  BY <1>1, <1>2, <1>3, GoingCovers

\* Every step leaves no gap between the items.
LEMMA StepCovers ==
    ASSUME Types, Here, Alone, Distinct, CoverInv, OneStep
    PROVE  CoverInv'
<1>0. tab \in Tabs /\ clean \in Flags /\ kept \in [Tabs -> Ids] /\ Busy \in BOOLEAN /\ "timeline" \in Tabs
  BY DEF Types, Busy
<1>1. ASSUME NEW l \in Loads, AfterMore(l) PROVE CoverInv'
  <2>1. /\ UNCHANGED <<tab, cur, list, kept, cursor, halfway, head>> /\ Others(l) /\ load'[l].more
        /\ load[l].phase = "off" /\ load'[l].from = cursor[tab] /\ cursor[tab] # 0
        /\ clean'[tab] => ~Refreshing
        /\ \A t \in Tabs : clean'[t] => clean[t]
    BY <1>1 DEF AfterMore
  <2>2. \A m \in Loads : m # l => load'[m] = load[m] /\ (Fetching(m)' <=> Fetching(m))
    BY <2>1 DEF Others, Fetching
  <2>3. ~Fetching(l) /\ ~Fetching(l)' /\ \A m \in Loads : Fetching(m) => Refreshing
    BY <2>1 DEF Fetching, Refreshing
  <2>4. Covered'
    BY <1>0, <2>1, <2>2, <2>3 DEF CoverInv, Covered, Place, Unfetched
  <2>5. Pages'
    <3> SUFFICES ASSUME NEW m \in Loads, clean'["timeline"], ~halfway["timeline"], tab = "timeline",
                        load'[m].phase # "off"
                 PROVE  Paged(m)'
      BY <2>1 DEF Pages
    <3>1. CASE m = l
      <4>1. Covers(list[cur], cursor[tab], head[tab])
        BY <1>0, <2>1, <2>3 DEF CoverInv, Covered, Unfetched, Place
      <4> QED
        BY <2>1, <2>3, <3>1, <4>1 DEF Paged
    <3>2. CASE m # l
      <4>1. Paged(m)
        BY <1>0, <2>1, <2>2, <3>2 DEF CoverInv, Pages
      <4> QED
        BY <2>1, <2>2, <3>2, <4>1 DEF Paged
    <3> QED
      BY <3>1, <3>2
  <2> QED
    BY <2>4, <2>5 DEF CoverInv
<1>2. ASSUME NEW l \in Loads, AfterAgain(l) PROVE CoverInv'
  <2>1. /\ AfterFresh(l, tab, Place(tab)) /\ tab' = tab /\ kept' = kept /\ head' = head
        /\ clean' = [clean EXCEPT ![tab] = ~Busy]
    BY <1>2 DEF AfterAgain, Place
  <2>2. \A u \in Tabs : u # tab => Place(u)' = Place(u) /\ clean'[u] = clean[u]
    BY <1>0, <2>1 DEF Place, Flags
  <2>3. clean'[tab] => ~Busy
    BY <1>0, <2>1 DEF Flags
  <2> QED
    BY <1>0, <2>1, <2>2, <2>3, FreshCovers
<1>3. ASSUME NEW t \in Tabs, NEW home, AfterSwitch(t, home) PROVE CoverInv'
  <2>1. home = Place(t) /\ tab' = t /\ kept' = [kept EXCEPT ![tab] = cur] /\ head' = head
    BY <1>3 DEF AfterSwitch, Place
  <2>2. \A u \in Tabs : u # t => Place(u)' = Place(u)
    BY <1>0, <2>1 DEF Place
  <2>3. CASE Busy
    <3>1. \A u \in Tabs : ~clean'[u]
      BY <1>3, <2>3 DEF AfterSwitch
    <3> QED
      BY <1>0, <3>1 DEF CoverInv, Covered, Pages
  <2>4. CASE ~Busy /\ cur' = home /\ clean' = clean /\ UNCHANGED <<list, cursor, load, halfway>>
    <3>1. Place("timeline")' = Place("timeline")
      BY <1>0, <2>1, <2>2, <2>4 DEF Place
    <3>2. \A m \in Loads : ~Fetching(m) /\ load'[m].phase = "off"
      BY <2>4 DEF Busy, Fetching
    <3> QED
      BY <2>1, <2>4, <3>1, <3>2 DEF CoverInv, Covered, Pages, Unfetched
  <2>5. ASSUME ~Busy, NEW l \in Loads, AfterFresh(l, t, home), clean' = [clean EXCEPT ![t] = TRUE]
        PROVE  CoverInv'
    <3>1. \A u \in Tabs : u # t => (clean'[u] => clean[u])
      BY <1>0, <2>5 DEF Flags
    <3> QED
      BY <2>1, <2>2, <2>5, <3>1, FreshCovers
  <2> QED
    BY <1>3, <2>3, <2>4, <2>5 DEF AfterSwitch
<1>4. CASE (\E t \in Tabs : Announce(t)) \/ AfterHide \/ AfterPost
  <2>1. UNCHANGED <<tab, cur, list, kept, cursor, load, halfway, head>> /\ \A t \in Tabs : clean'[t] => clean[t]
    BY <1>0, <1>4 DEF Announce, AfterHide, AfterPost, lists, Flags
  <2> QED
    BY <1>0, <2>1 DEF CoverInv, Covered, Pages, Paged, Place, Unfetched, Fetching
<1>5. ASSUME NEW l \in Loads, NEW rows, NEW new,
             \/ AfterTimeline(l, rows, new) \/ AfterNotifications(l, rows, new)
             \/ AfterSaved(l, rows, new) \/ AfterRestore(l, rows, new)
      PROVE  CoverInv'
  BY <1>5, TimelineCovers, AwayCovers, RestoreCovers
<1> QED
  BY <1>1, <1>2, <1>3, <1>4, <1>5, FailCovers DEF OneStep

\* Between the newest item of the last load of the timeline and the cursor no item is
\* missing that is never hidden.
THEOREM NothingIsSkipped == Spec => []NothingSkipped
<1> DEFINE Inv == Types /\ Here /\ Alone /\ Distinct /\ CoverInv
<1>1. Init => Inv
  <2> SUFFICES ASSUME Init PROVE Inv
    OBVIOUS
  <2>1. Types /\ Distinct
    BY InitTypes, InitDistinct
  <2>2. \A l \in Loads : load[l].phase = "off"
    BY NoLoadType DEF Init
  <2>3. Here /\ Alone
    BY <2>2 DEF Here, Alone
  <2>4. CoverInv
    <3>1. cursor["timeline"] = 0 /\ head["timeline"] = 0
      BY DEF Init
    <3>2. \A i \in 0..0 : ~(i > 0)
      OBVIOUS
    <3> QED
      BY <2>2, <3>1, <3>2 DEF CoverInv, Covered, Pages, Covers
  <2> QED
    BY <2>1, <2>3, <2>4
<1>2. Inv /\ [Next]_vars => Inv'
  BY StepTypes, StepIsOne, StepGuards, StepDistinct, StepCovers
<1>3. Inv => NothingSkipped
  <2> SUFFICES ASSUME Inv, Sound("timeline")
               PROVE  Covers(Current("timeline"), cursor["timeline"], head["timeline"])
    BY DEF NothingSkipped, Covers
  <2>1. Unfetched("timeline")
    BY DEF Sound, Settled, Busy, Unfetched, Fetching
  <2>2. Current("timeline") = list[Place("timeline")]
    BY DEF Current, Place
  <2> QED
    BY <2>1, <2>2 DEF Sound, Settled, CoverInv, Covered
<1> HIDE DEF Inv
<1> QED
  BY <1>1, <1>2, <1>3, PTL DEF Spec

-----------------------------------------------------------------------------
(***************************************************************************)
(* A reload finds the post the user was on.                                *)
(*                                                                         *)
(* The budget of a reload is in pages, its promise in items: what joins    *)
(* them is that a clean tab's pages, counted, are full ones from the       *)
(* newest item of its load to its cursor, and that a list with a post of   *)
(* an item has all the posts that item brings.                             *)
(***************************************************************************)
\* Item i of the feed of t brings the post u, h says whether replies are hidden; a list that has a post
\* has all that came with it.
Gives(t, h, i, u) == IF t = "timeline" THEN Brings(i, u) /\ Visible(i, h) ELSE u = Own(i)
Whole(s) == \A k \in DOMAIN s : \E j \in DOMAIN Shows :
               /\ s[k].uri \in Range(Shows[j])
               /\ \A v \in Range(Shows[j]) : Has(s, v)

\* The list s has what the items of t from c to m bring.
Given(t, h, s, c, m) == /\ \A i \in c..m : i > 0 => \A u \in Range(Shows[i]) : Gives(t, h, i, u) => Has(s, u)
                        /\ t = "timeline" => Whole(s)

\* The items on n pages, and the last of those above a cursor.
Span(n)   == n * PageSize
Bottom(c) == IF c = 0 THEN 1 ELSE c

\* Nothing has gone wrong in t since its last fresh load: then the pages counted are enough
\* for all items from the newest of that load to the cursor, and to those that loads for more have sent.
Clear(t) == clean[t] /\ ~halfway[t] /\ ~failed[t] /\ t # "saved"
Deep     == \A t \in Tabs : Clear(t) /\ Unfetched(t) => head[t] - Bottom(cursor[t]) < Span(pages[t])
Further(l) == load[l].from # 0 /\ head[tab] - load[l].from < Span(pages[tab])
MoresDeep  == \A l \in Loads : Clear(tab) /\ load[l].phase # "off" /\ load[l].more => Further(l)

\* A fresh load has asked for its first page, or has all from the newest item it has met to the cursor
\* it has sent, and as many pages as that takes.
Begun(l) == /\ load[l].from = 0 /\ cursor[tab] = 0 /\ pages[tab] = 0
            /\ tab = "timeline" => list[cur] = <<>>
Gone(l)  == /\ load[l].from # 0 /\ load[l].from + Span(pages[tab]) = load[l].seen + 1
            /\ Given(tab, hide, list[cur], load[l].from, load[l].seen)
            /\ head[tab] <= load[l].seen
            /\ load[l].phase = "restore" => load[l].mark = pages[tab] /\ load[l].seen = head[tab]

\* If it owes the reader a post, an item brings it that the pages of its budget reach: before the
\* first page is in, however many new items there are on one page.
Owes(l) == \E i \in 1..head[tab] :
              /\ Gives(tab, hide, i, load[l].target)
              /\ head[tab] + (IF Fetching(l) THEN PageSize ELSE 0) - i < Span(load[l].budget)
Search(l) == /\ IF Fetching(l) /\ (tab = "timeline" => load[l].depth = 1) THEN Begun(l) ELSE Gone(l)
             /\ load[l].owed => load[l].target # 0 /\ Owes(l)
Searches == \A l \in Loads : clean[tab] /\ Fresh(l) /\ tab # "saved" => Search(l)

HeadLow == (\A t \in Tabs : head[t] <= top) /\ \A l \in Loads : load[l].seen <= top
PlaceInv == HeadLow /\ Deep /\ MoresDeep /\ Searches /\ ~lost

\* Pages, counted in items.
LEMMA SpanFacts ==
    /\ \A n \in Nat : Span(n) \in Nat /\ Span(n + 1) = Span(n) + PageSize
    /\ \A m, n \in Nat : m <= n => Span(m) <= Span(n)
    /\ Span(0) = 0
<1>1. ASSUME NEW n \in Nat PROVE Span(n) \in Nat /\ Span(n + 1) = Span(n) + PageSize
  BY DEF Span
<1>2. ASSUME NEW m \in Nat, NEW n \in Nat, m <= n PROVE Span(m) <= Span(n)
  <2>1. n - m \in Nat /\ n = m + (n - m)
    BY <1>2
  <2>2. ASSUME NEW d \in Nat PROVE Span(m + d) = Span(m) + Span(d) /\ Span(d) \in Nat
    BY DEF Span
  <2>3. Span(n) = Span(m) + Span(n - m) /\ Span(n - m) \in Nat /\ Span(m) \in Nat
    BY <1>1, <2>1, <2>2
  <2> QED
    BY <2>3
<1>3. Span(0) = 0
  BY DEF Span
<1> QED
  BY <1>1, <1>2, <1>3

\* A page goes down from the cursor by as many items as it has; when there is no cursor after it, it
\* has the oldest.
LEMMA CursorGoesDown ==
    ASSUME NEW c \in Items, top \in Items
    PROVE  /\ CursorAfter(c) # 0 => /\ CursorAfter(c) \in Nat /\ CursorAfter(c) > 1
                                    /\ CursorAfter(c) = (IF c = 0 THEN top + 1 ELSE c) - PageSize
           /\ CursorAfter(c) = 0 => (IF c = 0 THEN top + 1 ELSE c) - 1 <= PageSize
BY DEF CursorAfter, Oldest, Newest, Items

\* One page more takes a load no deeper than one page more can.
LEMMA PageIsDeep ==
    ASSUME top \in Items, NEW c \in Items, NEW n \in Nat, NEW h \in Items,
           (c # 0 /\ h - c < Span(n)) \/ (c = 0 /\ h = top)
    PROVE  h - Bottom(CursorAfter(c)) < Span(n + 1)
<1>0. Span(n) \in Nat /\ Span(n + 1) = Span(n) + PageSize
  BY SpanFacts
<1>1. c \in Nat /\ h \in Nat /\ top \in Nat
  BY DEF Items
<1>2. CASE CursorAfter(c) = 0
  BY <1>0, <1>1, <1>2, CursorGoesDown DEF Bottom
<1>3. CASE CursorAfter(c) # 0
  BY <1>0, <1>1, <1>3, CursorGoesDown DEF Bottom
<1> QED
  BY <1>2, <1>3

\* A fresh load that goes on has had whole pages.
LEMMA PageIsFull ==
    ASSUME top \in Items, NEW c \in Items, NEW n \in Nat, NEW h \in Items, CursorAfter(c) # 0,
           (c # 0 /\ c + Span(n) = h + 1) \/ (c = 0 /\ n = 0 /\ h = top)
    PROVE  CursorAfter(c) + Span(n + 1) = h + 1
<1>0. Span(n) \in Nat /\ Span(n + 1) = Span(n) + PageSize /\ Span(0) = 0
  BY SpanFacts
<1>1. c \in Nat /\ h \in Nat /\ top \in Nat
  BY DEF Items
<1> QED
  BY <1>0, <1>1, CursorGoesDown

\* A post that is pushed is all that a push adds.
LEMMA PushAddsIt ==
    ASSUME NEW t \in Tabs, NEW s \in Line, NEW u \in Uri, NEW v, Has(Push(t, s, u), v)
    PROVE  Has(s, v) \/ v = u
<1> DEFINE x == [tab |-> t, uri |-> u]
           r == Append(s, x)
<1>1. CASE Has(s, u)
  BY <1>1 DEF Push
<1>2. CASE ~Has(s, u)
  <2>1. Push(t, s, u) = r /\ x \in Row /\ s \in Seq(Row) /\ x.uri = u
    BY <1>2 DEF Push, Row, Line
  <2> HIDE DEF x
  <2>2. /\ DOMAIN s = 1..Len(s) /\ DOMAIN r = 1..(Len(s) + 1) /\ Len(s) \in Nat
        /\ r[Len(s) + 1] = x /\ \A k \in 1..Len(s) : r[k] = s[k]
    BY <2>1, AppendProperties
  <2> HIDE DEF r
  <2>3. PICK k \in DOMAIN r : r[k].uri = v
    BY <2>1 DEF Has
  <2>4. CASE k = Len(s) + 1
    BY <2>1, <2>2, <2>3, <2>4
  <2>5. CASE k # Len(s) + 1
    <3>1. k \in DOMAIN s /\ s[k].uri = v
      BY <2>2, <2>3, <2>5
    <3> QED
      BY <3>1 DEF Has
  <2> QED
    BY <2>4, <2>5
<1> QED
  BY <1>1, <1>2

\* Pushing one after the other adds nothing else.
LEMMA PushAllAddsThem ==
    ASSUME NEW t \in Tabs, NEW s \in Line, NEW us \in Seq(Uri), NEW v, Has(PushAll(t, s, us), v)
    PROVE  Has(s, v) \/ \E k \in DOMAIN us : us[k] = v
<1>1. PICK g : /\ \A k \in 0..Len(us) : g[k] \in Line
               /\ g[0] = s
               /\ \A k \in 1..Len(us) : g[k] = Push(t, g[k - 1], us[k])
               /\ PushAll(t, s, us) = g[Len(us)]
  BY PushAllSteps
<1> DEFINE n == Len(us)
           Known(k) == Has(g[k], v) => Has(s, v) \/ \E j \in 1..n : us[j] = v
           T == {k \in Nat : k <= n => Known(k)}
<1>2. n \in Nat /\ DOMAIN us = 1..n /\ \A k \in 1..n : us[k] \in Uri
  OBVIOUS
<1> HIDE DEF n
<1>3. 0 \in T
  BY <1>1
<1>4. ASSUME NEW k \in Nat, k \in T PROVE k + 1 \in T
  <2> SUFFICES ASSUME k + 1 <= n, Has(g[k + 1], v) PROVE Has(s, v) \/ \E j \in 1..n : us[j] = v
    OBVIOUS
  <2>1. k + 1 \in 1..n /\ (k + 1) - 1 = k /\ k \in 0..n /\ k <= n
    BY <1>2
  <2>2. g[k] \in Line /\ g[k + 1] = Push(t, g[k], us[k + 1]) /\ us[k + 1] \in Uri
    BY <1>1, <1>2, <2>1 DEF n
  <2>3. Has(g[k], v) \/ v = us[k + 1]
    BY <2>2, PushAddsIt
  <2> QED
    BY <1>4, <2>1, <2>3
<1>5. Nat \subseteq T
  <2> HIDE DEF T
  <2> QED
    BY <1>3, <1>4, Induction
<1>6. Known(n)
  BY <1>2, <1>5
<1> QED
  BY <1>1, <1>2, <1>6 DEF n

\* An item keeps a list whole, and what it brings is there.
LEMMA AddItemGives ==
    ASSUME NEW s \in Line, NEW i \in 1..MaxTop, Whole(s)
    PROVE  /\ Whole(AddItem(s, i))
           /\ \A u \in Range(Shows[i]) : Gives("timeline", hide, i, u) => Has(AddItem(s, i), u)
<1>0. /\ Shows[i] \in Seq(Uri) /\ "timeline" \in Tabs /\ i \in DOMAIN Shows
      /\ \A u : u \in Range(Shows[i]) <=> \E k \in DOMAIN Shows[i] : Shows[i][k] = u
  BY ItemShows, PostsAssumption DEF Range
<1>1. CASE Visible(i, hide) /\ ~Has(s, Own(i))
  <2> DEFINE r == PushAll("timeline", s, Shows[i])
  <2>1. AddItem(s, i) = r
    BY <1>1 DEF AddItem
  <2>2. Follows("timeline", s, r) /\ \A u \in Range(Shows[i]) : Has(r, u)
    BY <1>0, PushAllFollows
  <2>3. ASSUME NEW k \in DOMAIN r
        PROVE  \E j \in DOMAIN Shows : r[k].uri \in Range(Shows[j]) /\ \A v \in Range(Shows[j]) : Has(r, v)
    <3>1. Has(r, r[k].uri)
      BY DEF Has
    <3>2. Has(s, r[k].uri) \/ r[k].uri \in Range(Shows[i])
      BY <1>0, <3>1, PushAllAddsThem
    <3> HIDE DEF r
    <3>3. CASE r[k].uri \in Range(Shows[i])
      BY <1>0, <2>2, <3>3
    <3>4. CASE Has(s, r[k].uri)
      <4>1. PICK m \in DOMAIN s : s[m].uri = r[k].uri
        BY <3>4 DEF Has
      <4>2. PICK j \in DOMAIN Shows : s[m].uri \in Range(Shows[j]) /\ \A v \in Range(Shows[j]) : Has(s, v)
        BY DEF Whole
      <4> QED
        BY <2>2, <4>1, <4>2, HasStays
    <3> QED
      BY <3>2, <3>3, <3>4
  <2> HIDE DEF r
  <2>4. Whole(r)
    BY <2>3 DEF Whole
  <2> QED
    BY <2>1, <2>2, <2>4
<1>2. CASE ~(Visible(i, hide) /\ ~Has(s, Own(i)))
  <2>1. AddItem(s, i) = s
    BY <1>2 DEF AddItem
  <2>2. ASSUME NEW u \in Range(Shows[i]), Gives("timeline", hide, i, u) PROVE Has(s, u)
    <3>1. Brings(i, u) /\ Has(s, Own(i))
      BY <1>2, <2>2 DEF Gives
    <3>2. PICK m \in DOMAIN s : s[m].uri = Own(i)
      BY <3>1 DEF Has
    <3>3. PICK j \in DOMAIN Shows : Own(i) \in Range(Shows[j]) /\ \A v \in Range(Shows[j]) : Has(s, v)
      BY <3>2 DEF Whole
    <3> QED
      BY <3>1, <3>3 DEF Brings
  <2> QED
    BY <2>1, <2>2
<1> QED
  BY <1>1, <1>2

\* A page of the timeline keeps a list whole, and what its items bring is there.
LEMMA TimelineGives ==
    ASSUME NEW s \in Line, NEW us \in Seq(1..MaxTop), Whole(s)
    PROVE  /\ Whole(AddAll(s, us))
           /\ \A j \in DOMAIN us : \A u \in Range(Shows[us[j]]) :
                Gives("timeline", hide, us[j], u) => Has(AddAll(s, us), u)
<1>1. PICK g : /\ \A k \in 0..Len(us) : g[k] \in Line
               /\ g[0] = s
               /\ \A k \in 1..Len(us) : g[k] = AddItem(g[k - 1], us[k])
               /\ AddAll(s, us) = g[Len(us)]
  BY TimelineSteps
<1> DEFINE n == Len(us)
           Full(k) == /\ Whole(g[k])
                      /\ \A j \in 1..k : \A u \in Range(Shows[us[j]]) :
                           Gives("timeline", hide, us[j], u) => Has(g[k], u)
           T == {k \in Nat : k <= n => Full(k)}
<1>2. n \in Nat /\ DOMAIN us = 1..n /\ \A k \in 1..n : us[k] \in 1..MaxTop
  OBVIOUS
<1> HIDE DEF n
<1>3. Full(0)
  BY <1>1
<1>4. ASSUME NEW k \in Nat, k + 1 <= n, Full(k) PROVE Full(k + 1)
  <2>1. k + 1 \in 1..n /\ (k + 1) - 1 = k /\ k \in 0..n
    BY <1>2, <1>4
  <2>2. g[k] \in Line /\ g[k + 1] = AddItem(g[k], us[k + 1]) /\ us[k + 1] \in 1..MaxTop
    BY <1>1, <1>2, <2>1 DEF n
  <2>3. /\ Whole(g[k + 1]) /\ Follows("timeline", g[k], g[k + 1])
        /\ \A u \in Range(Shows[us[k + 1]]) : Gives("timeline", hide, us[k + 1], u) => Has(g[k + 1], u)
    BY <1>4, <2>2, AddItemGives, AddItemFollows
  <2>4. ASSUME NEW j \in 1..(k + 1), NEW u \in Range(Shows[us[j]]), Gives("timeline", hide, us[j], u)
        PROVE  Has(g[k + 1], u)
    <3>1. CASE j = k + 1
      BY <3>1, <2>3, <2>4
    <3>2. CASE j # k + 1
      <4>1. j \in 1..k
        BY <3>2
      <4> QED
        BY <4>1, <1>4, <2>2, <2>3, <2>4, HasStays
    <3> QED
      BY <3>1, <3>2
  <2> QED
    BY <2>3, <2>4
<1> HIDE DEF Full
<1>5. 0 \in T
  BY <1>3
<1>6. ASSUME NEW k \in Nat, k \in T PROVE k + 1 \in T
  <2> SUFFICES ASSUME k + 1 <= n PROVE Full(k + 1)
    OBVIOUS
  <2>1. k <= n
    BY <1>2
  <2> QED
    BY <2>1, <1>4, <1>6
<1>7. Nat \subseteq T
  <2> HIDE DEF T
  <2> QED
    BY <1>5, <1>6, Induction
<1>8. Full(n)
  BY <1>2, <1>7
<1> QED
  BY <1>1, <1>2, <1>8 DEF Full, n

\* The rows of a page have what its items bring.
LEMMA RowsGive ==
    ASSUME NEW t \in Tabs, t # "saved", NEW s \in Line, NEW c \in Items, top \in Items,
           t = "timeline" => Whole(s)
    PROVE  /\ Follows(t, s, Rows(t, s, c)) /\ (t = "timeline" => Whole(Rows(t, s, c)))
           /\ \A i \in Oldest(c)..Newest(c) : \A u \in Range(Shows[i]) :
                Gives(t, hide, i, u) => Has(Rows(t, s, c), u)
<1>1. /\ Page(c) \in Seq(1..MaxTop) /\ Owns(c) \in Seq(Uri)
      /\ \A i \in Oldest(c)..Newest(c) : \E k \in DOMAIN Page(c) : Page(c)[k] = i
  BY PageIsSeq
<1>2. Follows(t, s, Rows(t, s, c))
  BY RowsFollow
<1>3. CASE t = "timeline"
  <2>1. Rows(t, s, c) = AddAll(s, Page(c))
    BY <1>3 DEF Rows
  <2> QED
    BY <1>1, <1>2, <1>3, <2>1, TimelineGives
<1>4. CASE t = "notifications"
  <2> DEFINE q == PushAll(t, <<>>, Owns(c))
  <2>1. Rows(t, s, c) = s \o q
    BY <1>4 DEF Rows
  <2>2. <<>> \in Line
    BY DEF Line
  <2>3. q \in Line /\ \A j \in DOMAIN Owns(c) : Has(q, Owns(c)[j])
    BY <1>1, <2>2, PushAllFollows DEF Follows
  <2> HIDE DEF q
  <2>4. ASSUME NEW i \in Oldest(c)..Newest(c), NEW u, Gives(t, hide, i, u) PROVE Has(s \o q, u)
    <3>1. PICK k \in DOMAIN Page(c) : Page(c)[k] = i
      BY <1>1
    <3>2. k \in DOMAIN Owns(c) /\ Owns(c)[k] = u
      BY <1>4, <2>4, <3>1 DEF Owns, Gives
    <3>3. PICK m \in DOMAIN q : q[m].uri = u
      BY <2>3, <3>2 DEF Has
    <3>4. Len(s) + m \in DOMAIN (s \o q) /\ (s \o q)[Len(s) + m] = q[m]
      BY <2>3 DEF Line
    <3> QED
      BY <3>3, <3>4 DEF Has
  <2> QED
    BY <1>2, <1>4, <2>1, <2>4
<1> QED
  BY <1>3, <1>4

\* With its page a load has what the items bring down to the cursor after the page.
LEMMA PageGives ==
    ASSUME NEW t \in Tabs, t # "saved", NEW s \in Line, NEW c \in Items, NEW h \in Items, top \in Items,
           \/ c # 0 /\ Given(t, hide, s, c, h)
           \/ c = 0 /\ h = top /\ (t = "timeline" => s = <<>>)
    PROVE  Given(t, hide, Rows(t, s, c), CursorAfter(c), h)
<1> DEFINE r == Rows(t, s, c)
<1>0. CursorAfter(c) \in Nat /\ Oldest(c) \in Nat /\ Newest(c) \in Nat /\ c \in Nat /\ h \in Nat
  BY PageIsSeq DEF Items
<1>1. t = "timeline" => Whole(s)
  BY DEF Given, Whole
<1>2. /\ Follows(t, s, r) /\ (t = "timeline" => Whole(r))
      /\ \A i \in Oldest(c)..Newest(c) : \A u \in Range(Shows[i]) : Gives(t, hide, i, u) => Has(r, u)
  BY <1>1, RowsGive
<1> HIDE DEF r
<1>3. ASSUME NEW i \in CursorAfter(c)..h, i > 0, NEW u \in Range(Shows[i]), Gives(t, hide, i, u)
      PROVE  Has(r, u)
  <2>1. CASE c # 0 /\ i >= c
    <3>1. i \in c..h
      BY <1>0, <1>3, <2>1
    <3>2. Has(s, u)
      BY <1>3, <2>1, <3>1 DEF Given
    <3> QED
      BY <1>2, <3>2, HasStays
  <2>2. CASE ~(c # 0 /\ i >= c)
    <3>1. i <= Newest(c)
      BY <1>0, <2>2 DEF Newest
    <3>2. i >= Oldest(c)
      <4>1. CASE Oldest(c) > 1
        BY <1>0, <4>1 DEF CursorAfter
      <4>2. CASE ~(Oldest(c) > 1)
        BY <1>0, <1>3, <4>2
      <4> QED
        BY <4>1, <4>2
    <3>3. i \in Oldest(c)..Newest(c)
      BY <1>0, <3>1, <3>2
    <3> QED
      BY <1>2, <1>3, <3>3
  <2> QED
    BY <2>1, <2>2
<1> QED
  BY <1>2, <1>3 DEF Given, r

\* An item shows what it brings.
LEMMA GivenIsShown ==
    ASSUME NEW t, NEW h, NEW i \in 1..MaxTop, NEW u, Gives(t, h, i, u)
    PROVE  u \in Range(Shows[i])
<1>1. Own(i) \in Range(Shows[i])
  BY ItemShows DEF Range
<1> QED
  BY <1>1 DEF Gives, Brings

\* A list with no posts is whole.
LEMMA EmptyIsWhole == Whole(<<>>)
BY DEF Whole

\* A number of pages is a number of items.
LEMMA SpanIsNat == ASSUME NEW n \in Nat PROVE Span(n) \in Nat
BY SpanFacts

\* A load that is not down to an item that its budget reaches has not used it up.
LEMMA EnoughPages ==
    ASSUME NEW b \in Nat, NEW p \in Nat, NEW s \in Nat, NEW i \in Nat, NEW c \in Nat,
           s - i < Span(b), c + Span(p) = s + 1, ~(i >= c)
    PROVE  p < b
<1>1. Span(b) \in Nat /\ Span(p) \in Nat
  BY SpanIsNat
<1>2. b <= p => Span(b) <= Span(p)
  BY SpanFacts
<1> QED
  BY <1>1, <1>2

\* A load that is owed its post and stops looking for it has found it, for it has been
\* through the pages of its budget, or the whole feed.
LEMMA PlaceIsFound ==
    ASSUME Types, ~lost, NEW l \in Loads, ~load[l].more, NEW t \in Tabs, t = load[l].tab,
           NEW s \in Items, NEW r, r = [load[l] EXCEPT !.seen = s], NEW may, Restore(l, r, may),
           list'[cur'] # <<>> => may,
           cursor' \in [Tabs -> Items], pages' \in [Tabs -> Nat],
           cursor'[t] # 0 => cursor'[t] + Span(pages'[t]) = s + 1,
           Given(t, hide, list'[cur'], cursor'[t], s),
           load[l].owed /\ s - head[t] <= PageSize =>
             load[l].target # 0 /\ \E i \in 1..s : /\ Gives(t, hide, i, load[l].target)
                                                   /\ s - i < Span(load[l].budget)
    PROVE  /\ ~lost'
           /\ load'[l].phase # "off" =>
                /\ load'[l].phase = "restore" /\ load'[l].tab = t /\ ~load'[l].more
                /\ load'[l].from = cursor'[t] /\ load'[l].from # 0
                /\ load'[l].mark = pages'[t] /\ load'[l].seen = s
                /\ load'[l].target = load[l].target /\ load'[l].budget = load[l].budget
                /\ load'[l].owed => load[l].owed /\ s - head[t] <= PageSize
<1> DEFINE found == Has(list'[cur'], r.target)
           goOn  == /\ may /\ r.target # 0 /\ ~found
                    /\ pages'[r.tab] < r.budget /\ cursor'[r.tab] # 0
           due   == r.owed /\ r.seen - head[r.tab] <= PageSize
           x == [r EXCEPT !.phase = "restore", !.from = cursor'[r.tab],
                          !.mark = pages'[r.tab], !.stage = <<>>, !.owed = due]
<1>1. /\ load' = [load EXCEPT ![l] = IF ~goOn THEN NoLoad ELSE x]
      /\ lost' = (lost \/ (~goOn /\ ~found /\ due /\ list'[cur'] # <<>> /\ clean[r.tab]))
  BY DEF Restore
<1>2. load[l] \in LoadType /\ load \in [Loads -> LoadType]
  BY DEF Types
<1>3. /\ r.tab = t /\ r.seen = s /\ r.target = load[l].target /\ r.budget = load[l].budget
      /\ r.owed = load[l].owed /\ r.more = load[l].more
  BY <1>2 DEF LoadType
<1>4. /\ x.phase = "restore" /\ x.tab = r.tab /\ x.more = r.more /\ x.from = cursor'[r.tab]
      /\ x.mark = pages'[r.tab] /\ x.seen = r.seen /\ x.target = r.target
      /\ x.budget = r.budget /\ x.owed = due
  BY <1>2 DEF LoadType
<1> HIDE DEF x
<1>5. load'[l] = IF ~goOn THEN NoLoad ELSE x
  BY <1>1, <1>2
<1>6. ASSUME due, ~found, list'[cur'] # <<>> PROVE goOn
  <2>1. load[l].target # 0 /\ may
    BY <1>3, <1>6
  <2>2. PICK i \in 1..s : Gives(t, hide, i, load[l].target) /\ s - i < Span(load[l].budget)
    BY <1>3, <1>6
  <2>3. /\ s \in Nat /\ i \in Nat /\ i > 0 /\ i <= s /\ i \in 1..MaxTop
        /\ cursor'[t] \in Nat /\ pages'[t] \in Nat /\ load[l].budget \in Nat
    <3>1. s \in 0..MaxTop /\ cursor'[t] \in 0..MaxTop
      BY DEF Items
    <3>2. load[l].budget \in 0..RestoreCap
      BY <1>2 DEF LoadType
    <3> QED
      BY <3>1, <3>2
  <2>4. load[l].target \in Range(Shows[i])
    BY <2>2, <2>3, GivenIsShown
  <2>5. ~(i >= cursor'[t])
    <3>1. SUFFICES ASSUME i >= cursor'[t] PROVE FALSE
      OBVIOUS
    <3>2. i \in cursor'[t]..s
      BY <2>3, <3>1
    <3> QED
      BY <1>3, <1>6, <2>2, <2>3, <2>4, <3>2 DEF Given
  <2>6. cursor'[t] # 0 /\ cursor'[t] + Span(pages'[t]) = s + 1
    BY <2>3, <2>5
  <2>8. pages'[t] < load[l].budget
    BY <2>2, <2>3, <2>5, <2>6, EnoughPages
  <2>9. r.target # 0 /\ pages'[r.tab] < r.budget /\ cursor'[r.tab] # 0
    BY <1>3, <2>1, <2>6, <2>8
  <2> QED
    BY <1>6, <2>1, <2>9, Zenon
<1>7. ~lost'
  BY <1>1, <1>6
<1> HIDE DEF goOn, found
<1>8. ASSUME load'[l].phase # "off" PROVE load'[l] = x /\ cursor'[r.tab] # 0
  BY <1>5, <1>8, NoLoadType DEF goOn
<1> QED
  BY <1>3, <1>4, <1>7, <1>8

\* A load goes on or ends: what its tab needs is as is to be expected, and a load for more
\* leaves what the others for more rely on.
LEMMA GoingPlaces ==
    ASSUME Types, Here, Alone, PlaceInv, NEW l \in Loads, Going(l), NEW t \in Tabs, t = load[l].tab,
           hide' = hide, top' = top, ~lost', pages' \in [Tabs -> Nat],
           \A u \in Tabs : u # t => /\ head'[u] = head[u] /\ cursor'[u] = cursor[u] /\ pages'[u] = pages[u]
                                    /\ failed'[u] = failed[u] /\ halfway'[u] = halfway[u],
           head'[t] <= top /\ load'[l].seen <= top,
           tab = t /\ clean[t] /\ clean'[t] /\ t # "saved" =>
             /\ Clear(t)' /\ ~Fetching(l)' => head'[t] - Bottom(cursor'[t]) < Span(pages'[t])
             /\ load[l].more => /\ head'[t] = head[t] /\ Span(pages[t]) <= Span(pages'[t])
                                /\ Clear(t)' => Clear(t)
                                /\ load'[l].phase # "off" /\ Clear(t) => Further(l)'
             /\ load'[l].phase # "off" /\ ~load[l].more => Search(l)'
    PROVE  PlaceInv'
<1>0. /\ tab \in Tabs /\ tab' = tab /\ load[l].phase # "off"
      /\ \A m \in Loads : m # l => load'[m] = load[m]
      /\ \A u \in Tabs : clean'[u] => clean[u]
      /\ load'[l].phase # "off" => (load'[l].more <=> load[l].more)
  BY DEF Going, Others, Types
<1>1. ASSUME NEW u \in Tabs, clean'[u] PROVE tab = t
  BY <1>0, <1>1 DEF Here
<1>2. HeadLow'
  <2>1. \A u \in Tabs : head'[u] <= top'
    BY DEF PlaceInv, HeadLow
  <2>2. \A m \in Loads : load'[m].seen <= top'
    BY <1>0 DEF PlaceInv, HeadLow
  <2> QED
    BY <2>1, <2>2 DEF HeadLow
<1>3. Deep'
  <2> SUFFICES ASSUME NEW u \in Tabs, Clear(u)', Unfetched(u)'
               PROVE  head'[u] - Bottom(cursor'[u]) < Span(pages'[u])
    BY DEF Deep
  <2>1. clean'[u] /\ clean[u] /\ tab = t /\ u # "saved"
    BY <1>0, <1>1 DEF Clear
  <2>2. CASE u = t
    <3>1. ~Fetching(l)'
      BY <1>0, <2>1, <2>2 DEF Unfetched
    <3> QED
      BY <2>1, <2>2, <3>1
  <2>3. CASE u # t
    <3>1. Clear(u) /\ Unfetched(u)
      BY <2>1, <2>3 DEF Clear, Unfetched
    <3>2. head[u] - Bottom(cursor[u]) < Span(pages[u])
      BY <3>1 DEF PlaceInv, Deep
    <3> QED
      BY <2>3, <3>2
  <2> QED
    BY <2>2, <2>3
<1>4. MoresDeep'
  <2> SUFFICES ASSUME NEW m \in Loads, Clear(tab)', load'[m].phase # "off", load'[m].more PROVE Further(m)'
    BY <1>0 DEF MoresDeep
  <2>1. clean'[tab] /\ clean[tab] /\ tab = t /\ t # "saved"
    BY <1>0, <1>1 DEF Clear
  <2>2. CASE m = l
    <3>1. load[l].more /\ Clear(t)
      BY <1>0, <2>1, <2>2
    <3> QED
      BY <2>1, <2>2, <3>1
  <2>3. CASE m # l
    <3>1. load'[m] = load[m] /\ load[m].phase # "off" /\ load[m].more
      BY <1>0, <2>3
    <3>2. load[l].more
      BY <1>0, <2>1, <2>3, <3>1 DEF Alone, Fresh
    <3>3. Clear(tab) /\ head'[tab] = head[tab] /\ Span(pages[tab]) <= Span(pages'[tab])
      BY <1>0, <2>1, <3>2
    <3>4. Further(m)
      BY <3>1, <3>3 DEF PlaceInv, MoresDeep
    <3>5. /\ head[tab] \in Nat /\ load[m].from \in Nat
          /\ Span(pages[tab]) \in Int /\ Span(pages'[tab]) \in Int
      <4>1. head[tab] \in Items /\ load[m].from \in Items
        BY <1>0, LoadFields DEF Types
      <4>2. pages[tab] \in Nat /\ pages'[tab] \in Nat
        BY <1>0 DEF Types
      <4>3. Span(pages[tab]) \in Int /\ Span(pages'[tab]) \in Int
        BY <4>2, SpanIsNat
      <4> QED
        BY <4>1, <4>3 DEF Items
    <3> QED
      BY <1>0, <3>1, <3>3, <3>4, <3>5 DEF Further
  <2> QED
    BY <2>2, <2>3
<1>5. Searches'
  <2> SUFFICES ASSUME NEW m \in Loads, clean'[tab], Fresh(m)', tab # "saved" PROVE Search(m)'
    BY <1>0 DEF Searches
  <2>1. clean[tab] /\ tab = t
    BY <1>0, <1>1
  <2>2. load'[m].phase # "off" /\ ~load'[m].more
    BY DEF Fresh
  <2>3. CASE m = l
    BY <1>0, <2>1, <2>2, <2>3
  <2>4. CASE m # l
    <3>1. Fresh(m)
      BY <1>0, <2>2, <2>4 DEF Fresh
    <3> QED
      BY <1>0, <2>1, <2>4, <3>1 DEF Alone
  <2> QED
    BY <2>3, <2>4
<1> QED
  BY <1>2, <1>3, <1>4, <1>5 DEF PlaceInv

\* A fresh load begins.
LEMMA FreshPlaces ==
    ASSUME Types, PlaceInv, NEW l \in Loads, NEW t \in Tabs, NEW u \in {0} \cup Uri, NEW c \in Ids,
           StartFresh(l, t, u, c), tab' = t, UNCHANGED <<head, top, failed, lost>>,
           clean'[t] => ~Busy,
           \A x \in Tabs : x # t /\ clean'[x] => clean[x] /\ (x # tab \/ ~Busy)
    PROVE  PlaceInv'
<1> DEFINE b == IF u = 0 THEN 0 ELSE Budget(pages[t])
           o == /\ u # 0 /\ clean[t] /\ ~halfway[t] /\ ~failed[t]
                /\ pages[t] < RestoreCap /\ Reached(t, u)
           r == [NoLoad EXCEPT !.phase = "fetch", !.tab = t, !.target = u, !.depth = 1,
                               !.budget = b, !.prev = IF t = "timeline" THEN c ELSE 0,
                               !.back = cursor[t], !.was = clean[t] /\ ~halfway[t], !.owed = o]
<1>1. load' = [load EXCEPT ![l] = r] /\ load[l].phase = "off"
  BY DEF StartFresh
<1> HIDE DEF b, o
<1>2. /\ r.phase = "fetch" /\ r.tab = t /\ ~r.more /\ r.depth = 1 /\ r.from = 0 /\ r.seen = 0
      /\ r.target = u /\ r.budget = b /\ r.owed = o
  BY DEF NoLoad
<1> HIDE DEF r
<1>3. /\ load'[l] = r /\ \A m \in Loads : m # l => load'[m] = load[m]
      /\ cursor' = [cursor EXCEPT ![t] = 0] /\ pages' = [pages EXCEPT ![t] = 0]
      /\ halfway' = [halfway EXCEPT ![t] = FALSE]
      /\ t = "timeline" => cur' = NewList /\ list' = [list EXCEPT ![NewList] = <<>>]
  BY <1>1 DEF StartFresh, Types
<1>4. /\ cursor'[t] = 0 /\ pages'[t] = 0
      /\ t = "timeline" => list'[cur'] = <<>>
      /\ \A x \in Tabs : x # t => cursor'[x] = cursor[x] /\ pages'[x] = pages[x] /\ halfway'[x] = halfway[x]
  BY <1>3, NewListIsNew DEF Types, Flags
<1>5. HeadLow'
  <2>1. r.seen <= top
    <3>1. top \in Nat
      BY DEF Types, Items
    <3> QED
      BY <1>2, <3>1
  <2> QED
    BY <1>3, <2>1 DEF PlaceInv, HeadLow
<1>6. ~Busy => \A x \in Tabs : Unfetched(x)
  BY DEF Unfetched, Busy, Fetching
<1>7. Deep'
  <2> SUFFICES ASSUME NEW x \in Tabs, Clear(x)', Unfetched(x)'
               PROVE  head[x] - Bottom(cursor'[x]) < Span(pages'[x])
    BY DEF Deep
  <2>1. x # t
    BY <1>2, <1>3 DEF Unfetched, Fetching
  <2>2. clean[x] /\ (x # tab \/ ~Busy) /\ Clear(x)
    BY <1>4, <2>1 DEF Clear
  <2>3. Unfetched(x)
    BY <1>6, <2>2 DEF Unfetched
  <2> QED
    BY <1>4, <2>1, <2>2, <2>3 DEF PlaceInv, Deep
<1>8. ASSUME NEW m \in Loads, clean'[t], load'[m].phase # "off" PROVE m = l /\ ~Busy
  BY <1>3, <1>8 DEF Busy
<1>9. MoresDeep'
  BY <1>2, <1>3, <1>8 DEF MoresDeep, Clear
<1>10. Searches'
  <2> SUFFICES ASSUME NEW m \in Loads, clean'[t], Fresh(m)', t # "saved" PROVE Search(m)'
    BY DEF Searches
  <2>1. m = l /\ ~Busy
    BY <1>8 DEF Fresh
  <2>2. Begun(l)'
    BY <1>2, <1>3, <1>4 DEF Begun
  <2>3. ASSUME o PROVE u # 0 /\ Owes(l)'
    <3>1. /\ u # 0 /\ clean[t] /\ ~halfway[t] /\ ~failed[t] /\ pages[t] < RestoreCap /\ Reached(t, u)
      BY <2>3 DEF o
    <3>2. head[t] - Bottom(cursor[t]) < Span(pages[t])
      BY <1>6, <2>1, <3>1 DEF PlaceInv, Deep, Clear
    <3>3. PICK i \in cursor[t]..head[t] : i > 0 /\ Gives(t, hide', i, u)
      BY <3>1 DEF Reached, Gives
    <3>4. b = pages[t] + 1 /\ pages[t] \in Nat
      BY <3>1 DEF b, Budget, Types
    <3>5. head[t] \in Nat /\ cursor[t] \in Nat /\ i \in 1..head[t]
      <4>1. head[t] \in 0..MaxTop /\ cursor[t] \in 0..MaxTop
        BY DEF Types, Items
      <4> QED
        BY <3>3, <4>1
    <3>6. Span(b) = Span(pages[t]) + PageSize /\ Span(pages[t]) \in Nat
      BY <3>4, SpanFacts
    <3>7. head[t] + PageSize - i < Span(b)
      BY <3>2, <3>3, <3>5, <3>6 DEF Bottom
    <3>8. Fetching(l)'
      BY <1>2, <1>3 DEF Fetching
    <3> QED
      BY <1>2, <1>3, <3>1, <3>3, <3>5, <3>7, <3>8 DEF Owes
  <2> QED
    BY <1>2, <1>3, <2>1, <2>2, <2>3 DEF Search, Fetching
<1> QED
  BY <1>5, <1>7, <1>9, <1>10 DEF PlaceInv

\* New items on one page at most push an item down by no more.
LEMMA NewOnesPush ==
    ASSUME NEW s \in Nat, NEW h \in Nat, NEW i \in Nat, NEW b \in Nat,
           s - h <= PageSize, h + PageSize - i < b
    PROVE  s - i < b
OBVIOUS

\* A fresh load has a page of what it looks for: it goes on as it should, or has ended, and
\* then it has not lost the place.
LEMMA SearchGoesOn ==
    ASSUME Types, Here, Alone, PlaceInv, NEW l \in Loads, Going(l), ~load[l].more,
           NEW t \in Tabs, t = load[l].tab, t # "saved", NEW s \in Items, s <= top,
           NEW r, r = [load[l] EXCEPT !.seen = s], NEW may, Restore(l, r, may), list'[cur'] # <<>> => may,
           hide' = hide, top' = top, pages' \in [Tabs -> Nat], cursor' \in [Tabs -> Items],
           head'[t] = s, load[l].phase = "restore" => s = head[t],
           \A u \in Tabs : u # t => /\ head'[u] = head[u] /\ cursor'[u] = cursor[u] /\ pages'[u] = pages[u]
                                    /\ failed'[u] = failed[u] /\ halfway'[u] = halfway[u],
           tab = t /\ clean[t] =>
             /\ Given(t, hide, list'[cur'], cursor'[t], s) /\ s - Bottom(cursor'[t]) < Span(pages'[t])
             /\ cursor'[t] # 0 => cursor'[t] + Span(pages'[t]) = s + 1
             /\ head[t] <= s
             /\ load[l].owed => load[l].target # 0 /\ Owes(l)
    PROVE  PlaceInv'
<1>0. /\ load[l] \in LoadType /\ load \in [Loads -> LoadType] /\ head \in [Tabs -> Items] /\ tab' = tab
      /\ load[l].phase # "off" /\ ~lost
  BY DEF Types, Going, PlaceInv
<1>1. s \in Nat /\ head[t] \in Nat /\ top \in Nat /\ load[l].budget \in Nat /\ Span(load[l].budget) \in Nat
  <2>1. load[l].budget \in Nat
    BY <1>0 DEF LoadType
  <2>2. Span(load[l].budget) \in Nat
    BY <2>1, SpanIsNat
  <2>3. head[t] \in Items /\ top \in Items
    BY <1>0 DEF Types
  <2>4. Items \subseteq Nat
    BY DEF Items
  <2> QED
    BY <2>1, <2>2, <2>3, <2>4
<1>2. r.tab = t /\ r.seen = s
  BY <1>0 DEF LoadType
<1>3. load'[l].seen <= top
  <2>1. load'[l] = NoLoad \/ load'[l].seen = s
    <3>1. Goes(l, s)
      BY <1>0, RestoreGoes
    <3> QED
      BY <3>1 DEF Goes
  <2>2. NoLoad.seen = 0
    BY DEF NoLoad
  <2> QED
    BY <1>1, <2>1, <2>2
<1>4. CASE ~(tab = t /\ clean[t])
  <2>1. ~clean[t]
    BY <1>0, <1>4 DEF Here
  <2>2. ~lost'
    BY <1>0, <1>2, <2>1 DEF Restore
  <2> QED
    BY <1>1, <1>3, <1>4, <2>2, GoingPlaces
<1>5. CASE tab = t /\ clean[t]
  <2>1. ASSUME load[l].owed, s - head[t] <= PageSize
        PROVE  load[l].target # 0 /\ \E i \in 1..s : /\ Gives(t, hide, i, load[l].target)
                                                     /\ s - i < Span(load[l].budget)
    <3>1. load[l].target # 0 /\ Owes(l) /\ head[t] <= s
      BY <1>5, <2>1
    <3>2. PICK i \in 1..head[t] :
            /\ Gives(t, hide, i, load[l].target)
            /\ head[t] + (IF Fetching(l) THEN PageSize ELSE 0) - i < Span(load[l].budget)
      BY <1>5, <3>1 DEF Owes
    <3>3. Fetching(l) \/ s = head[t]
      BY <1>0 DEF Fetching, LoadType
    <3>4. i \in 1..s /\ s - i < Span(load[l].budget)
      <4>1. i \in Nat /\ PageSize \in Nat /\ i >= 1 /\ i <= head[t] /\ head[t] <= s
        BY <1>1, <3>1
      <4>2. CASE Fetching(l)
        <5>1. head[t] + PageSize - i < Span(load[l].budget)
          BY <3>2, <4>2
        <5>2. s - head[t] <= PageSize
          BY <2>1
        <5>3. s - i < Span(load[l].budget)
          BY <1>1, <4>1, <5>1, <5>2, NewOnesPush
        <5> QED
          BY <1>1, <4>1, <5>3
      <4>3. CASE ~Fetching(l)
        <5>1. head[t] + 0 - i < Span(load[l].budget) /\ s = head[t]
          BY <3>2, <3>3, <4>3
        <5> QED
          BY <1>1, <4>1, <5>1
      <4> QED
        BY <4>2, <4>3
    <3> QED
      BY <3>1, <3>2, <3>4
  <2>2. /\ ~lost'
        /\ load'[l].phase # "off" =>
             /\ load'[l].phase = "restore" /\ load'[l].tab = t /\ ~load'[l].more
             /\ load'[l].from = cursor'[t] /\ load'[l].from # 0
             /\ load'[l].mark = pages'[t] /\ load'[l].seen = s
             /\ load'[l].target = load[l].target /\ load'[l].budget = load[l].budget
             /\ load'[l].owed => load[l].owed /\ s - head[t] <= PageSize
    <3>1. load[l].owed /\ s - head[t] <= PageSize =>
            load[l].target # 0 /\ \E i \in 1..s : /\ Gives(t, hide, i, load[l].target)
                                                  /\ s - i < Span(load[l].budget)
      BY <2>1
    <3>2. Given(t, hide, list'[cur'], cursor'[t], s)
      BY <1>5
    <3>3. cursor'[t] # 0 => cursor'[t] + Span(pages'[t]) = s + 1
      BY <1>5
    <3>4. ~lost
      BY <1>0
    <3>5. /\ r = [load[l] EXCEPT !.seen = s] /\ Restore(l, r, may) /\ (list'[cur'] # <<>> => may)
          /\ cursor' \in [Tabs -> Items] /\ pages' \in [Tabs -> Nat]
      OBVIOUS
    <3> QED
      BY <3>1, <3>2, <3>3, <3>4, <3>5, PlaceIsFound, SMTT(30)
  <2>3. ASSUME load'[l].phase # "off" PROVE Search(l)'
    <3>1. ~Fetching(l)'
      BY <2>2, <2>3 DEF Fetching
    <3>2. Gone(l)'
      <4>1. /\ tab' = t /\ hide' = hide /\ head'[t] = s /\ load'[l].from = cursor'[t]
            /\ load'[l].from # 0 /\ load'[l].seen = s /\ load'[l].mark = pages'[t]
        BY <1>0, <1>5, <2>2, <2>3
      <4>2. /\ cursor'[t] # 0 /\ cursor'[t] + Span(pages'[t]) = s + 1
            /\ Given(t, hide, list'[cur'], cursor'[t], s)
        BY <1>5, <4>1
      <4>3. s <= s
        BY <1>1
      <4> QED
        BY <4>1, <4>2, <4>3 DEF Gone
    <3>3. ASSUME load'[l].owed PROVE load'[l].target # 0 /\ Owes(l)'
      <4>1. PICK i \in 1..s : /\ Gives(t, hide, i, load[l].target)
                              /\ s - i < Span(load[l].budget)
        BY <2>1, <2>2, <2>3, <3>3
      <4>2. s + 0 - i = s - i
        BY <1>1
      <4> QED
        BY <1>0, <1>5, <2>1, <2>2, <2>3, <3>1, <3>3, <4>1, <4>2 DEF Owes
    <3> QED
      BY <3>1, <3>2, <3>3 DEF Search
  <2> QED
    BY <1>1, <1>3, <1>5, <2>2, <2>3, GoingPlaces
<1> QED
  BY <1>4, <1>5

\* A page of the timeline is short of what the load has met, or deep enough.
LEMMA TimelinePlaces ==
    ASSUME Types, Here, Alone, PlaceInv, NEW l \in Loads, ArriveTimeline(l)
    PROVE  PlaceInv'
<1> DEFINE rows == Rows("timeline", list[cur], load[l].from)
           new  == Beyond(list[cur], rows)
           r == IF load[l].depth = 1 THEN [load[l] EXCEPT !.seen = top] ELSE load[l]
           c == CursorAfter(load[l].from)
           topUp == hide /\ Len(new) < Enough /\ c # 0 /\ r.depth < 3
           q == [r EXCEPT !.from = c, !.depth = @ + 1, !.stage = IF r.more THEN <<>> ELSE @ \o new]
           t == "timeline"
<1>1. AfterTimeline(l, rows, new)
  BY TimelineArrives
<1>2. Going(l)
  BY <1>1, ArrivesGoing
<1>3. /\ load[l] \in LoadType /\ load \in [Loads -> LoadType] /\ load[l].from \in Items /\ top \in Items
      /\ load[l].seen \in Items /\ load[l].depth \in 1..3 /\ t \in Tabs /\ cur \in Ids
      /\ list \in [Ids -> Line] /\ head \in [Tabs -> Items] /\ pages \in [Tabs -> Nat]
      /\ cursor \in [Tabs -> Items] /\ failed \in Flags /\ load[l].more \in BOOLEAN
  <2>1. load[l].phase # "off"
    BY <1>1 DEF AfterTimeline
  <2>2. load[l].depth # 0
    BY <2>1 DEF Types, Sane
  <2> QED
    BY <2>2, LoadFields DEF Types
<1>4. Met(l) \in Items /\ Met(l) <= top
  BY <1>3 DEF Met, PlaceInv, HeadLow, Items
<1>5. r = [load[l] EXCEPT !.seen = Met(l)]
  <2>1. [load[l] EXCEPT !.seen = load[l].seen] = load[l]
    BY <1>3 DEF LoadType
  <2> QED
    BY <2>1 DEF Met
<1>6. /\ r.more = load[l].more /\ r.tab = t /\ r.phase = "fetch" /\ r.depth = load[l].depth
      /\ r.from = load[l].from /\ r.seen = Met(l) /\ r.target = load[l].target
      /\ r.budget = load[l].budget /\ r.owed = load[l].owed /\ r \in LoadType
      /\ load[l].tab = t /\ load[l].phase = "fetch"
  <2>1. load[l].tab = t /\ load[l].phase = "fetch"
    BY <1>1 DEF AfterTimeline
  <2> QED
    BY <1>3, <1>4, <1>5, <2>1 DEF LoadType
<1>7. /\ pages' = [pages EXCEPT ![t] = @ + 1]
      /\ UNCHANGED <<tab, cur, hide, top, clean, halfway>>
      /\ cursor' = [cursor EXCEPT ![t] = c] /\ list' = [list EXCEPT ![cur] = rows]
      /\ IF topUp THEN load' = [load EXCEPT ![l] = q] /\ UNCHANGED <<loaded, head, failed, lost>>
         ELSE Loaded(l, r)
  BY <1>6 DEF ArriveTimeline, Counted
<1> HIDE DEF r, new
<1>8. /\ pages' \in [Tabs -> Nat] /\ cursor' \in [Tabs -> Items]
      /\ pages'[t] = pages[t] + 1 /\ cursor'[t] = c /\ list'[cur'] = rows
      /\ Span(pages[t]) <= Span(pages'[t]) /\ Span(pages'[t]) = Span(pages[t] + 1)
  <2>1. c \in Items
    BY <1>3, PageIsSeq
  <2>2. pages[t] \in Nat /\ pages[t] <= pages[t] + 1 /\ pages[t] + 1 \in Nat
    BY <1>3
  <2>3. Span(pages[t]) <= Span(pages[t] + 1)
    BY <2>2, SpanFacts
  <2>4. /\ pages' \in [Tabs -> Nat] /\ cursor' \in [Tabs -> Items]
        /\ pages'[t] = pages[t] + 1 /\ cursor'[t] = c /\ list'[cur'] = rows
    BY <1>3, <1>7, <2>1, <2>2
  <2> QED
    BY <2>3, <2>4
<1>9. topUp => /\ load'[l] = q /\ q.from = c /\ q.seen = Met(l) /\ q.more = load[l].more /\ q.depth = load[l].depth + 1
               /\ q.phase = "fetch" /\ q.target = load[l].target /\ q.budget = load[l].budget
               /\ q.owed = load[l].owed /\ c # 0
  <2>1. /\ q.from = c /\ q.seen = r.seen /\ q.more = r.more /\ q.depth = r.depth + 1
        /\ q.phase = r.phase /\ q.target = r.target /\ q.budget = r.budget /\ q.owed = r.owed
    BY <1>6 DEF LoadType
  <2> HIDE DEF q
  <2> QED
    BY <1>3, <1>6, <1>7, <2>1
<1> HIDE DEF q, rows
<1>10. \A u \in Tabs : u # t => /\ head'[u] = head[u] /\ cursor'[u] = cursor[u] /\ pages'[u] = pages[u]
                                /\ failed'[u] = failed[u] /\ halfway'[u] = halfway[u]
  BY <1>1, <1>3, <1>7 DEF AfterTimeline, Flags
<1>11. head'[t] <= top /\ load'[l].seen <= top
  <2>1. head'[t] <= top
    BY <1>1, <1>3, <1>4 DEF AfterTimeline, PlaceInv, HeadLow
  <2>2. load'[l].seen <= top
    <3>1. CASE topUp
      BY <1>4, <1>9, <3>1
    <3>2. CASE ~topUp
      <4>1. Goes(l, Met(l))
        BY <1>3, <1>4, <1>5, <1>7, <1>8, <3>2, LoadedGoes
      <4>2. NoLoad.seen = 0 /\ 0 <= top
        BY <1>3 DEF NoLoad, Items
      <4> QED
        BY <1>4, <4>1, <4>2 DEF Goes
    <3> QED
      BY <3>1, <3>2
  <2> QED
    BY <2>1, <2>2
<1>12. CASE load[l].more
  <2>1. head' = head /\ failed' = failed
    BY <1>1, <1>12 DEF AfterTimeline
  <2>2. lost' = lost
    BY <1>6, <1>7, <1>12 DEF Loaded
  <2>3. ASSUME tab = t, Clear(t)
        PROVE  /\ head'[t] - Bottom(c) < Span(pages'[t])
               /\ load'[l].phase # "off" => Further(l)'
    <3>1. load[l].from # 0 /\ head[t] - load[l].from < Span(pages[t])
      BY <1>6, <1>12, <2>3 DEF PlaceInv, MoresDeep, Further
    <3>2. head[t] - Bottom(c) < Span(pages'[t])
      BY <1>3, <1>8, <3>1, PageIsDeep
    <3>3. ASSUME load'[l].phase # "off" PROVE load'[l].from = c /\ c # 0
      BY <1>1, <1>12, <3>3, NoLoadType DEF AfterTimeline, TopsUp
    <3> QED
      BY <1>7, <2>1, <2>3, <3>2, <3>3 DEF Further, Bottom
  <2>4. Clear(t)' => Clear(t)
    BY <1>7, <2>1 DEF Clear
  <2> QED
    BY <1>2, <1>3, <1>6, <1>7, <1>8, <1>10, <1>11, <1>12, <2>1, <2>2, <2>3, <2>4, GoingPlaces DEF PlaceInv
<1>13. CASE ~load[l].more
  <2>1. Fetching(l) /\ Fresh(l)
    BY <1>6, <1>13 DEF Fetching, Fresh
  <2>2. ASSUME tab = t, clean[t]
        PROVE  /\ Given(t, hide, rows, c, Met(l)) /\ Met(l) - Bottom(c) < Span(pages'[t])
               /\ c # 0 => c + Span(pages'[t]) = Met(l) + 1
               /\ head[t] <= Met(l)
               /\ load[l].owed => load[l].target # 0 /\ Owes(l)
    <3>1. Search(l)
      BY <2>1, <2>2 DEF PlaceInv, Searches
    <3>2. \/ /\ load[l].from = 0 /\ pages[t] = 0 /\ list[cur] = <<>> /\ Met(l) = top
          \/ /\ load[l].from # 0 /\ load[l].from + Span(pages[t]) = Met(l) + 1
             /\ Given(t, hide, list[cur], load[l].from, Met(l)) /\ head[t] <= Met(l)
      BY <2>1, <2>2, <3>1 DEF Search, Begun, Gone, Met
    <3>3. head[t] <= top /\ pages[t] \in Nat /\ list[cur] \in Line
      BY <1>3 DEF PlaceInv, HeadLow
    <3>4. Given(t, hide, rows, c, Met(l))
      BY <1>3, <1>4, <3>2, <3>3, PageGives DEF rows
    <3>5. (load[l].from # 0 /\ Met(l) - load[l].from < Span(pages[t])) \/ (load[l].from = 0 /\ Met(l) = top)
      <4>1. Span(pages[t]) \in Nat
        BY <3>3, SpanFacts
      <4>2. load[l].from \in Nat /\ Met(l) \in Nat
        BY <1>3, <1>4 DEF Items
      <4> QED
        BY <3>2, <4>1, <4>2
    <3>6. Met(l) - Bottom(c) < Span(pages[t] + 1)
      BY <1>3, <1>4, <3>3, <3>5, PageIsDeep
    <3>7. c # 0 => c + Span(pages[t] + 1) = Met(l) + 1
      BY <1>3, <1>4, <3>2, <3>3, PageIsFull
    <3> QED
      BY <1>8, <3>1, <3>2, <3>3, <3>4, <3>6, <3>7 DEF Search
  <2>3. CASE topUp
    <3>1. ASSUME tab = t, clean[t] PROVE Search(l)'
      <4>1. /\ Fetching(l)' /\ load'[l].depth # 1 /\ load'[l].phase = "fetch" /\ load'[l].from = c /\ c # 0
            /\ load'[l].seen = Met(l) /\ load'[l].target = load[l].target
            /\ load'[l].budget = load[l].budget /\ load'[l].owed = load[l].owed /\ head' = head
        BY <1>3, <1>7, <1>9, <1>13, <2>3 DEF Fetching
      <4>2. Gone(l)'
        BY <1>7, <1>8, <2>2, <3>1, <4>1 DEF Gone
      <4>3. load[l].owed => Owes(l)'
        BY <1>7, <2>1, <2>2, <3>1, <4>1 DEF Owes
      <4>4. tab' = "timeline"
        BY <1>7, <3>1
      <4> QED
        BY <2>2, <3>1, <4>1, <4>2, <4>3, <4>4 DEF Search
    <3>2. ~lost' /\ Fetching(l)'
      BY <1>7, <1>9, <1>13, <2>3 DEF PlaceInv, Fetching
    <3> QED
      BY <1>2, <1>3, <1>6, <1>7, <1>8, <1>10, <1>11, <1>13, <3>1, <3>2, GoingPlaces
  <2>4. CASE ~topUp
    <3>1. Loaded(l, r) /\ Restore(l, r, list'[cur'] # <<>>)
      BY <1>6, <1>7, <1>13, <2>4 DEF Loaded
    <3>2. head'[t] = Met(l)
      BY <1>3, <1>6, <1>13, <3>1 DEF Loaded
    <3> DEFINE may == list'[cur'] # <<>>
    <3>3. Restore(l, r, may) /\ (list'[cur'] # <<>> => may)
      BY <3>1
    <3> HIDE DEF may
    <3>4. load[l].phase = "restore" => Met(l) = head[t]
      BY <1>6
    <3>5. tab = t /\ clean[t] =>
            /\ Given(t, hide, list'[cur'], cursor'[t], Met(l)) /\ Met(l) - Bottom(cursor'[t]) < Span(pages'[t])
            /\ cursor'[t] # 0 => cursor'[t] + Span(pages'[t]) = Met(l) + 1
            /\ head[t] <= Met(l)
            /\ load[l].owed => load[l].target # 0 /\ Owes(l)
      BY <1>8, <2>2
    <3>6. /\ t \in Tabs /\ t = load[l].tab /\ t # "saved" /\ hide' = hide /\ top' = top
          /\ Met(l) \in Items /\ Met(l) <= top
      BY <1>3, <1>4, <1>6, <1>7
    <3>7. pages' \in [Tabs -> Nat] /\ cursor' \in [Tabs -> Items]
      BY <1>8
    <3> HIDE DEF c, t, topUp
    <3> QED
      BY <1>2, <1>5, <1>10, <1>13, <3>2, <3>3, <3>4, <3>5, <3>6, <3>7, SearchGoesOn
  <2> QED
    BY <2>3, <2>4
<1> QED
  BY <1>3, <1>12, <1>13

\* A page of the notifications, the first of a load: the feed is empty or it is a full one.
LEMMA NotificationsPlaces ==
    ASSUME Types, Here, Alone, PlaceInv, NEW l \in Loads, ArriveNotifications(l)
    PROVE  PlaceInv'
<1> DEFINE t == "notifications"
           rows == Rows(t, IF load[l].more THEN list[cur] ELSE <<>>, load[l].from)
           new == Beyond(list[cur], rows)
           r == [load[l] EXCEPT !.seen = top]
           c == CursorAfter(load[l].from)
<1>1. AfterNotifications(l, rows, new)
  BY NotificationsArrive
<1>2. Going(l)
  BY <1>1, ArrivesGoing
<1>3. /\ load[l] \in LoadType /\ load \in [Loads -> LoadType] /\ load[l].from \in Items /\ top \in Items
      /\ load[l].from # 1 /\ cur \in Ids /\ NewList \in Ids
      /\ list \in [Ids -> Line] /\ head \in [Tabs -> Items] /\ pages \in [Tabs -> Nat]
      /\ cursor \in [Tabs -> Items] /\ failed \in Flags /\ load[l].more \in BOOLEAN
  BY LoadFields, NewListIsNew DEF Types, Sane
<1>4. /\ load[l].tab = t /\ load[l].phase = "fetch" /\ t \in Tabs /\ t # "saved"
      /\ UNCHANGED <<tab, hide, top, clean, halfway>>
      /\ cursor' \in [Tabs -> Items] /\ pages' \in [Tabs -> Nat]
      /\ head' = (IF load[l].more THEN head ELSE [head EXCEPT ![t] = top])
      /\ failed' = (IF load[l].more THEN failed ELSE [failed EXCEPT ![t] = FALSE])
      /\ load[l].more => load'[l] = NoLoad
  BY <1>1, <1>3, LoadFields DEF AfterNotifications
<1>5. r.more = load[l].more /\ r.tab = t /\ r.from = load[l].from
  BY <1>3, <1>4 DEF LoadType
<1>6. pages' = [pages EXCEPT ![t] = @ + 1] /\ Loaded(l, r)
  BY DEF ArriveNotifications, Counted
<1>7. \/ Page(load[l].from) = <<>> /\ UNCHANGED <<cursor, cur, list>>
      \/ /\ Page(load[l].from) # <<>>
         /\ cursor' = [cursor EXCEPT ![t] = c]
         /\ ~load[l].more => cur' = NewList /\ list' = [list EXCEPT ![NewList] = rows]
  BY <1>1 DEF AfterNotifications
<1> HIDE DEF r, new
<1>8. pages'[t] = pages[t] + 1 /\ Span(pages[t]) <= Span(pages[t] + 1) /\ pages[t] \in Nat
  <2>1. pages'[t] = pages[t] + 1 /\ pages[t] \in Nat /\ pages[t] <= pages[t] + 1 /\ pages[t] + 1 \in Nat
    BY <1>3, <1>4, <1>6
  <2> QED
    BY <2>1, SpanFacts
<1>9. \A u \in Tabs : u # t => /\ head'[u] = head[u] /\ cursor'[u] = cursor[u] /\ pages'[u] = pages[u]
                               /\ failed'[u] = failed[u] /\ halfway'[u] = halfway[u]
  BY <1>3, <1>4, <1>6, <1>7 DEF Flags
<1>10. top \in Nat /\ top <= top
  BY <1>3 DEF Items
<1>11. CASE load[l].more
  <2>1. head' = head /\ failed' = failed /\ load'[l] = NoLoad /\ ~lost'
    BY <1>4, <1>5, <1>6, <1>11 DEF Loaded, PlaceInv
  <2>2. head'[t] <= top /\ load'[l].seen <= top
    BY <1>4, <1>10, <2>1 DEF PlaceInv, HeadLow, NoLoad
  <2>3. ASSUME tab = t, Clear(t) PROVE head[t] - Bottom(cursor'[t]) < Span(pages'[t])
    <3>1. CASE cursor' = cursor
      <4>1. Unfetched(t)
        BY <1>4, <1>11, <2>3 DEF Unfetched, Clear, Alone, Fetching, Fresh
      <4>2. head[t] - Bottom(cursor[t]) < Span(pages[t])
        BY <1>4, <2>3, <4>1 DEF PlaceInv, Deep
      <4>3. head[t] \in Nat /\ Bottom(cursor[t]) \in Nat /\ Span(pages[t]) \in Nat /\ Span(pages'[t]) \in Nat
        <5>1. head[t] \in Items /\ cursor[t] \in Items /\ pages[t] \in Nat /\ pages'[t] \in Nat
          BY <1>3, <1>4
        <5> QED
          BY <5>1, SpanIsNat DEF Items, Bottom
      <4> QED
        BY <1>8, <3>1, <4>2, <4>3
    <3>2. CASE cursor' # cursor
      <4>1. load[l].from # 0 /\ head[t] - load[l].from < Span(pages[t])
        BY <1>4, <1>11, <2>3 DEF PlaceInv, MoresDeep, Further
      <4>2. head[t] - Bottom(c) < Span(pages[t] + 1)
        BY <1>3, <1>4, <1>8, <4>1, PageIsDeep
      <4>3. cursor'[t] = c
        BY <1>3, <1>4, <1>7, <3>2
      <4> QED
        BY <1>8, <4>2, <4>3
    <3> QED
      BY <3>1, <3>2
  <2>4. Clear(t)' => Clear(t)
    BY <1>4, <2>1 DEF Clear
  <2>5. load'[l].phase = "off"
    BY <2>1, NoLoadType
  <2>6. Clear(t)' /\ tab = t => head'[t] - Bottom(cursor'[t]) < Span(pages'[t])
    BY <2>1, <2>3, <2>4
  <2> HIDE DEF t, c, rows
  <2> QED
    BY <1>2, <1>4, <1>8, <1>9, <1>11, <2>1, <2>2, <2>4, <2>5, <2>6, GoingPlaces
<1>12. CASE ~load[l].more
  <2>1. Fetching(l) /\ Fresh(l)
    BY <1>4, <1>12 DEF Fetching, Fresh
  <2>2. ASSUME tab = t, clean[t]
        PROVE  /\ Given(t, hide, list'[cur'], cursor'[t], top) /\ top - Bottom(cursor'[t]) < Span(pages'[t])
               /\ cursor'[t] # 0 => cursor'[t] + Span(pages'[t]) = top + 1
               /\ head[t] <= top
               /\ load[l].owed => load[l].target # 0 /\ Owes(l)
    <3>1. Search(l)
      BY <2>1, <2>2 DEF PlaceInv, Searches
    <3>2. load[l].from = 0 /\ cursor[t] = 0 /\ pages[t] = 0
      BY <2>1, <2>2, <3>1 DEF Search, Begun
    <3>3. head[t] <= top
      BY <1>4 DEF PlaceInv, HeadLow
    <3>4. top - Bottom(c) < Span(pages[t] + 1)
      BY <1>3, <1>8, <3>2, PageIsDeep
    <3>5. c # 0 => c + Span(pages[t] + 1) = top + 1
      BY <1>3, <1>8, <3>2, PageIsFull
    <3>6. /\ Given(t, hide, list'[cur'], cursor'[t], top) /\ top - Bottom(cursor'[t]) < Span(pages'[t])
          /\ cursor'[t] # 0 => cursor'[t] + Span(pages'[t]) = top + 1
      <4>1. CASE Page(load[l].from) = <<>>
        <5>1. top = 0 /\ cursor'[t] = 0
          BY <1>3, <1>7, <3>2, <4>1, PageIsEmpty
        <5>2. Given(t, hide, list'[cur'], 0, 0)
          <6>1. \A i \in 0..0 : ~(i > 0)
            OBVIOUS
          <6> QED
            BY <6>1 DEF Given
        <5>3. Span(pages'[t]) \in Nat
          BY <1>4, SpanIsNat
        <5> QED
          BY <5>1, <5>2, <5>3 DEF Bottom
      <4>2. CASE Page(load[l].from) # <<>>
        <5>1. cursor'[t] = c /\ list'[cur'] = rows
          BY <1>3, <1>4, <1>7, <1>12, <4>2
        <5>2. rows = Rows(t, <<>>, load[l].from) /\ <<>> \in Line
          BY <1>12 DEF Line
        <5>3. Given(t, hide, Rows(t, <<>>, load[l].from), c, top)
          BY <1>3, <1>4, <3>2, <5>2, PageGives
        <5> QED
          BY <1>8, <3>4, <3>5, <5>1, <5>2, <5>3
      <4> QED
        BY <4>1, <4>2
    <3> QED
      BY <3>1, <3>3, <3>6 DEF Search
  <2>3. Restore(l, r, list'[cur'] # <<>>)
    BY <1>5, <1>6, <1>12, <1>4 DEF Loaded
  <2> DEFINE may == list'[cur'] # <<>>
  <2>4. Restore(l, r, may) /\ (list'[cur'] # <<>> => may)
    BY <2>3
  <2> HIDE DEF may
  <2>5. head'[t] = top /\ (load[l].phase = "restore" => top = head[t])
    BY <1>3, <1>4, <1>12
  <2>6. r = [load[l] EXCEPT !.seen = top]
    BY DEF r
  <2>7. /\ t \in Tabs /\ t = load[l].tab /\ t # "saved" /\ hide' = hide /\ top' = top
        /\ top \in Items /\ top <= top
    BY <1>3, <1>4, <1>10
  <2>8. pages' \in [Tabs -> Nat] /\ cursor' \in [Tabs -> Items]
    BY <1>4
  <2>9. tab = t /\ clean[t] =>
          /\ Given(t, hide, list'[cur'], cursor'[t], top) /\ top - Bottom(cursor'[t]) < Span(pages'[t])
          /\ cursor'[t] # 0 => cursor'[t] + Span(pages'[t]) = top + 1
          /\ head[t] <= top
          /\ load[l].owed => load[l].target # 0 /\ Owes(l)
    BY <2>2
  <2> HIDE DEF t, c, rows
  <2> QED
    BY <1>2, <1>9, <1>12, <2>4, <2>5, <2>6, <2>7, <2>8, <2>9, SearchGoesOn
<1> QED
  BY <1>3, <1>11, <1>12

\* The saved posts have no place to keep.
LEMMA SavedPlaces ==
    ASSUME Types, Here, Alone, PlaceInv, NEW l \in Loads, ArriveSaved(l)
    PROVE  PlaceInv'
<1> DEFINE t == "saved"
           rows == Rows(t, list[cur], load[l].from)
           new == Beyond(list[cur], rows)
           r == [load[l] EXCEPT !.seen = top]
<1>1. AfterSaved(l, rows, new)
  BY SavedArrive
<1>2. Going(l)
  BY <1>1, ArrivesGoing
<1>3. /\ load[l] \in LoadType /\ top \in Items /\ head \in [Tabs -> Items] /\ pages \in [Tabs -> Nat]
      /\ cursor \in [Tabs -> Items] /\ failed \in Flags /\ load[l].tab \in Tabs
  BY LoadFields DEF Types
<1>4. /\ load[l].tab = t /\ t \in Tabs /\ UNCHANGED <<tab, hide, top, pages, clean, halfway>>
      /\ head' = (IF load[l].more THEN head ELSE [head EXCEPT ![t] = top])
      /\ failed' = (IF load[l].more THEN failed ELSE [failed EXCEPT ![t] = FALSE])
      /\ cursor' = cursor \/ cursor' = [cursor EXCEPT ![t] = CursorAfter(load[l].from)]
      /\ load'[l] = NoLoad
  BY <1>1, <1>3 DEF AfterSaved
<1>5. ~lost'
  <2>1. r.tab = t /\ Loaded(l, r)
    BY <1>3, <1>4 DEF ArriveSaved, LoadType
  <2> QED
    BY <2>1 DEF Loaded, PlaceInv
<1>6. \A u \in Tabs : u # t => /\ head'[u] = head[u] /\ cursor'[u] = cursor[u] /\ pages'[u] = pages[u]
                               /\ failed'[u] = failed[u] /\ halfway'[u] = halfway[u]
  BY <1>3, <1>4 DEF Flags
<1>7. head'[t] <= top /\ load'[l].seen <= top
  BY <1>3, <1>4 DEF PlaceInv, HeadLow, NoLoad, Items
<1>8. t \in Tabs /\ t = load[l].tab /\ ~(t # "saved") /\ hide' = hide /\ top' = top /\ pages' \in [Tabs -> Nat]
  BY <1>3, <1>4
<1> HIDE DEF t, rows
<1> QED
  BY <1>2, <1>5, <1>6, <1>7, <1>8, GoingPlaces

\* One more page for the place.
LEMMA RestorePlaces ==
    ASSUME Types, Here, Alone, PlaceInv, NEW l \in Loads, ArriveRestore(l)
    PROVE  PlaceInv'
<1> DEFINE t == load[l].tab
           rows == Rows(t, list[cur], load[l].from)
           new == Beyond(list[cur], rows)
           c == CursorAfter(load[l].from)
           s == load[l].seen
           may == pages'[t] # load[l].mark
<1>1. AfterRestore(l, rows, new)
  BY RestoreArrives
<1>2. Going(l)
  BY <1>1, ArrivesGoing
<1>3. /\ load[l] \in LoadType /\ load[l].from \in Items /\ top \in Items /\ s \in Items /\ t \in Tabs
      /\ cur \in Ids /\ list \in [Ids -> Line] /\ head \in [Tabs -> Items] /\ pages \in [Tabs -> Nat]
      /\ cursor \in [Tabs -> Items] /\ s <= top
  BY LoadFields DEF Types, PlaceInv, HeadLow
<1>4. /\ load[l].phase = "restore" /\ ~load[l].more /\ t # "saved"
      /\ UNCHANGED <<tab, cur, hide, top, clean, halfway, failed, head>>
      /\ cursor' = [cursor EXCEPT ![t] = c] /\ list' = [list EXCEPT ![cur] = rows]
      /\ cursor' \in [Tabs -> Items] /\ pages' \in [Tabs -> Nat]
  BY <1>1 DEF AfterRestore, Types, Sane
<1>5. pages' = [pages EXCEPT ![t] = @ + 1] /\ Restore(l, load[l], may)
  BY DEF ArriveRestore, Counted
<1>6. load[l] = [load[l] EXCEPT !.seen = s]
  BY <1>3 DEF LoadType
<1>7. /\ pages'[t] = pages[t] + 1 /\ pages[t] \in Nat /\ cursor'[t] = c /\ list'[cur'] = rows
      /\ list[cur] \in Line /\ head[t] \in Items
  BY <1>3, <1>4, <1>5
<1>8. \A u \in Tabs : u # t => /\ head'[u] = head[u] /\ cursor'[u] = cursor[u] /\ pages'[u] = pages[u]
                               /\ failed'[u] = failed[u] /\ halfway'[u] = halfway[u]
  BY <1>3, <1>4, <1>5
<1>9. CASE tab = t /\ clean[t]
  <2>1. Fresh(l) /\ ~Fetching(l)
    BY <1>4 DEF Fresh, Fetching
  <2>2. Search(l)
    BY <1>4, <1>9, <2>1 DEF PlaceInv, Searches
  <2>3. /\ load[l].from # 0 /\ load[l].from + Span(pages[t]) = s + 1
        /\ Given(t, hide, list[cur], load[l].from, s) /\ head[t] <= s
        /\ load[l].mark = pages[t] /\ s = head[t]
        /\ load[l].owed => load[l].target # 0 /\ Owes(l)
    BY <1>4, <1>9, <2>1, <2>2 DEF Search, Gone
  <2>4. Given(t, hide, rows, c, s)
    BY <1>3, <1>4, <1>7, <2>3, PageGives
  <2>5. s - load[l].from < Span(pages[t])
    <3>1. Span(pages[t]) \in Nat /\ s \in Nat /\ load[l].from \in Nat
      BY <1>3, <1>7, SpanIsNat DEF Items
    <3> QED
      BY <2>3, <3>1
  <2>6. s - Bottom(c) < Span(pages[t] + 1)
    BY <1>3, <1>7, <2>3, <2>5, PageIsDeep
  <2>7. c # 0 => c + Span(pages[t] + 1) = s + 1
    BY <1>3, <1>7, <2>3, PageIsFull
  <2>8. may
    BY <1>7, <2>3
  <2>9. /\ Given(t, hide, list'[cur'], cursor'[t], s) /\ s - Bottom(cursor'[t]) < Span(pages'[t])
        /\ cursor'[t] # 0 => cursor'[t] + Span(pages'[t]) = s + 1
        /\ head[t] <= s
        /\ load[l].owed => load[l].target # 0 /\ Owes(l)
    BY <1>7, <2>3, <2>4, <2>6, <2>7
  <2>10. head'[t] = s /\ s = head[t]
    BY <1>4, <2>3
  <2>11. /\ t \in Tabs /\ t = load[l].tab /\ t # "saved" /\ hide' = hide /\ top' = top
         /\ s \in Items /\ s <= top /\ ~load[l].more
    BY <1>3, <1>4
  <2>12. pages' \in [Tabs -> Nat] /\ cursor' \in [Tabs -> Items]
    BY <1>4
  <2> DEFINE r == load[l]
  <2>13. r = [load[l] EXCEPT !.seen = s] /\ Restore(l, r, may) /\ (list'[cur'] # <<>> => may)
    BY <1>5, <1>6, <2>8
  <2>14. tab = t /\ clean[t] =>
           /\ Given(t, hide, list'[cur'], cursor'[t], s) /\ s - Bottom(cursor'[t]) < Span(pages'[t])
           /\ cursor'[t] # 0 => cursor'[t] + Span(pages'[t]) = s + 1
           /\ head[t] <= s
           /\ load[l].owed => load[l].target # 0 /\ Owes(l)
    BY <2>9
  <2> HIDE DEF r, may, t, c, rows, s
  <2> QED
    BY <1>2, <1>8, <2>10, <2>11, <2>12, <2>13, <2>14, SearchGoesOn
<1>10. CASE ~(tab = t /\ clean[t])
  <2>1. ~clean[t]
    BY <1>3, <1>4, <1>10 DEF Here
  <2>2. ~lost'
    BY <1>5, <2>1 DEF Restore, PlaceInv
  <2>3. head'[t] <= top
    BY <1>3, <1>4 DEF PlaceInv, HeadLow
  <2>4. load'[l].seen <= top
    <3>1. Goes(l, s)
      BY <1>1 DEF AfterRestore
    <3>2. NoLoad.seen = 0 /\ 0 <= top
      BY <1>3 DEF NoLoad, Items
    <3> QED
      BY <1>3, <3>1, <3>2 DEF Goes
  <2>5. t = load[l].tab
    OBVIOUS
  <2> HIDE DEF may, t, c, rows, s
  <2> QED
    BY <1>2, <1>3, <1>4, <1>8, <1>10, <2>2, <2>3, <2>4, <2>5, GoingPlaces
<1> QED
  BY <1>9, <1>10

\* A load that fails before its end leaves the tab marked, or as deep as it was.
LEMMA FailPlaces ==
    ASSUME Types, Here, Alone, PlaceInv, NEW l \in Loads, Fail(l)
    PROVE  PlaceInv'
<1> PICK t \in Tabs : t = load[l].tab
  BY LoadFields DEF Types
<1>0. /\ halfway \in Flags /\ clean \in Flags /\ failed \in Flags /\ load[l].more \in BOOLEAN
      /\ load[l].phase \in {"off", "fetch", "restore"} /\ t \in Tabs
      /\ cursor \in [Tabs -> Items] /\ pages \in [Tabs -> Nat] /\ head \in [Tabs -> Items] /\ top \in Items
  BY LoadFields DEF Types
<1>1. /\ Going(l) /\ load'[l] = NoLoad /\ load[l].phase # "off"
      /\ UNCHANGED <<tab, pages, hide, top, head, lost>>
      /\ FailTimeline(l) \/ FailNotifications(l) \/ FailSaved(l)
  BY FailGoing DEF Fail, Going
<1>2. load'[l].phase = "off" /\ NoLoad.seen = 0
  BY <1>1, NoLoadType DEF NoLoad
<1>3. \A u \in Tabs : u # t => cursor'[u] = cursor[u] /\ failed'[u] = failed[u] /\ halfway'[u] = halfway[u]
  BY <1>0, <1>1 DEF FailTimeline, FailNotifications, FailSaved, Flags
<1>4. head'[t] <= top /\ load'[l].seen <= top
  <2>1. head[t] <= top
    BY <1>0 DEF PlaceInv, HeadLow
  <2>2. 0 <= top
    BY <1>0 DEF Items
  <2> QED
    BY <1>1, <1>2, <2>1, <2>2
<1>5. ASSUME clean'[t], t # "saved", Clear(t)'
      PROVE  cursor'[t] = cursor[t] /\ Clear(t) /\ (load[l].more \/ load[l].phase = "restore")
  <2>1. clean[t]
    BY <1>1, <1>0, <1>5 DEF Going
  <2>2. CASE FailTimeline(l)
    <3>1. t = "timeline" /\ failed'[t] = (failed[t] \/ ~load[l].more)
          /\ halfway'[t] = (halfway[t] \/ load[l].phase = "restore")
          /\ (load[l].more => cursor' = cursor)
      BY <1>0, <2>2 DEF FailTimeline, Flags
    <3> QED
      BY <1>5, <2>1, <3>1 DEF Clear
  <2>3. CASE FailNotifications(l)
    <3>1. t = "notifications" /\ failed'[t] = (failed[t] \/ (load[l].phase = "fetch" /\ ~load[l].more))
          /\ halfway' = halfway /\ cursor' = cursor
      BY <1>0, <2>3 DEF FailNotifications, Flags
    <3> QED
      BY <1>0, <1>1, <1>5, <2>1, <3>1 DEF Clear
  <2>4. ~FailSaved(l)
    BY <1>5 DEF FailSaved
  <2> QED
    BY <1>1, <2>2, <2>3, <2>4
<1>6. ASSUME tab = t, clean[t], clean'[t], t # "saved", Clear(t)'
      PROVE  head[t] - Bottom(cursor'[t]) < Span(pages[t])
  <2>1. Unfetched(t)
    BY <1>1, <1>5, <1>6 DEF Unfetched, Alone, Fetching, Fresh
  <2> QED
    BY <1>0, <1>5, <1>6, <2>1 DEF PlaceInv, Deep
<1>7. Span(pages[t]) <= Span(pages[t]) /\ pages' \in [Tabs -> Nat]
  <2>1. Span(pages[t]) \in Nat
    BY <1>0, SpanIsNat
  <2> QED
    BY <1>0, <1>1, <2>1
<1>8. tab = t /\ clean[t] /\ clean'[t] /\ t # "saved" =>
        /\ Clear(t)' => head'[t] - Bottom(cursor'[t]) < Span(pages'[t])
        /\ head'[t] = head[t] /\ Span(pages[t]) <= Span(pages'[t]) /\ (Clear(t)' => Clear(t))
  BY <1>1, <1>5, <1>6, <1>7
<1>9. \A u \in Tabs : u # t => /\ head'[u] = head[u] /\ cursor'[u] = cursor[u] /\ pages'[u] = pages[u]
                               /\ failed'[u] = failed[u] /\ halfway'[u] = halfway[u]
  BY <1>1, <1>3
<1>10. hide' = hide /\ top' = top /\ ~lost' /\ t = load[l].tab
  BY <1>1 DEF PlaceInv
<1>11. t \in Tabs /\ Going(l) /\ pages' \in [Tabs -> Nat]
  BY <1>0, <1>1, <1>7
<1> QED
  BY <1>2, <1>4, <1>8, <1>9, <1>10, <1>11, GoingPlaces

\* A load of the next page has the items above its cursor on the pages there are.
LEMMA MorePlaces ==
    ASSUME Types, PlaceInv, NEW l \in Loads, More(l)
    PROVE  PlaceInv'
<1>1. AfterMore(l)
  BY MoreDoes
<1>2. /\ UNCHANGED <<tab, list, cur, cursor, pages, hide, top, halfway, failed, head, lost>> /\ Others(l)
      /\ load[l].phase = "off" /\ load'[l].more /\ load'[l].from = cursor[tab] /\ cursor[tab] # 0
      /\ \A t \in Tabs : clean'[t] => clean[t]
      /\ clean'[tab] => ~Refreshing
      /\ tab \in Tabs /\ top \in Items
  BY <1>1 DEF AfterMore, More, lists, marks, Types
<1>3. load'[l].seen = 0
  BY DEF More, NoLoad, Types
<1>4. \A m \in Loads : m # l => load'[m] = load[m]
  BY <1>2 DEF Others
<1>5. \A m \in Loads : ~(m = l) \/ (~Fetching(m) /\ ~Fetching(m)' /\ ~Fresh(m)')
  BY <1>2 DEF Fetching, Fresh
<1>6. HeadLow'
  <2>1. 0 <= top
    BY <1>2 DEF Items
  <2> QED
    BY <1>2, <1>3, <1>4, <2>1 DEF PlaceInv, HeadLow
<1>7. \A t \in Tabs : Clear(t)' => Clear(t)
  BY <1>2 DEF Clear
<1>8. \A t \in Tabs : Unfetched(t)' => Unfetched(t)
  BY <1>2, <1>4, <1>5 DEF Unfetched, Fetching
<1>9. Deep'
  BY <1>2, <1>7, <1>8 DEF PlaceInv, Deep
<1>10. MoresDeep'
  <2> SUFFICES ASSUME NEW m \in Loads, Clear(tab)', load'[m].phase # "off", load'[m].more PROVE Further(m)'
    BY <1>2 DEF MoresDeep
  <2>1. Clear(tab) /\ ~Refreshing
    BY <1>2, <1>7 DEF Clear
  <2>2. CASE m = l
    <3>1. Unfetched(tab)
      BY <2>1 DEF Unfetched, Fetching, Refreshing
    <3>2. head[tab] - Bottom(cursor[tab]) < Span(pages[tab])
      BY <1>2, <2>1, <3>1 DEF PlaceInv, Deep
    <3> QED
      BY <1>2, <2>2, <3>2 DEF Further, Bottom
  <2>3. CASE m # l
    <3>1. Further(m)
      BY <1>4, <2>1, <2>3 DEF PlaceInv, MoresDeep
    <3> QED
      BY <1>2, <1>4, <2>3, <3>1 DEF Further
  <2> QED
    BY <2>2, <2>3
<1>11. Searches'
  <2> SUFFICES ASSUME NEW m \in Loads, clean'[tab], Fresh(m)' PROVE FALSE
    BY <1>2 DEF Searches
  <2>1. m # l /\ ~Refreshing
    BY <1>2, <1>5
  <2> QED
    BY <1>4, <2>1 DEF Fresh, Refreshing
<1> QED
  BY <1>2, <1>6, <1>9, <1>10, <1>11 DEF PlaceInv

\* A reload of the tab on the screen.
LEMMA AgainPlaces ==
    ASSUME Types, PlaceInv, NEW l \in Loads, Again(l)
    PROVE  PlaceInv'
<1>1. PICK u \in Focused : StartFresh(l, tab, IF tab = "saved" THEN 0 ELSE u, cur)
  BY DEF Again
<1> DEFINE w == IF tab = "saved" THEN 0 ELSE u
<1>2. w \in {0} \cup Uri /\ tab \in Tabs /\ cur \in Ids /\ clean \in Flags
  BY FocusedType DEF Types
<1> HIDE DEF w
<1>3. StartFresh(l, tab, w, cur)
  BY <1>1 DEF w
<1>4. /\ clean' = [clean EXCEPT ![tab] = ~Busy] /\ tab' = tab
      /\ UNCHANGED <<head, top, failed>>
  BY DEF Again
<1>5. lost' = lost
  BY DEF Again
<1>6. /\ clean'[tab] => ~Busy
      /\ \A x \in Tabs : x # tab /\ clean'[x] => clean[x] /\ (x # tab \/ ~Busy)
  BY <1>2, <1>4 DEF Flags
<1> QED
  BY <1>2, <1>3, <1>4, <1>5, <1>6, FreshPlaces

\* A step that moves nothing of this.
LEMMA StillPlaces ==
    ASSUME Types, PlaceInv, UNCHANGED <<tab, cur, list, load, head, failed, halfway, cursor, pages, lost>>,
           hide' = hide \/ tab # "timeline", top' \in {top, top + 1},
           \A x \in Tabs : clean'[x] => clean[x]
    PROVE  PlaceInv'
<1>1. HeadLow'
  <2>1. top \in Nat /\ (\A x \in Tabs : head[x] \in Nat) /\ \A l \in Loads : load[l].seen \in Nat
    <3>1. top \in Items /\ (\A x \in Tabs : head[x] \in Items) /\ \A l \in Loads : load[l].seen \in Items
      BY LoadFields DEF Types
    <3> QED
      BY <3>1 DEF Items
  <2>2. top <= top'
    BY <2>1
  <2> QED
    BY <2>1, <2>2 DEF PlaceInv, HeadLow
<1>2. tab \in Tabs
  BY DEF Types
<1>3. \A x \in Tabs : (Clear(x)' => Clear(x)) /\ (Unfetched(x)' <=> Unfetched(x))
  BY DEF Clear, Unfetched, Fetching
<1>4. Deep'
  BY <1>3 DEF PlaceInv, Deep
<1>5. MoresDeep'
  BY <1>2, <1>3 DEF PlaceInv, MoresDeep, Further
<1>6. \A i, u : Gives(tab, hide', i, u) <=> Gives(tab, hide, i, u)
  BY DEF Gives
<1>7. \A l \in Loads : Search(l) => Search(l)'
  <2> SUFFICES ASSUME NEW l \in Loads, Search(l) PROVE Search(l)'
    OBVIOUS
  <2>1. Fetching(l)' <=> Fetching(l)
    BY DEF Fetching
  <2>2. Begun(l) => Begun(l)'
    BY DEF Begun
  <2>3. Gone(l) => Gone(l)'
    BY <1>6 DEF Gone, Given
  <2>4. Owes(l) => Owes(l)'
    BY <1>6, <2>1 DEF Owes
  <2> QED
    BY <2>1, <2>2, <2>3, <2>4 DEF Search
<1>8. Searches'
  BY <1>2, <1>7 DEF PlaceInv, Searches, Fresh
<1> QED
  BY <1>1, <1>4, <1>5, <1>8 DEF PlaceInv

\* Another tab, or the same again.
LEMMA SwitchPlaces ==
    ASSUME Types, PlaceInv, NEW t \in Tabs, SwitchTab(t)
    PROVE  PlaceInv'
<1> DEFINE home == IF t = tab THEN cur ELSE kept[t]
           have == loaded[t] /\ ~Stale(t)
           free == IF Busy THEN [u \in Tabs |-> FALSE] ELSE clean
<1>1. home \in Ids /\ clean \in Flags /\ Busy \in BOOLEAN
  BY DEF Types, Busy
<1>2. /\ tab' = t /\ UNCHANGED <<hide, top, failed, head, lost>>
      /\ IF have THEN cur' = home /\ clean' = free /\ UNCHANGED <<list, pages, cursor, load, halfway>>
         ELSE /\ \E l \in Loads : StartFresh(l, t, 0, home)
              /\ clean' = [free EXCEPT ![t] = ~Busy]
  BY DEF SwitchTab
<1> HIDE DEF home, have
<1>3. CASE have
  <2>1. HeadLow'
    BY <1>2, <1>3 DEF PlaceInv, HeadLow
  <2>2. CASE Busy
    <3>1. \A x \in Tabs : ~clean'[x]
      BY <1>2, <1>3, <2>2
    <3> QED
      BY <1>2, <2>1, <3>1 DEF PlaceInv, Deep, MoresDeep, Searches, Clear
  <2>3. CASE ~Busy
    <3>1. \A l \in Loads : load[l].phase = "off" /\ load'[l].phase = "off"
      BY <1>2, <1>3, <2>3 DEF Busy
    <3>2. \A x \in Tabs : Unfetched(x)
      BY <3>1 DEF Unfetched, Fetching
    <3>3. \A x \in Tabs : Clear(x)' => Clear(x)
      BY <1>2, <1>3, <2>3 DEF Clear
    <3>4. Deep'
      BY <1>2, <1>3, <3>2, <3>3 DEF PlaceInv, Deep
    <3>5. MoresDeep' /\ Searches'
      BY <3>1 DEF MoresDeep, Searches, Fresh
    <3> QED
      BY <1>2, <2>1, <3>4, <3>5 DEF PlaceInv
  <2> QED
    BY <2>2, <2>3
<1>4. CASE ~have
  <2>1. PICK l \in Loads : StartFresh(l, t, 0, home)
    BY <1>2, <1>4
  <2>2. clean' = [free EXCEPT ![t] = ~Busy] /\ free \in Flags
    BY <1>1, <1>2, <1>4 DEF Flags
  <2>3. clean'[t] => ~Busy
    BY <2>2 DEF Flags
  <2>4. \A x \in Tabs : x # t /\ clean'[x] => clean[x] /\ (x # tab \/ ~Busy)
    BY <2>2 DEF Flags
  <2>5. UNCHANGED <<head, top, failed, lost>> /\ tab' = t /\ 0 \in {0} \cup Uri
    BY <1>2
  <2> HIDE DEF free
  <2> QED
    BY <1>1, <2>1, <2>3, <2>4, <2>5, FreshPlaces
<1> QED
  BY <1>3, <1>4

\* Every step keeps the place.
LEMMA StepPlaces ==
    ASSUME Types, Here, Alone, PlaceInv, [Next]_vars
    PROVE  PlaceInv'
<1>0. clean \in Flags
  BY DEF Types
<1>1. ASSUME NEW l \in Loads, More(l) \/ Reload(l) \/ AnnounceHere(l) PROVE PlaceInv'
  BY <1>1, MorePlaces, AgainPlaces DEF Reload, AnnounceHere
<1>2. ASSUME NEW l \in Loads, Answer(l) PROVE PlaceInv'
  BY <1>2, TimelinePlaces, NotificationsPlaces, SavedPlaces, RestorePlaces, FailPlaces DEF Answer
<1>3. CASE ToggleHide
  <2>1. CASE \E l \in Loads : Again(l)
    BY <2>1, AgainPlaces
  <2>2. CASE ~\E l \in Loads : Again(l)
    <3>1. /\ UNCHANGED <<tab, cur, list, load, head, failed, halfway, cursor, pages, lost, top>>
          /\ tab # "timeline" /\ clean' = [clean EXCEPT !["timeline"] = FALSE]
      BY <1>3, <2>2 DEF ToggleHide, lists, marks
    <3>2. \A x \in Tabs : clean'[x] => clean[x]
      BY <1>0, <3>1 DEF Flags
    <3> QED
      BY <3>1, <3>2, StillPlaces
  <2> QED
    BY <2>1, <2>2
<1>4. ASSUME NEW t \in Tabs, SwitchTab(t) PROVE PlaceInv'
  BY <1>4, SwitchPlaces
<1>5. ASSUME NEW t \in Tabs, Announce(t) PROVE PlaceInv'
  BY <1>5, StillPlaces DEF Announce, lists
<1>6. CASE Post
  BY <1>6, StillPlaces DEF Post, lists, marks, history
<1>7. CASE UNCHANGED vars
  BY <1>7, StillPlaces DEF vars, lists, marks, history
<1> QED
  BY <1>1, <1>2, <1>3, <1>4, <1>5, <1>6, <1>7 DEF Next

\* A reload that finds anything finds the post the user was on, if it was on a page of what a clean load
\* brought and at most a page of new items has pushed it down.
THEOREM PlacesAreKept == Spec => []PlaceIsKept
<1> DEFINE Inv == Types /\ Here /\ Alone /\ PlaceInv
<1>1. Init => Inv
  <2> SUFFICES ASSUME Init PROVE Inv
    OBVIOUS
  <2>1. Types
    BY InitTypes
  <2>2. \A l \in Loads : load[l].phase = "off" /\ load[l].seen = 0
    BY DEF Init, NoLoad
  <2>3. Here /\ Alone
    BY <2>2 DEF Here, Alone
  <2>4. HeadLow
    BY <2>1, <2>2 DEF HeadLow, Init, Types, Items
  <2>5. Deep
    <3>1. Span(0) = 0
      BY SpanFacts
    <3> QED
      BY <3>1 DEF Init, Deep, Bottom
  <2>6. MoresDeep /\ Searches /\ ~lost
    BY <2>2 DEF MoresDeep, Searches, Fresh, Init
  <2> QED
    BY <2>1, <2>3, <2>4, <2>5, <2>6 DEF PlaceInv
<1>2. Inv /\ [Next]_vars => Inv'
  BY StepTypes, StepIsOne, StepGuards, StepPlaces
<1>3. Inv => PlaceIsKept
  BY DEF PlaceInv, PlaceIsKept
<1> HIDE DEF Inv
<1> QED
  BY <1>1, <1>2, <1>3, PTL DEF Spec
=============================================================================
