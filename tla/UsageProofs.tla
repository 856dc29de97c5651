----------------------------- MODULE UsageProofs -----------------------------
(***************************************************************************)
(* Theorems about Usage for streams of any length and any counts.  The     *)
(* first part has induction over sequences and the rules of a fold, which  *)
(* the other modules use too: a fold is what follows its equation, and     *)
(* what does is found by induction on the places of the sequence.          *)
(***************************************************************************)
EXTENDS Usage, FiniteSetTheorems, WellFoundedInduction, TLAPS

-----------------------------------------------------------------------------
(* Induction.                                                              *)

\* A set of numbers has a least one.
LEMMA LeastNumber ==
  ASSUME NEW S \in SUBSET Nat, S # {}
  PROVE  \E m \in S : \A k \in S : m <= k
<1> DEFINE R == OpToRel(<, Nat)
<1>1. IsWellFoundedOn(R, Nat)
  BY NatLessThanWellFounded
<1>2. \A x, y \in Nat : x < y => <<x, y>> \in R
  BY DEF OpToRel
<1> HIDE DEF R
<1>3. PICK m \in S : \A y \in S : ~(<<y, m>> \in R)
  BY <1>1, WFMin
<1>4. m \in Nat /\ \A k \in S : k \in Nat
  OBVIOUS
<1>5. ASSUME NEW k \in S
      PROVE  m <= k
  <2>1. ~(k < m)
    BY <1>2, <1>3, <1>4
  <2> QED
    BY <1>4, <2>1
<1> QED
  BY <1>5

\* What holds of 0 and passes on to the next holds up to n.
LEMMA UpTo ==
  ASSUME NEW n \in Nat, NEW Good, 0 \in Good,
         \A i \in 0..(n - 1) : i \in Good => i + 1 \in Good
  PROVE  0..n \subseteq Good
<1> DEFINE Bad == {i \in 0..n : i \notin Good}
<1>1. SUFFICES ASSUME Bad # {} PROVE FALSE
  OBVIOUS
<1>2. Bad \in SUBSET Nat
  OBVIOUS
<1> HIDE DEF Bad
<1>3. PICK m \in Bad : \A k \in Bad : m <= k
  BY <1>1, <1>2, LeastNumber
<1>4. m \in 0..n /\ m \notin Good
  BY DEF Bad
<1>5. m # 0
  BY <1>4
<1>6. m - 1 \in 0..(n - 1) /\ m - 1 \in 0..n /\ ~(m <= m - 1) /\ (m - 1) + 1 = m
  BY <1>4, <1>5
<1>7. m - 1 \notin Bad
  BY <1>3, <1>6
<1>8. m - 1 \in Good
  BY <1>6, <1>7 DEF Bad
<1> QED
  BY <1>4, <1>6, <1>8

\* What holds of the empty sequence and of a sequence with one element more
\* holds of every sequence.
LEMMA EverySequence ==
  ASSUME NEW T, NEW Good, << >> \in Good,
         \A s \in Seq(T), x \in T : s \in Good => Append(s, x) \in Good
  PROVE  Seq(T) \subseteq Good
<1> SUFFICES ASSUME NEW s \in Seq(T)
             PROVE  s \in Good
  OBVIOUS
<1> DEFINE n == Len(s)
           Lengths == {i \in 0..n : SubSeq(s, 1, i) \in Good}
<1>1. n \in Nat
  OBVIOUS
<1>2. 0 \in Lengths
  <2>1. SubSeq(s, 1, 0) = << >>
    OBVIOUS
  <2>2. 0 \in 0..n
    BY <1>1
  <2> HIDE DEF n
  <2> QED
    BY <2>1, <2>2
<1>3. ASSUME NEW i \in 0..(n - 1), i \in Lengths
      PROVE  i + 1 \in Lengths
  <2>1. i + 1 \in 1..n /\ i \in 0..n
    BY <1>1
  <2>2. SubSeq(s, 1, i) \in Seq(T) /\ s[i + 1] \in T
    BY <2>1
  <2>3. SubSeq(s, 1, i + 1) = Append(SubSeq(s, 1, i), s[i + 1])
    BY <2>1
  <2>4. SubSeq(s, 1, i + 1) \in Good
    BY <1>3, <2>2, <2>3
  <2> QED
    BY <2>1, <2>4
<1> HIDE DEF n, Lengths
<1>4. 0..n \subseteq Lengths
  BY <1>1, <1>2, <1>3, UpTo
<1>5. n \in Lengths
  BY <1>1, <1>4
<1>6. SubSeq(s, 1, n) = s
  BY DEF n
<1> QED
  BY <1>5, <1>6 DEF Lengths

-----------------------------------------------------------------------------
(* Folds.                                                                  *)

\* A set of places has a largest one.
LEMMA MaxOfPlaces ==
  ASSUME NEW n \in Nat, NEW I \in SUBSET (1..n), I # {}
  PROVE  Max(I) \in I /\ \A x \in I : x <= Max(I)
<1> DEFINE Above == {u \in 0..n : \A x \in I : x <= u}
<1>1. n \in Above
  OBVIOUS
<1>2. Above \in SUBSET Nat /\ Above # {}
  BY <1>1
<1> HIDE DEF Above
<1>3. PICK m \in Above : \A k \in Above : m <= k
  BY <1>2, LeastNumber
<1>4. m \in 0..n /\ \A x \in I : x <= m
  BY DEF Above
<1>5. m \in I
  <2>1. SUFFICES ASSUME m \notin I PROVE FALSE
    OBVIOUS
  <2>2. PICK y \in I : TRUE
    OBVIOUS
  <2>3. \A x \in I : x \in 1..n /\ x <= m /\ x # m
    BY <1>4, <2>1
  <2>4. \A x \in I : x <= m - 1
    BY <1>4, <2>3
  <2>5. m - 1 \in 0..n
    BY <1>4, <2>2, <2>3
  <2>6. m - 1 \in Above
    BY <2>4, <2>5 DEF Above
  <2>7. m <= m - 1
    BY <1>3, <2>6
  <2> QED
    BY <1>4, <2>7
<1>6. \A x \in I : m >= x
  <2>1. \A x \in I : x \in Nat
    OBVIOUS
  <2> QED
    BY <1>4, <2>1
<1>7. Max(I) \in I /\ \A y \in I : Max(I) >= y
  BY <1>5, <1>6 DEF Max
<1>8. \A x \in I : x \in Nat
  OBVIOUS
<1> QED
  BY <1>7, <1>8

\* Among the places up to i it is i, and without it those up to i - 1 are left.
LEMMA MaxOfFirst ==
  ASSUME NEW n \in Nat, NEW i \in 1..n
  PROVE  /\ Max(1..i) = i
         /\ (1..i) \ {i} = 1..(i - 1)
         /\ 1..i \in SUBSET (1..n) /\ 1..i # {}
<1>1. i \in Nat /\ i \in 1..i
  OBVIOUS
<1>2. Max(1..i) \in 1..i /\ \A x \in 1..i : x <= Max(1..i)
  BY <1>1, MaxOfPlaces
<1>3. Max(1..i) = i
  BY <1>1, <1>2
<1>4. (1..i) \ {i} = 1..(i - 1)
  BY <1>1
<1>5. 1..i \in SUBSET (1..n)
  OBVIOUS
<1> QED
  BY <1>1, <1>3, <1>4, <1>5

\* A fold whose operation is a function of the element and the result so far.
Fold(F, base, s) == FoldLeft(LAMBDA x, y : F[y][x], base, s)

FoldTypes(S, T, base, F) == base \in S /\ F \in [T -> [S -> S]]

\* The value of a fold at some places, by that at all of them but the last.
Without(I) == I \ {Max(I)}
Unfolds(F, base, s, h) ==
  h = [I \in SUBSET DOMAIN s |->
         IF I = {} THEN base ELSE F[s[Max(I)]][h[Without(I)]]]

LEMMA UnfoldsExists ==
  ASSUME NEW S, NEW T, NEW base \in S, NEW F \in [T -> [S -> S]], NEW s \in Seq(T)
  PROVE  \E h \in [SUBSET DOMAIN s -> S] : Unfolds(F, base, s, h)
<1> DEFINE n == Len(s)
           Up(h, k) == \A I \in SUBSET (1..k) :
                         h[I] = IF I = {} THEN base ELSE F[s[Max(I)]][h[Without(I)]]
           Good == {k \in 0..n : \E h \in [SUBSET (1..k) -> S] : Up(h, k)}
<1>1. n \in Nat /\ DOMAIN s = 1..n /\ \A i \in 1..n : s[i] \in T
  OBVIOUS
<1> HIDE DEF n
<1>2. 0 \in Good
  <2> DEFINE h == [I \in SUBSET (1..0) |-> base]
  <2>1. h \in [SUBSET (1..0) -> S]
    OBVIOUS
  <2>2. \A I \in SUBSET (1..0) : I = {}
    OBVIOUS
  <2>3. Up(h, 0)
    BY <2>2
  <2> HIDE DEF Up, h
  <2>4. 0 \in 0..n
    BY <1>1
  <2> QED
    BY <2>1, <2>3, <2>4
<1>3. ASSUME NEW k \in 0..(n - 1), k \in Good
      PROVE  k + 1 \in Good
  <2>1. k \in Nat /\ k + 1 \in 0..n /\ k + 1 \in Nat
    BY <1>1
  <2>2. PICK h \in [SUBSET (1..k) -> S] : Up(h, k)
    BY <1>3
  <2> DEFINE g == [I \in SUBSET (1..(k + 1)) |->
                     IF I = {} THEN base ELSE F[s[Max(I)]][h[Without(I)]]]
  <2>3. ASSUME NEW I \in SUBSET (1..(k + 1)), I # {}
        PROVE  Max(I) \in 1..n /\ Without(I) \in SUBSET (1..k)
    <3>1. Max(I) \in I /\ \A x \in I : x <= Max(I)
      BY <2>1, <2>3, MaxOfPlaces
    <3>2. Max(I) \in 1..(k + 1)
      BY <3>1
    <3>3. \A x \in I : x \in 1..(k + 1) /\ (x # Max(I) => x \in 1..k)
      BY <2>1, <3>1, <3>2
    <3>4. Max(I) \in 1..n
      BY <1>1, <2>1, <3>2
    <3> QED
      BY <3>3, <3>4 DEF Without
  <2>4. g \in [SUBSET (1..(k + 1)) -> S]
    <3>1. ASSUME NEW I \in SUBSET (1..(k + 1)), I # {}
          PROVE  F[s[Max(I)]][h[Without(I)]] \in S
      <4>1. s[Max(I)] \in T /\ h[Without(I)] \in S
        BY <1>1, <2>3, <3>1
      <4> QED
        BY <4>1
    <3> QED
      BY <3>1
  <2>5. \A I \in SUBSET (1..k) : g[I] = h[I]
    <3>1. \A I \in SUBSET (1..k) : I \in SUBSET (1..(k + 1))
      BY <2>1
    <3> QED
      BY <2>2, <3>1
  <2>6. Up(g, k + 1)
    <3>1. ASSUME NEW I \in SUBSET (1..(k + 1))
          PROVE  g[I] = IF I = {} THEN base ELSE F[s[Max(I)]][g[Without(I)]]
      <4>1. CASE I = {}
        BY <4>1
      <4>2. CASE I # {}
        <5>1. g[Without(I)] = h[Without(I)]
          BY <2>3, <2>5, <4>2
        <5>2. g[I] = F[s[Max(I)]][h[Without(I)]]
          BY <4>2
        <5> HIDE DEF g
        <5> QED
          BY <4>2, <5>1, <5>2
      <4> QED
        BY <4>1, <4>2
    <3> QED
      BY <3>1
  <2> HIDE DEF Up, g
  <2> QED
    BY <2>1, <2>4, <2>6
<1> HIDE DEF Good
<1>4. 0..n \subseteq Good
  BY <1>1, <1>2, <1>3, UpTo
<1>5. n \in Good
  BY <1>1, <1>4
<1>6. PICK h \in [SUBSET (1..n) -> S] : Up(h, n)
  BY <1>5 DEF Good
<1>7. h = [I \in SUBSET (1..n) |->
             IF I = {} THEN base ELSE F[s[Max(I)]][h[Without(I)]]]
  BY <1>6
<1> QED
  BY <1>1, <1>7 DEF Unfolds

\* What follows the equation of a fold as long as its results are in S.
Follows(F, base, S, s, h) ==
  /\ h[{}] = base
  /\ \A I \in SUBSET DOMAIN s :
       I # {} /\ h[Without(I)] \in S => h[I] = F[s[Max(I)]][h[Without(I)]]

\* The sequence r begins with s.
Begins(s, r) == Len(s) <= Len(r) /\ \A i \in 1..Len(s) : s[i] = r[i]

\* Whatever follows it has one value at the places up to i, and that does not
\* depend on the elements after them.
LEMMA PrefixesAgree ==
  ASSUME NEW S, NEW T, NEW base, NEW F, FoldTypes(S, T, base, F),
         NEW s \in Seq(T), NEW r \in Seq(T), NEW g, NEW h,
         Follows(F, base, S, s, g), Follows(F, base, S, r, h), Begins(s, r)
  PROVE  \A i \in 0..Len(s) : g[1..i] \in S /\ g[1..i] = h[1..i]
<1> DEFINE n == Len(s)
           m == Len(r)
           Good == {i \in 0..n : g[1..i] \in S /\ g[1..i] = h[1..i]}
<1>1. /\ n \in Nat /\ m \in Nat /\ n <= m
      /\ DOMAIN s = 1..n /\ DOMAIN r = 1..m
      /\ \A i \in 1..n : s[i] \in T /\ s[i] = r[i]
      /\ base \in S /\ F \in [T -> [S -> S]]
  BY DEF FoldTypes, Begins
<1> HIDE DEF n, m
<1>2. 0 \in Good
  <2>1. 1..0 = {}
    OBVIOUS
  <2>2. g[1..0] = base /\ h[1..0] = base /\ base \in S
    BY <1>1, <2>1 DEF Follows
  <2>3. 0 \in 0..n
    BY <1>1
  <2> QED
    BY <2>2, <2>3
<1>3. ASSUME NEW k \in 0..(n - 1), k \in Good
      PROVE  k + 1 \in Good
  <2> DEFINE i == k + 1
  <2>1. i \in 1..n /\ i \in 1..m /\ i \in 0..n /\ i - 1 = k
    BY <1>1
  <2> HIDE DEF i
  <2>2. Max(1..i) = i /\ Without(1..i) = 1..k /\ 1..i # {}
        /\ 1..i \in SUBSET DOMAIN s /\ 1..i \in SUBSET DOMAIN r
    BY <1>1, <2>1, MaxOfFirst DEF Without
  <2>3. g[1..k] \in S /\ h[1..k] = g[1..k]
    BY <1>3
  <2>4. g[1..i] = F[s[i]][g[1..k]] /\ h[1..i] = F[r[i]][h[1..k]]
    BY <2>2, <2>3 DEF Follows
  <2>5. F[s[i]][g[1..k]] \in S /\ r[i] = s[i]
    <3>1. s[i] \in T /\ r[i] = s[i]
      BY <1>1, <2>1
    <3> QED
      BY <1>1, <2>3, <3>1
  <2>6. i \in Good
    BY <2>1, <2>3, <2>4, <2>5
  <2> QED
    BY <2>6 DEF i
<1> HIDE DEF Good
<1>4. 0..n \subseteq Good
  BY <1>1, <1>2, <1>3, UpTo
<1> QED
  BY <1>4 DEF Good, n

\* A fold follows its equation.
HasFold(S, base, F, s, g) == Follows(F, base, S, s, g) /\ Fold(F, base, s) = g[DOMAIN s]

LEMMA FoldFollows ==
  ASSUME NEW S, NEW T, NEW base, NEW F, FoldTypes(S, T, base, F), NEW s \in Seq(T)
  PROVE  \E g : HasFold(S, base, F, s, g)
<1> DEFINE g == CHOOSE h : Unfolds(F, base, s, h)
<1>1. Fold(F, base, s) = g[DOMAIN s]
  BY DEF Fold, FoldLeft, MapThenFoldSet, Unfolds, Without
<1>2. \E h : Unfolds(F, base, s, h)
  BY UnfoldsExists DEF FoldTypes
<1>3. Unfolds(F, base, s, g)
  BY <1>2
<1> HIDE DEF g
<1>4. Follows(F, base, S, s, g)
  BY <1>3 DEF Unfolds, Follows
<1> QED
  BY <1>1, <1>4 DEF HasFold

\* What follows the equation of a fold has its value.
LEMMA FollowsFold ==
  ASSUME NEW S, NEW T, NEW base, NEW F, FoldTypes(S, T, base, F), NEW s \in Seq(T),
         NEW h, Follows(F, base, S, s, h)
  PROVE  h[DOMAIN s] = Fold(F, base, s)
<1>1. PICK g : HasFold(S, base, F, s, g)
  BY FoldFollows
<1>2. Len(s) \in Nat /\ DOMAIN s = 1..Len(s) /\ Len(s) <= Len(s)
  OBVIOUS
<1>3. Follows(F, base, S, s, g) /\ Fold(F, base, s) = g[DOMAIN s]
  BY <1>1 DEF HasFold
<1>4. \A i \in 0..Len(s) : g[1..i] = h[1..i]
  <2>1. Begins(s, s)
    BY <1>2 DEF Begins
  <2> QED
    BY <1>3, <2>1, PrefixesAgree
<1>5. Len(s) \in 0..Len(s)
  BY <1>2
<1> QED
  BY <1>2, <1>3, <1>4, <1>5

\* A fold of nothing is the base.
LEMMA FoldNothing ==
  ASSUME NEW S, NEW T, NEW base, NEW F, FoldTypes(S, T, base, F)
  PROVE  Fold(F, base, << >>) = base
<1> DEFINE s == << >>
<1>1. s \in Seq(T) /\ DOMAIN s = {}
  OBVIOUS
<1> HIDE DEF s
<1>2. PICK g : HasFold(S, base, F, s, g)
  BY <1>1, FoldFollows
<1>3. Fold(F, base, s) = base
  BY <1>1, <1>2 DEF HasFold, Follows
<1> QED
  BY <1>3 DEF s

\* An element more is one more step.
LEMMA FoldLonger ==
  ASSUME NEW S, NEW T, NEW base, NEW F, FoldTypes(S, T, base, F),
         NEW s \in Seq(T), NEW x \in T
  PROVE  /\ Fold(F, base, s) \in S
         /\ Fold(F, base, Append(s, x)) = F[x][Fold(F, base, s)]
<1> DEFINE r == Append(s, x)
<1>1. /\ Len(s) \in Nat /\ r \in Seq(T) /\ Len(r) = Len(s) + 1 /\ Len(s) <= Len(r)
      /\ DOMAIN s = 1..Len(s) /\ DOMAIN r = 1..(Len(s) + 1)
      /\ \A i \in 1..Len(s) : s[i] = r[i]
  OBVIOUS
<1>2. r[Len(s) + 1] = x
  OBVIOUS
<1> HIDE DEF r
<1>3. PICK g : HasFold(S, base, F, s, g)
  BY FoldFollows
<1>4. PICK h : HasFold(S, base, F, r, h)
  BY <1>1, FoldFollows
<1>5. \A i \in 0..Len(s) : g[1..i] \in S /\ g[1..i] = h[1..i]
  <2>1. Follows(F, base, S, s, g) /\ Follows(F, base, S, r, h)
    BY <1>3, <1>4 DEF HasFold
  <2>2. Begins(s, r)
    BY <1>1 DEF Begins
  <2> QED
    BY <1>1, <2>1, <2>2, PrefixesAgree
<1> DEFINE n == Len(s)
<1> HIDE DEF n
<1>6. n \in Nat /\ n \in 0..n
  BY <1>1 DEF n
<1>7. Fold(F, base, s) \in S /\ h[1..n] = Fold(F, base, s)
  BY <1>1, <1>3, <1>5, <1>6 DEF n, HasFold
<1>8. n + 1 \in Nat /\ n + 1 \in 1..(n + 1) /\ (n + 1) - 1 = n
  BY <1>6
<1>9. Max(1..(n + 1)) = n + 1 /\ Without(1..(n + 1)) = 1..n /\ 1..(n + 1) # {}
  BY <1>8, MaxOfFirst DEF Without
<1>10. 1..(n + 1) \in SUBSET DOMAIN r
  BY <1>1 DEF n
<1>11. h[1..(n + 1)] = F[r[n + 1]][h[1..n]]
  BY <1>4, <1>7, <1>9, <1>10 DEF Follows, HasFold
<1>12. Fold(F, base, r) = h[1..(n + 1)]
  BY <1>1, <1>4 DEF HasFold, n
<1> QED
  BY <1>2, <1>7, <1>11, <1>12 DEF n, r

\* The last of some places, and those before it.
LEMMA PlacesBelow ==
  ASSUME NEW T, NEW s \in Seq(T), NEW I \in SUBSET DOMAIN s, I # {}
  PROVE  s[Max(I)] \in T /\ Without(I) \in SUBSET DOMAIN s
<1>1. Len(s) \in Nat /\ I \in SUBSET (1..Len(s)) /\ DOMAIN s = 1..Len(s)
  OBVIOUS
<1>2. Max(I) \in DOMAIN s
  BY <1>1, MaxOfPlaces
<1> QED
  BY <1>2 DEF Without

-----------------------------------------------------------------------------
(* The lines of any stream, and the folds over them.                       *)

Counts == [input : Nat, output : Nat, cached : Nat]
AnyUsage == Counts \cup {NoUsage}
AnyLine == {Blank, Other, DoneLine} \cup {Data(top, nested) : top \in AnyUsage, nested \in AnyUsage}

\* The counts of a usage are not those of none.
LEMMA CountsDiffer == NoUsage \notin Counts
<1> SUFFICES ASSUME NEW u \in Counts, u = NoUsage
             PROVE  FALSE
  OBVIOUS
<1>1. DOMAIN u = {"input", "output", "cached"}
  BY DEF Counts
<1>2. DOMAIN NoUsage = {}
  BY DEF NoUsage
<1> QED
  BY <1>1, <1>2

\* What each kind of line has.
LEMMA LineParts ==
  ASSUME NEW line \in AnyLine
  PROVE  /\ line.kind \in {"blank", "other", "done", "data"}
         /\ line.top \in AnyUsage /\ line.nested \in AnyUsage
         /\ line.kind # "data" => ~Mentions(line)
<1>1. CASE line \in {Blank, Other, DoneLine}
  <2>1. Blank.kind = "blank" /\ Blank.top = NoUsage /\ Blank.nested = NoUsage
    BY DEF Blank
  <2>2. Other.kind = "other" /\ Other.top = NoUsage /\ Other.nested = NoUsage
    BY DEF Blank, Other
  <2>3. DoneLine.kind = "done" /\ DoneLine.top = NoUsage /\ DoneLine.nested = NoUsage
    BY DEF Blank, DoneLine
  <2> QED
    BY <1>1, <2>1, <2>2, <2>3 DEF AnyUsage, Mentions
<1>2. CASE line \in {Data(top, nested) : top \in AnyUsage, nested \in AnyUsage}
  <2>1. PICK top \in AnyUsage, nested \in AnyUsage : line = Data(top, nested)
    BY <1>2
  <2>2. line.kind = "data" /\ line.top = top /\ line.nested = nested
    BY <2>1 DEF Data
  <2> QED
    BY <2>2
<1> QED
  BY <1>1, <1>2 DEF AnyLine

\* The state of teeStream after some lines.
Start == [usageBuf |-> << >>, eventBuf |-> << >>]
Tee(lines) == FoldLeft(ReadLine, Start, lines)
TeeStates == [usageBuf : Seq(AnyLine), eventBuf : Seq(AnyLine)]

\* A line read keeps the types of the buffers.
LEMMA ReadLineType ==
  ASSUME NEW t \in TeeStates, NEW line \in AnyLine
  PROVE  ReadLine(t, line) \in TeeStates /\ flushEvent(t) \in TeeStates
<1> DEFINE u == [t EXCEPT !.eventBuf = Append(@, line)]
<1>1. u \in TeeStates
  <2>1. t.eventBuf \in Seq(AnyLine)
    BY DEF TeeStates
  <2>2. Append(t.eventBuf, line) \in Seq(AnyLine)
    BY <2>1
  <2> DEFINE e == Append(t.eventBuf, line)
  <2> HIDE DEF e
  <2>3. [t EXCEPT !.eventBuf = e] \in TeeStates
    BY <2>2 DEF TeeStates, e
  <2> QED
    BY <2>3 DEF e
<1>2. ASSUME NEW v \in TeeStates
      PROVE  flushEvent(v) \in TeeStates
  <2>1. v.usageBuf \in Seq(AnyLine) /\ v.eventBuf \in Seq(AnyLine) /\ << >> \in Seq(AnyLine)
    BY DEF TeeStates
  <2>2. v.usageBuf \o v.eventBuf \in Seq(AnyLine)
    BY <2>1
  <2> QED
    BY <2>1, <2>2 DEF flushEvent, TeeStates
<1>3. ReadLine(t, line) = IF line.kind = "blank" THEN flushEvent(u) ELSE u
  BY DEF ReadLine
<1> HIDE DEF u
<1> QED
  BY <1>1, <1>2, <1>3

\* teeStream line by line.
LEMMA TeeRules ==
  /\ Tee(<< >>) = Start
  /\ \A s \in Seq(AnyLine) : Tee(s) \in TeeStates
  /\ \A s \in Seq(AnyLine), line \in AnyLine :
       Tee(Append(s, line)) = ReadLine(Tee(s), line)
<1> DEFINE F == [line \in AnyLine |-> [t \in TeeStates |-> ReadLine(t, line)]]
<1>1. FoldTypes(TeeStates, AnyLine, Start, F)
  <2>1. Start \in TeeStates
    BY DEF Start, TeeStates
  <2>2. F \in [AnyLine -> [TeeStates -> TeeStates]]
    BY ReadLineType
  <2> HIDE DEF F
  <2> QED
    BY <2>1, <2>2 DEF FoldTypes
<1>2. \A line \in AnyLine, t \in TeeStates : F[line][t] = ReadLine(t, line)
  OBVIOUS
<1> HIDE DEF F
<1>3. ASSUME NEW s \in Seq(AnyLine)
      PROVE  Tee(s) = Fold(F, Start, s)
  <2> DEFINE Eq(h) == h = [I \in SUBSET DOMAIN s |->
                        IF I = {} THEN Start ELSE ReadLine(h[Without(I)], s[Max(I)])]
             g == CHOOSE h : Eq(h)
  <2>1. Tee(s) = g[DOMAIN s]
    BY DEF Tee, FoldLeft, MapThenFoldSet, Without
  <2>2. PICK h \in [SUBSET DOMAIN s -> TeeStates] : Unfolds(F, Start, s, h)
    BY <1>1, UnfoldsExists DEF FoldTypes
  <2>3. ASSUME NEW I \in SUBSET DOMAIN s, I # {}
        PROVE  F[s[Max(I)]][h[Without(I)]] = ReadLine(h[Without(I)], s[Max(I)])
    BY <1>2, <2>3, PlacesBelow
  <2>4. Eq(h)
    BY <2>2, <2>3 DEF Unfolds
  <2>5. Eq(g)
    BY <2>4
  <2> HIDE DEF g
  <2>6. ASSUME NEW I \in SUBSET DOMAIN s, I # {}, g[Without(I)] \in TeeStates
        PROVE  g[I] = F[s[Max(I)]][g[Without(I)]]
    <3>1. g[I] = ReadLine(g[Without(I)], s[Max(I)])
      BY <2>5, <2>6
    <3> QED
      BY <1>2, <2>6, <3>1, PlacesBelow
  <2>7. Follows(F, Start, TeeStates, s, g)
    BY <2>5, <2>6 DEF Follows
  <2> QED
    BY <1>1, <2>1, <2>7, FollowsFold
<1>4. << >> \in Seq(AnyLine)
      /\ \A s \in Seq(AnyLine), line \in AnyLine : Append(s, line) \in Seq(AnyLine)
  OBVIOUS
<1>5. Tee(<< >>) = Start
  BY <1>1, <1>3, <1>4, FoldNothing
<1>6. ASSUME NEW s \in Seq(AnyLine), NEW line \in AnyLine
      PROVE  Tee(s) \in TeeStates /\ Tee(Append(s, line)) = ReadLine(Tee(s), line)
  <2>1. Fold(F, Start, s) \in TeeStates
        /\ Fold(F, Start, Append(s, line)) = F[line][Fold(F, Start, s)]
    BY <1>1, FoldLonger
  <2> QED
    BY <1>2, <1>3, <1>4, <2>1
<1>7. \A s \in Seq(AnyLine) : Tee(s) \in TeeStates
  <2>1. Blank \in AnyLine
    BY DEF AnyLine
  <2> QED
    BY <1>6, <2>1
<1> QED
  BY <1>5, <1>6, <1>7

\* The blocks of lines, of whatever kind these are.
BlockSeqs(T) == {blocks \in Seq(Seq(T)) : blocks # << >>}
LFBlocks(lines) == Blocks(lines, FALSE)

\* A sequence that is not empty has a last element and those before it.
LEMMA FrontAndLast ==
  ASSUME NEW T, NEW s \in Seq(T), s # << >>
  PROVE  Front(s) \in Seq(T) /\ Last(s) \in T /\ s = Append(Front(s), Last(s))
  BY DEF Front, Last

\* An element at the end is the last, and the others are before it.
LEMMA FrontOfAppend ==
  ASSUME NEW T, NEW s \in Seq(T), NEW x \in T
  PROVE  /\ Append(s, x) \in Seq(T) /\ Append(s, x) # << >>
         /\ Front(Append(s, x)) = s /\ Last(Append(s, x)) = x
  BY DEF Front, Last

\* A line more keeps the type of the blocks.
LEMMA SplitLineType ==
  ASSUME NEW T, NEW blocks \in BlockSeqs(T), NEW line \in T
  PROVE  SplitLine(blocks, line) \in BlockSeqs(T)
<1>1. blocks \in Seq(Seq(T)) /\ blocks # << >> /\ << >> \in Seq(T)
  BY DEF BlockSeqs
<1>2. Front(blocks) \in Seq(Seq(T)) /\ Last(blocks) \in Seq(T)
  BY <1>1, FrontAndLast
<1>3. Append(Last(blocks), line) \in Seq(T)
  BY <1>2
<1>4. Append(blocks, << >>) \in BlockSeqs(T)
  BY <1>1, FrontOfAppend DEF BlockSeqs
<1> DEFINE S == Seq(T)
           f == Front(blocks)
           x == Append(Last(blocks), line)
<1> HIDE DEF S, f, x
<1>5. Append(f, x) \in BlockSeqs(T)
  <2>1. f \in Seq(S) /\ x \in S
    BY <1>2, <1>3 DEF S, f, x
  <2>2. Append(f, x) \in Seq(S) /\ Append(f, x) # << >>
    BY <2>1, FrontOfAppend
  <2> QED
    BY <2>2 DEF BlockSeqs, S
<1> QED
  BY <1>4, <1>5 DEF SplitLine, f, x

\* The split line by line.
LEMMA BlocksRules ==
  ASSUME NEW T, T # {}
  PROVE  /\ LFBlocks(<< >>) = << << >> >>
         /\ \A s \in Seq(T) : LFBlocks(s) \in BlockSeqs(T)
         /\ \A s \in Seq(T), line \in T :
              LFBlocks(Append(s, line)) = SplitLine(LFBlocks(s), line)
<1> DEFINE F == [line \in T |-> [blocks \in BlockSeqs(T) |-> SplitLine(blocks, line)]]
           base == << << >> >>
<1>1. FoldTypes(BlockSeqs(T), T, base, F)
  <2>1. base \in BlockSeqs(T)
    BY DEF BlockSeqs
  <2>2. F \in [T -> [BlockSeqs(T) -> BlockSeqs(T)]]
    BY SplitLineType
  <2> HIDE DEF F
  <2> QED
    BY <2>1, <2>2 DEF FoldTypes
<1>2. \A line \in T, blocks \in BlockSeqs(T) : F[line][blocks] = SplitLine(blocks, line)
  OBVIOUS
<1> HIDE DEF F
<1>3. ASSUME NEW s \in Seq(T)
      PROVE  LFBlocks(s) = Fold(F, base, s)
  <2> DEFINE Eq(h) == h = [I \in SUBSET DOMAIN s |->
                        IF I = {} THEN base ELSE SplitLine(h[Without(I)], s[Max(I)])]
             g == CHOOSE h : Eq(h)
  <2>1. LFBlocks(s) = g[DOMAIN s]
    BY DEF LFBlocks, Blocks, FoldLeft, MapThenFoldSet, Without
  <2> HIDE DEF base
  <2>2. PICK h \in [SUBSET DOMAIN s -> BlockSeqs(T)] : Unfolds(F, base, s, h)
    BY <1>1, UnfoldsExists DEF FoldTypes
  <2>3. ASSUME NEW I \in SUBSET DOMAIN s, I # {}
        PROVE  F[s[Max(I)]][h[Without(I)]] = SplitLine(h[Without(I)], s[Max(I)])
    BY <1>2, <2>3, PlacesBelow
  <2>4. Eq(h)
    BY <2>2, <2>3 DEF Unfolds
  <2>5. Eq(g)
    BY <2>4
  <2> HIDE DEF g
  <2>6. ASSUME NEW I \in SUBSET DOMAIN s, I # {}, g[Without(I)] \in BlockSeqs(T)
        PROVE  g[I] = F[s[Max(I)]][g[Without(I)]]
    <3>1. g[I] = SplitLine(g[Without(I)], s[Max(I)])
      BY <2>5, <2>6
    <3> QED
      BY <1>2, <2>6, <3>1, PlacesBelow
  <2>7. Follows(F, base, BlockSeqs(T), s, g)
    BY <2>5, <2>6 DEF Follows
  <2> QED
    BY <1>1, <2>1, <2>7, FollowsFold
<1> HIDE DEF base
<1>4. << >> \in Seq(T)
      /\ \A s \in Seq(T), line \in T : Append(s, line) \in Seq(T)
  OBVIOUS
<1>5. LFBlocks(<< >>) = base
  BY <1>1, <1>3, <1>4, FoldNothing
<1>6. ASSUME NEW s \in Seq(T), NEW line \in T
      PROVE  LFBlocks(s) \in BlockSeqs(T) /\ LFBlocks(Append(s, line)) = SplitLine(LFBlocks(s), line)
  <2>1. Fold(F, base, s) \in BlockSeqs(T)
        /\ Fold(F, base, Append(s, line)) = F[line][Fold(F, base, s)]
    BY <1>1, FoldLonger
  <2> QED
    BY <1>2, <1>3, <1>4, <2>1
<1> QED
  BY <1>5, <1>6 DEF base

\* The same for the lines of a stream.
LEMMA LineBlocks ==
  /\ LFBlocks(<< >>) = << << >> >>
  /\ \A s \in Seq(AnyLine) : LFBlocks(s) \in BlockSeqs(AnyLine)
  /\ \A s \in Seq(AnyLine), line \in AnyLine :
       LFBlocks(Append(s, line)) = SplitLine(LFBlocks(s), line)
<1>1. AnyLine # {}
  BY DEF AnyLine
<1> QED
  BY <1>1, BlocksRules

\* A frame keeps the type of the counts.
LEMMA TakeType ==
  ASSUME NEW u \in Counts, NEW v \in AnyUsage
  PROVE  /\ Take(u, v) \in Counts
         /\ v # NoUsage => \A k \in {"input", "output", "cached"} :
              Take(u, v)[k] = Larger(u[k], v[k])
<1>1. DOMAIN u = {"input", "output", "cached"}
      /\ u.input \in Nat /\ u.output \in Nat /\ u.cached \in Nat
  BY DEF Counts
<1>2. CASE v = NoUsage
  BY <1>2 DEF Take
<1>3. CASE v # NoUsage
  <2>1. v \in Counts /\ v.input \in Nat /\ v.output \in Nat /\ v.cached \in Nat
    BY <1>3 DEF AnyUsage, Counts
  <2> DEFINE w == [k \in {"input", "output", "cached"} |-> Larger(u[k], v[k])]
  <2>2. Take(u, v) = w
    BY <1>1, <1>3 DEF Take
  <2>3. \A k \in {"input", "output", "cached"} : w[k] \in Nat
    BY <1>1, <2>1 DEF Larger
  <2>4. w = [input |-> w["input"], output |-> w["output"], cached |-> w["cached"]]
    OBVIOUS
  <2>5. w \in Counts
    <3> HIDE DEF w
    <3> QED
      BY <2>3, <2>4 DEF Counts
  <2> QED
    BY <1>3, <2>2, <2>5
<1> QED
  BY <1>2, <1>3

-----------------------------------------------------------------------------
(* What the parser finds in blocks.                                        *)

\* The usage that a block reports, and those that some blocks report.
UsageIn(endpoint, block) ==
  {UsageOf(endpoint, block[i]) :
     i \in {j \in DOMAIN block : DataLines(block) = {j} /\ block[j].kind = "data"}} \ {NoUsage}
Usages(endpoint, blocks) == UNION {UsageIn(endpoint, blocks[b]) : b \in DOMAIN blocks}

Parsed(endpoint, blocks) ==
  FoldLeft(LAMBDA u, block : Frame(endpoint, u, block), Zero, blocks)

\* A usage of a line is a usage.
LEMMA UsageOfType ==
  ASSUME NEW line \in AnyLine, NEW endpoint
  PROVE  /\ UsageOf(endpoint, line) \in AnyUsage
         /\ ~Mentions(line) => UsageOf(endpoint, line) = NoUsage
<1>1. line.top \in AnyUsage /\ line.nested \in AnyUsage
  BY LineParts
<1> QED
  BY <1>1 DEF UsageOf, Mentions

\* A frame passes over its block, or takes the usage of it.
FramePasses(endpoint, u, block) ==
  UsageIn(endpoint, block) = {} /\ Frame(endpoint, u, block) = u
FrameTakes(endpoint, u, block) ==
  \E v \in Counts : UsageIn(endpoint, block) = {v} /\ Frame(endpoint, u, block) = Take(u, v)

LEMMA FrameOfBlock ==
  ASSUME NEW endpoint, NEW u \in Counts, NEW block \in Seq(AnyLine)
  PROVE  FramePasses(endpoint, u, block) \/ FrameTakes(endpoint, u, block)
<1>1. CASE ~Decodes(block)
  <2>1. Frame(endpoint, u, block) = u
    BY <1>1 DEF Frame
  <2>2. UsageIn(endpoint, block) = {}
    BY <1>1 DEF UsageIn, Decodes
  <2> QED
    BY <2>1, <2>2 DEF FramePasses
<1>2. CASE Decodes(block)
  <2>1. PICK i \in DOMAIN block : DataLines(block) = {i} /\ block[i].kind = "data"
    BY <1>2 DEF Decodes
  <2> DEFINE v == UsageOf(endpoint, block[i])
  <2>2. (CHOOSE j \in DataLines(block) : TRUE) = i
    BY <2>1
  <2>3. Frame(endpoint, u, block) = Take(u, v)
    BY <1>2, <2>2 DEF Frame
  <2>4. UsageIn(endpoint, block) = {v} \ {NoUsage}
    BY <2>1 DEF UsageIn
  <2>5. block[i] \in AnyLine
    BY <2>1
  <2>6. v \in AnyUsage
    BY <2>5, UsageOfType
  <2> HIDE DEF v
  <2>7. CASE v = NoUsage
    BY <2>3, <2>4, <2>7 DEF Take, FramePasses
  <2>8. CASE v # NoUsage
    BY <2>3, <2>4, <2>6, <2>8 DEF AnyUsage, FrameTakes
  <2> QED
    BY <2>7, <2>8
<1> QED
  BY <1>1, <1>2

\* A frame keeps the type of the counts.
LEMMA FrameType ==
  ASSUME NEW endpoint, NEW u \in Counts, NEW block \in Seq(AnyLine)
  PROVE  Frame(endpoint, u, block) \in Counts
<1>1. CASE FramePasses(endpoint, u, block)
  BY <1>1 DEF FramePasses
<1>2. CASE FrameTakes(endpoint, u, block)
  <2>1. PICK v \in Counts : Frame(endpoint, u, block) = Take(u, v)
    BY <1>2 DEF FrameTakes
  <2>2. v \in AnyUsage
    BY DEF AnyUsage
  <2> QED
    BY <2>1, <2>2, TakeType
<1> QED
  BY <1>1, <1>2, FrameOfBlock

\* The parser block by block.
LEMMA ParsedRules ==
  ASSUME NEW endpoint
  PROVE  /\ Parsed(endpoint, << >>) = Zero
         /\ \A s \in Seq(Seq(AnyLine)) : Parsed(endpoint, s) \in Counts
         /\ \A s \in Seq(Seq(AnyLine)), block \in Seq(AnyLine) :
              Parsed(endpoint, Append(s, block)) = Frame(endpoint, Parsed(endpoint, s), block)
<1> DEFINE T == Seq(AnyLine)
           F == [block \in T |-> [u \in Counts |-> Frame(endpoint, u, block)]]
<1>1. FoldTypes(Counts, T, Zero, F)
  <2>1. Zero \in Counts
    BY DEF Zero, Counts
  <2>2. F \in [T -> [Counts -> Counts]]
    BY FrameType
  <2> HIDE DEF F, T
  <2> QED
    BY <2>1, <2>2 DEF FoldTypes
<1>2. \A block \in T, u \in Counts : F[block][u] = Frame(endpoint, u, block)
  OBVIOUS
<1>3. << >> \in T
  OBVIOUS
<1> HIDE DEF F
<1>4. ASSUME NEW s \in Seq(T)
      PROVE  Parsed(endpoint, s) = Fold(F, Zero, s)
  <2> DEFINE Eq(h) == h = [I \in SUBSET DOMAIN s |->
                        IF I = {} THEN Zero ELSE Frame(endpoint, h[Without(I)], s[Max(I)])]
             g == CHOOSE h : Eq(h)
  <2>1. Parsed(endpoint, s) = g[DOMAIN s]
    BY DEF Parsed, FoldLeft, MapThenFoldSet, Without
  <2> HIDE DEF T
  <2>2. PICK h \in [SUBSET DOMAIN s -> Counts] : Unfolds(F, Zero, s, h)
    BY <1>1, UnfoldsExists DEF FoldTypes
  <2>3. ASSUME NEW I \in SUBSET DOMAIN s, I # {}
        PROVE  F[s[Max(I)]][h[Without(I)]] = Frame(endpoint, h[Without(I)], s[Max(I)])
    BY <1>2, <2>3, PlacesBelow
  <2>4. Eq(h)
    BY <2>2, <2>3 DEF Unfolds
  <2>5. Eq(g)
    BY <2>4
  <2> HIDE DEF g
  <2>6. ASSUME NEW I \in SUBSET DOMAIN s, I # {}, g[Without(I)] \in Counts
        PROVE  g[I] = F[s[Max(I)]][g[Without(I)]]
    <3>1. g[I] = Frame(endpoint, g[Without(I)], s[Max(I)])
      BY <2>5, <2>6
    <3> QED
      BY <1>2, <2>6, <3>1, PlacesBelow
  <2>7. Follows(F, Zero, Counts, s, g)
    BY <2>5, <2>6 DEF Follows
  <2> QED
    BY <1>1, <2>1, <2>7, FollowsFold
<1> HIDE DEF T
<1>5. << >> \in Seq(T)
      /\ \A s \in Seq(T), block \in T : Append(s, block) \in Seq(T)
  OBVIOUS
<1>6. Parsed(endpoint, << >>) = Zero
  BY <1>1, <1>4, <1>5, FoldNothing
<1>7. ASSUME NEW s \in Seq(T), NEW block \in T
      PROVE  /\ Parsed(endpoint, s) \in Counts
             /\ Parsed(endpoint, Append(s, block)) = Frame(endpoint, Parsed(endpoint, s), block)
  <2>1. Fold(F, Zero, s) \in Counts
        /\ Fold(F, Zero, Append(s, block)) = F[block][Fold(F, Zero, s)]
    BY <1>1, FoldLonger
  <2> QED
    BY <1>2, <1>4, <1>5, <2>1
<1> QED
  BY <1>3, <1>6, <1>7 DEF T

\* Counts that are the largest of some usages are, once they take one more,
\* the largest of these too.
LEMMA TakeCounted ==
  ASSUME NEW u \in Counts, NEW R \in SUBSET Counts, Counted(u, R), NEW v \in Counts
  PROVE  Counted(Take(u, v), R \cup {v})
<1> DEFINE K == {"input", "output", "cached"}
           w == Take(u, v)
<1>1. v \in AnyUsage /\ v # NoUsage
  BY CountsDiffer DEF AnyUsage
<1>2. w \in Counts /\ \A k \in K : w[k] = Larger(u[k], v[k])
  BY <1>1, TakeType
<1> HIDE DEF w
<1>3. \A x \in Counts : DOMAIN x = K /\ \A k \in K : x[k] \in Nat
  BY DEF Counts
<1> HIDE DEF K
<1>4. ASSUME NEW k \in K
      PROVE  /\ \A x \in R \cup {v} : x[k] <= w[k]
             /\ w[k] = 0 \/ \E x \in R \cup {v} : x[k] = w[k]
  <2>1. u[k] \in Nat /\ v[k] \in Nat /\ w[k] = Larger(u[k], v[k])
        /\ \A x \in R : x[k] \in Nat
    BY <1>2, <1>3
  <2>2. /\ \A x \in R : x[k] <= u[k]
        /\ u[k] = 0 \/ \E x \in R : x[k] = u[k]
    BY <1>3 DEF Counted
  <2>3. u[k] <= w[k] /\ v[k] <= w[k] /\ (w[k] = u[k] \/ w[k] = v[k])
    BY <2>1 DEF Larger
  <2>4. \A x \in R : x[k] <= w[k]
    BY <2>1, <2>2, <2>3
  <2> QED
    BY <2>2, <2>3, <2>4
<1>5. DOMAIN w = K
  BY <1>2, <1>3
<1> QED
  BY <1>4, <1>5 DEF Counted, w

\* One block more adds its usage.
LEMMA UsagesOfAppend ==
  ASSUME NEW endpoint, NEW s \in Seq(Seq(AnyLine)), NEW block \in Seq(AnyLine)
  PROVE  Usages(endpoint, Append(s, block)) = Usages(endpoint, s) \cup UsageIn(endpoint, block)
<1> DEFINE T == Seq(AnyLine)
           r == Append(s, block)
           n == Len(s)
<1> HIDE DEF T
<1>1. s \in Seq(T) /\ block \in T
  BY DEF T
<1>2. /\ n \in Nat /\ DOMAIN s = 1..n /\ DOMAIN r = 1..(n + 1)
      /\ r[n + 1] = block /\ \A b \in 1..n : r[b] = s[b]
  BY <1>1
<1> HIDE DEF r, n
<1>3. DOMAIN r = DOMAIN s \cup {n + 1} /\ \A b \in DOMAIN s : r[b] = s[b]
  BY <1>2
<1>4. Usages(endpoint, r) = Usages(endpoint, s) \cup UsageIn(endpoint, block)
  BY <1>2, <1>3 DEF Usages
<1> QED
  BY <1>4 DEF r

\* billing/usage.go: of the usages in the blocks, the parser has the largest of
\* each count.
THEOREM ParsedCounted ==
  ASSUME NEW endpoint, NEW blocks \in Seq(Seq(AnyLine))
  PROVE  /\ Usages(endpoint, blocks) \in SUBSET Counts
         /\ Counted(Parsed(endpoint, blocks), Usages(endpoint, blocks))
<1> DEFINE T == Seq(AnyLine)
           Right(s) == /\ Usages(endpoint, s) \in SUBSET Counts
                       /\ Counted(Parsed(endpoint, s), Usages(endpoint, s))
           Good == {s \in Seq(T) : Right(s)}
<1>1. Right(<< >>)
  <2>1. Usages(endpoint, << >>) = {}
    BY DEF Usages
  <2>2. Parsed(endpoint, << >>) = Zero
    BY ParsedRules
  <2>3. Counted(Zero, {})
    BY DEF Counted, Zero
  <2> QED
    BY <2>1, <2>2, <2>3
<1>2. ASSUME NEW s \in Seq(T), NEW block \in T, Right(s)
      PROVE  Right(Append(s, block))
  <2> DEFINE u == Parsed(endpoint, s)
             R == Usages(endpoint, s)
             r == Append(s, block)
  <2>1. u \in Counts /\ Parsed(endpoint, r) = Frame(endpoint, u, block)
    BY ParsedRules
  <2>2. Usages(endpoint, r) = R \cup UsageIn(endpoint, block)
    BY UsagesOfAppend
  <2>3. R \in SUBSET Counts /\ Counted(u, R)
    BY <1>2
  <2> HIDE DEF u, R, r, T
  <2>4. CASE FramePasses(endpoint, u, block)
    BY <2>1, <2>2, <2>3, <2>4 DEF r, FramePasses
  <2>5. CASE FrameTakes(endpoint, u, block)
    <3>1. PICK v \in Counts : /\ UsageIn(endpoint, block) = {v}
                              /\ Frame(endpoint, u, block) = Take(u, v)
      BY <2>5 DEF FrameTakes
    <3>2. Counted(Take(u, v), R \cup {v})
      BY <2>1, <2>3, TakeCounted
    <3>3. Parsed(endpoint, r) = Take(u, v) /\ Usages(endpoint, r) = R \cup {v}
      BY <2>1, <2>2, <3>1
    <3> QED
      BY <2>3, <3>2, <3>3 DEF r
  <2>6. block \in Seq(AnyLine)
    BY DEF T
  <2> QED
    BY <2>1, <2>4, <2>5, <2>6, FrameOfBlock
<1> HIDE DEF Right, T
<1>3. << >> \in Good
  BY <1>1 DEF Good
<1>4. \A s \in Seq(T), x \in T : s \in Good => Append(s, x) \in Good
  BY <1>2 DEF Good
<1> HIDE DEF Good
<1>5. Seq(T) \subseteq Good
  BY <1>3, <1>4, EverySequence
<1>6. blocks \in Good
  BY <1>5 DEF T
<1> QED
  BY <1>6 DEF Good, Right

-----------------------------------------------------------------------------
(* What teeStream keeps.                                                   *)

NoBlank(lines) == \A i \in DOMAIN lines : lines[i].kind # "blank"
NoMention(lines) == \A i \in DOMAIN lines : ~Mentions(lines[i])

\* The end of a concatenation.
LEMMA AppendToBoth ==
  ASSUME NEW T, NEW s \in Seq(T), NEW e \in Seq(T), NEW x \in T
  PROVE  /\ s \o Append(e, x) = Append(s \o e, x) /\ s \o << >> = s /\ << >> \o s = s
         /\ s \o e \in Seq(T)
  OBVIOUS

\* The lines of an event go on the last block.
LEMMA BlocksOfEvent ==
  ASSUME NEW u \in Seq(AnyLine), NEW event \in Seq(AnyLine), NoBlank(event)
  PROVE  LFBlocks(u \o event) = Append(Front(LFBlocks(u)), Last(LFBlocks(u)) \o event)
<1> DEFINE f == Front(LFBlocks(u))
           l == Last(LFBlocks(u))
           T == Seq(AnyLine)
           Right(e) == NoBlank(e) => LFBlocks(u \o e) = Append(f, l \o e)
           Good == {e \in T : Right(e)}
<1>1. LFBlocks(u) \in Seq(T) /\ LFBlocks(u) # << >>
  BY LineBlocks DEF BlockSeqs
<1>2. f \in Seq(T) /\ l \in T /\ LFBlocks(u) = Append(f, l)
  BY <1>1, FrontAndLast
<1> HIDE DEF f, l, T
<1>3. Right(<< >>)
  BY <1>2, AppendToBoth DEF T
<1>4. ASSUME NEW e \in T, NEW x \in AnyLine, Right(e)
      PROVE  Right(Append(e, x))
  <2> DEFINE r == Append(e, x)
             n == Len(e)
  <2>1. e \in Seq(AnyLine)
    BY DEF T
  <2>2. DOMAIN e = 1..n /\ n \in Nat /\ DOMAIN r = 1..(n + 1) /\ r[n + 1] = x
        /\ \A i \in 1..n : r[i] = e[i]
    BY <2>1
  <2> HIDE DEF r, n
  <2>3. NoBlank(r) => NoBlank(e) /\ x.kind # "blank"
    BY <2>2 DEF NoBlank
  <2>4. u \o r = Append(u \o e, x) /\ u \o e \in Seq(AnyLine)
    BY <2>1, AppendToBoth DEF r
  <2>5. l \o r = Append(l \o e, x) /\ l \o e \in T
    BY <1>2, <2>1, AppendToBoth DEF r, T
  <2>6. LFBlocks(u \o r) = SplitLine(LFBlocks(u \o e), x)
    BY <2>4, LineBlocks
  <2>7. Front(Append(f, l \o e)) = f /\ Last(Append(f, l \o e)) = l \o e
    BY <1>2, <2>5, FrontOfAppend
  <2> HIDE DEF Right
  <2>8. ASSUME NoBlank(r)
        PROVE  LFBlocks(u \o r) = Append(f, l \o r)
    <3>1. LFBlocks(u \o e) = Append(f, l \o e) /\ x.kind # "blank"
      BY <1>4, <2>3, <2>8 DEF Right
    <3> QED
      BY <2>5, <2>6, <2>7, <3>1 DEF SplitLine
  <2> QED
    BY <2>8 DEF Right, r
<1> HIDE DEF Right
<1>5. << >> \in Good
  <2>1. << >> \in T
    BY DEF T
  <2> QED
    BY <1>3, <2>1 DEF Good
<1>6. \A e \in Seq(AnyLine), x \in AnyLine : e \in Good => Append(e, x) \in Good
  <2>1. \A e \in Seq(AnyLine), x \in AnyLine : Append(e, x) \in T
    BY DEF T
  <2> QED
    BY <1>4, <2>1 DEF Good
<1> HIDE DEF Good
<1>7. event \in Good
  BY <1>5, <1>6, EverySequence
<1> QED
  BY <1>7 DEF Good, Right, f, l

\* A line that is not data reports nothing, and one that is its usage.
ReportOf(endpoint, line) ==
  IF line.kind = "data" THEN {UsageOf(endpoint, line)} \ {NoUsage} ELSE {}

\* What a line more adds to the data lines and to what is mentioned.
LEMMA LineMore ==
  ASSUME NEW s \in Seq(AnyLine), NEW x \in AnyLine
  PROVE  /\ x.kind \in {"data", "done"} => DataLines(Append(s, x)) = DataLines(s) \cup {Len(s) + 1}
         /\ x.kind \notin {"data", "done"} => DataLines(Append(s, x)) = DataLines(s)
         /\ NoMention(Append(s, x)) <=> NoMention(s) /\ ~Mentions(x)
<1> DEFINE r == Append(s, x)
           n == Len(s)
<1>1. /\ DOMAIN s = 1..n /\ n \in Nat /\ DOMAIN r = 1..(n + 1) /\ r[n + 1] = x
      /\ \A i \in 1..n : r[i] = s[i]
  OBVIOUS
<1> HIDE DEF r, n
<1>2. DOMAIN r = DOMAIN s \cup {n + 1} /\ (\A i \in DOMAIN s : r[i] = s[i]) /\ r[n + 1] = x
      /\ n + 1 \notin DOMAIN s
  BY <1>1
<1>3. x.kind \in {"data", "done"} => DataLines(r) = DataLines(s) \cup {n + 1}
  BY <1>2 DEF DataLines
<1>4. x.kind \notin {"data", "done"} => DataLines(r) = DataLines(s)
  BY <1>2 DEF DataLines
<1>5. NoMention(r) <=> NoMention(s) /\ ~Mentions(x)
  BY <1>2 DEF NoMention
<1> QED
  BY <1>3, <1>4, <1>5 DEF r, n

\* What a line more adds to what is reported.
LEMMA ReportedMore ==
  ASSUME NEW endpoint, NEW s \in Seq(AnyLine), NEW x \in AnyLine
  PROVE  Reported(endpoint, Append(s, x)) = Reported(endpoint, s) \cup ReportOf(endpoint, x)
<1> DEFINE r == Append(s, x)
           n == Len(s)
<1>1. /\ DOMAIN s = 1..n /\ n \in Nat /\ DOMAIN r = 1..(n + 1) /\ r[n + 1] = x
      /\ \A i \in 1..n : r[i] = s[i]
  OBVIOUS
<1> HIDE DEF r, n
<1>2. DOMAIN r = DOMAIN s \cup {n + 1} /\ (\A i \in DOMAIN s : r[i] = s[i]) /\ r[n + 1] = x
      /\ n + 1 \notin DOMAIN s
  BY <1>1
<1>3. Reported(endpoint, r) = Reported(endpoint, s) \cup ReportOf(endpoint, x)
  <2>1. x.kind # "document"
    BY LineParts
  <2> QED
    BY <1>2, <2>1 DEF Reported, ReportOf
<1> QED
  BY <1>3 DEF r, n

\* What a line more adds to the usage of an event.
LEMMA EventMore ==
  ASSUME NEW endpoint, NEW e \in Seq(AnyLine), NEW x \in AnyLine
  PROVE  /\ x.kind \notin {"data", "done"} =>
              UsageIn(endpoint, Append(e, x)) = UsageIn(endpoint, e)
         /\ DataLines(e) = {} =>
              /\ UsageIn(endpoint, e) = {}
              /\ UsageIn(endpoint, Append(e, x)) = ReportOf(endpoint, x)
         /\ NoMention(e) => UsageIn(endpoint, e) = {}
<1> DEFINE r == Append(e, x)
           n == Len(e)
<1>1. /\ DOMAIN e = 1..n /\ n \in Nat /\ DOMAIN r = 1..(n + 1) /\ r[n + 1] = x
      /\ (\A i \in 1..n : r[i] = e[i]) /\ \A i \in 1..n : e[i] \in AnyLine
  OBVIOUS
<1>2. /\ x.kind \in {"data", "done"} => DataLines(r) = DataLines(e) \cup {n + 1}
      /\ x.kind \notin {"data", "done"} => DataLines(r) = DataLines(e)
  BY LineMore
<1> HIDE DEF r, n
<1>3. DataLines(e) \subseteq DOMAIN e
  BY DEF DataLines
<1>4. ASSUME x.kind \notin {"data", "done"}
      PROVE  UsageIn(endpoint, r) = UsageIn(endpoint, e)
  <2>1. DataLines(r) = DataLines(e)
    BY <1>2, <1>4
  <2>2. ASSUME NEW j, DataLines(r) = {j}
        PROVE  j \in DOMAIN e /\ j \in DOMAIN r /\ r[j] = e[j]
    <3>1. j \in DOMAIN e
      BY <1>3, <2>2, <2>1
    <3> QED
      BY <1>1, <3>1
  <2> DEFINE I == {j \in DOMAIN r : DataLines(r) = {j} /\ r[j].kind = "data"}
             J == {j \in DOMAIN e : DataLines(e) = {j} /\ e[j].kind = "data"}
  <2>3. I = J /\ \A j \in I : r[j] = e[j]
    BY <2>2, <2>1
  <2>4. {UsageOf(endpoint, r[i]) : i \in I} = {UsageOf(endpoint, e[i]) : i \in J}
    <3> HIDE DEF I, J
    <3> QED
      BY <2>3
  <2> QED
    BY <2>4 DEF UsageIn
<1>5. ASSUME DataLines(e) = {}
      PROVE  UsageIn(endpoint, e) = {} /\ UsageIn(endpoint, r) = ReportOf(endpoint, x)
  <2>1. UsageIn(endpoint, e) = {}
    BY <1>5 DEF UsageIn
  <2>2. CASE x.kind \notin {"data", "done"}
    BY <1>4, <2>1, <2>2 DEF ReportOf
  <2>3. CASE x.kind \in {"data", "done"}
    <3>1. DataLines(r) = {n + 1} /\ n + 1 \in DOMAIN r
      BY <1>1, <1>2, <1>5, <2>3
    <3> DEFINE I == {j \in DOMAIN r : DataLines(r) = {j} /\ r[j].kind = "data"}
    <3>2. CASE x.kind = "data"
      <4>1. I = {n + 1}
        BY <1>1, <3>1, <3>2
      <4> HIDE DEF I
      <4>2. {UsageOf(endpoint, r[i]) : i \in I} = {UsageOf(endpoint, x)}
        BY <1>1, <4>1
      <4> QED
        BY <2>1, <3>2, <4>2 DEF UsageIn, ReportOf, I
    <3>3. CASE x.kind = "done"
      <4>1. I = {}
        BY <1>1, <3>1, <3>3
      <4> HIDE DEF I
      <4>2. {UsageOf(endpoint, r[i]) : i \in I} = {}
        BY <4>1
      <4> QED
        BY <2>1, <3>3, <4>2 DEF UsageIn, ReportOf, I
    <3> QED
      BY <2>3, <3>2, <3>3
  <2> QED
    BY <2>2, <2>3
<1>6. ASSUME NoMention(e)
      PROVE  UsageIn(endpoint, e) = {}
  <2>1. \A i \in DOMAIN e : UsageOf(endpoint, e[i]) = NoUsage
    BY <1>1, <1>6, UsageOfType DEF NoMention
  <2> QED
    BY <2>1 DEF UsageIn
<1> QED
  BY <1>4, <1>5, <1>6 DEF r

\* The event in the buffer is the end of what was read, without a blank line.
Ends(s, e) ==
  /\ Len(e) <= Len(s) /\ NoBlank(e)
  /\ \A i \in 1..Len(e) : e[i] = s[(Len(s) - Len(e)) + i]

\* The end stays the end with a line more.
LEMMA EndsMore ==
  ASSUME NEW s \in Seq(AnyLine), NEW e \in Seq(AnyLine), NEW x \in AnyLine,
         Ends(s, e), x.kind # "blank"
  PROVE  Ends(Append(s, x), Append(e, x))
<1> DEFINE r == Append(s, x)
           d == Append(e, x)
           n == Len(s)
           m == Len(e)
<1>1. /\ n \in Nat /\ Len(r) = n + 1 /\ r[n + 1] = x /\ \A i \in 1..n : r[i] = s[i]
      /\ m \in Nat /\ Len(d) = m + 1 /\ d[m + 1] = x /\ \A i \in 1..m : d[i] = e[i]
      /\ DOMAIN d = 1..(m + 1) /\ DOMAIN e = 1..m
  OBVIOUS
<1>2. /\ m <= n /\ NoBlank(e) /\ \A i \in 1..m : e[i] = s[(n - m) + i]
  BY DEF Ends
<1> HIDE DEF r, d, n, m
<1>3. NoBlank(d)
  BY <1>1, <1>2 DEF NoBlank
<1>4. ASSUME NEW i \in 1..(m + 1)
      PROVE  d[i] = r[((n + 1) - (m + 1)) + i]
  <2>1. ((n + 1) - (m + 1)) + i = (n - m) + i
    BY <1>1
  <2>2. CASE i \in 1..m
    <3>1. (n - m) + i \in 1..n
      BY <1>1, <1>2, <2>2
    <3> QED
      BY <1>1, <1>2, <2>1, <2>2, <3>1
  <2>3. CASE i = m + 1
    <3>1. (n - m) + i = n + 1
      BY <1>1, <2>3
    <3> QED
      BY <1>1, <2>1, <2>3, <3>1
  <2> QED
    BY <1>1, <2>2, <2>3
<1>5. m + 1 <= n + 1
  BY <1>1, <1>2
<1> QED
  BY <1>1, <1>3, <1>4, <1>5 DEF Ends, r, d

\* So does nothing.
LEMMA EndsNothing ==
  ASSUME NEW s \in Seq(AnyLine)
  PROVE  Ends(s, << >>)
<1>1. Len(s) \in Nat /\ Len(<< >>) = 0
  OBVIOUS
<1> QED
  BY <1>1 DEF Ends, NoBlank

\* What is well formed is so without its last line, and a data line is the
\* first of its event.
LEMMA OneDataLine ==
  ASSUME NEW s \in Seq(AnyLine), NEW x \in AnyLine, WellFormed(Append(s, x))
  PROVE  /\ WellFormed(s)
         /\ \A e \in Seq(AnyLine) :
              Ends(s, e) /\ x.kind \in {"data", "done"} => DataLines(e) = {}
<1> DEFINE r == Append(s, x)
           n == Len(s)
<1>1. /\ n \in Nat /\ DOMAIN s = 1..n /\ DOMAIN r = 1..(n + 1) /\ r[n + 1] = x
      /\ \A i \in 1..n : r[i] = s[i]
  OBVIOUS
<1>2. \A i, j \in DataLines(r) : i < j => \E b \in i..j : r[b].kind = "blank"
  BY DEF WellFormed
<1> HIDE DEF r, n
<1>3. WellFormed(s)
  <2> SUFFICES ASSUME NEW i \in DataLines(s), NEW j \in DataLines(s), i < j
               PROVE  \E b \in i..j : s[b].kind = "blank"
    BY DEF WellFormed
  <2>1. i \in 1..n /\ j \in 1..n
    BY <1>1 DEF DataLines
  <2>2. i \in DataLines(r) /\ j \in DataLines(r)
    BY <1>1 DEF DataLines
  <2>3. PICK b \in i..j : r[b].kind = "blank"
    BY <1>2, <2>2
  <2>4. b \in 1..n
    BY <1>1, <2>1
  <2> QED
    BY <1>1, <2>3, <2>4
<1>4. ASSUME NEW e \in Seq(AnyLine), Ends(s, e), x.kind \in {"data", "done"}, NEW j \in DataLines(e)
      PROVE  FALSE
  <2> DEFINE m == Len(e)
             i == (n - m) + j
  <2>1. m \in Nat /\ DOMAIN e = 1..m
    OBVIOUS
  <2>2. m <= n /\ NoBlank(e) /\ \A k \in 1..m : e[k] = s[(n - m) + k]
    BY <1>4 DEF Ends, n
  <2> HIDE DEF m
  <2>3. j \in 1..m /\ e[j].kind \in {"data", "done"}
    BY <1>4, <2>1 DEF DataLines
  <2>4. i \in 1..n /\ i < n + 1 /\ n + 1 \in 1..(n + 1) /\ i \in 1..(n + 1)
    BY <1>1, <2>1, <2>2, <2>3
  <2>5. r[i] = e[j]
    BY <1>1, <2>2, <2>3, <2>4
  <2>6. i \in DataLines(r) /\ n + 1 \in DataLines(r)
    BY <1>1, <1>4, <2>3, <2>4, <2>5 DEF DataLines
  <2>7. PICK b \in i..(n + 1) : r[b].kind = "blank"
    BY <1>2, <2>4, <2>6
  <2>8. b # n + 1
    BY <1>1, <1>4, <2>7
  <2> DEFINE k == b - (n - m)
  <2>9. k \in 1..m /\ b \in 1..n /\ (n - m) + k = b
    BY <1>1, <2>1, <2>2, <2>3, <2>4, <2>7, <2>8
  <2> HIDE DEF k
  <2>10. e[k] = r[b]
    BY <1>1, <2>2, <2>9
  <2> QED
    BY <2>1, <2>2, <2>7, <2>9, <2>10 DEF NoBlank
<1> QED
  BY <1>3, <1>4 DEF r

\* What teeStream does with a line, by its parts.
LEMMA TeeSteps ==
  ASSUME NEW s \in Seq(AnyLine), NEW x \in AnyLine
  PROVE  LET u == Tee(s).usageBuf
             e == Tee(s).eventBuf
             t == Tee(Append(s, x))
         IN  /\ u \in Seq(AnyLine) /\ e \in Seq(AnyLine)
             /\ x.kind # "blank" => t.usageBuf = u /\ t.eventBuf = Append(e, x)
             /\ x.kind = "blank" =>
                  /\ t.eventBuf = << >>
                  /\ t.usageBuf = IF NoMention(Append(e, x)) THEN u ELSE u \o Append(e, x)
<1> DEFINE t == Tee(s)
           u == t.usageBuf
           e == t.eventBuf
           d == Append(e, x)
           w == [t EXCEPT !.eventBuf = Append(@, x)]
<1>1. t \in TeeStates
  BY TeeRules
<1>2. Tee(Append(s, x)) = ReadLine(t, x)
  BY TeeRules
<1> HIDE DEF t
<1>3. u \in Seq(AnyLine) /\ e \in Seq(AnyLine)
  BY <1>1 DEF TeeStates
<1>4. w.usageBuf = u /\ w.eventBuf = d
  <2> HIDE DEF d
  <2>1. [t EXCEPT !.eventBuf = d].usageBuf = u /\ [t EXCEPT !.eventBuf = d].eventBuf = d
    BY <1>1 DEF TeeStates
  <2> QED
    BY <2>1 DEF d
<1>5. ReadLine(t, x) = IF x.kind = "blank" THEN flushEvent(w) ELSE w
  BY DEF ReadLine
<1> HIDE DEF w, d, u, e
<1>6. flushEvent(w).eventBuf = << >> /\ flushEvent(w).usageBuf = IF NoMention(d) THEN u ELSE u \o d
  <2>1. flushEvent(w) = [usageBuf |-> IF \E i \in DOMAIN d : Mentions(d[i]) THEN u \o d ELSE u,
                         eventBuf |-> << >>]
    BY <1>4 DEF flushEvent
  <2> QED
    BY <2>1 DEF NoMention
<1>7. CASE x.kind = "blank"
  BY <1>2, <1>3, <1>5, <1>6, <1>7 DEF d, e, u, t
<1>8. CASE x.kind # "blank"
  BY <1>2, <1>3, <1>4, <1>5, <1>8 DEF d, e, u, t
<1> QED
  BY <1>7, <1>8

\* An event that follows whole blocks is a block, with the blank line or without.
LEMMA EventIsBlock ==
  ASSUME NEW endpoint, NEW u \in Seq(AnyLine), NEW e \in Seq(AnyLine), NEW x \in AnyLine,
         NoBlank(e), Last(LFBlocks(u)) = << >>, x.kind = "blank"
  PROVE  /\ Usages(endpoint, LFBlocks(u \o e))
              = Usages(endpoint, LFBlocks(u)) \cup UsageIn(endpoint, e)
         /\ Usages(endpoint, LFBlocks(u \o Append(e, x)))
              = Usages(endpoint, LFBlocks(u)) \cup UsageIn(endpoint, e)
         /\ Last(LFBlocks(u \o Append(e, x))) = << >>
<1> DEFINE f == Front(LFBlocks(u))
           none == << >>
           T == Seq(AnyLine)
<1>1. LFBlocks(u) \in Seq(T) /\ LFBlocks(u) # << >>
  BY LineBlocks DEF BlockSeqs
<1>2. none \in T /\ none \o e = e /\ e \in T
  BY AppendToBoth
<1>3. f \in Seq(T) /\ LFBlocks(u) = Append(f, none)
  BY <1>1, FrontAndLast
<1>4. LFBlocks(u \o e) = Append(f, e)
  <2>1. LFBlocks(u \o e) = Append(f, Last(LFBlocks(u)) \o e)
    BY BlocksOfEvent
  <2> HIDE DEF f
  <2> QED
    BY <1>2, <2>1
<1>5. LFBlocks(u \o Append(e, x)) = Append(Append(f, e), none)
  <2>1. u \o Append(e, x) = Append(u \o e, x) /\ u \o e \in Seq(AnyLine)
    BY AppendToBoth
  <2>2. LFBlocks(u \o Append(e, x)) = SplitLine(LFBlocks(u \o e), x)
    BY <2>1, LineBlocks
  <2> QED
    BY <1>4, <2>2 DEF SplitLine
<1>6. UsageIn(endpoint, none) = {}
  BY DEF UsageIn
<1> HIDE DEF f, none
<1>7. /\ Usages(endpoint, Append(f, none)) = Usages(endpoint, f) \cup UsageIn(endpoint, none)
      /\ Usages(endpoint, Append(f, e)) = Usages(endpoint, f) \cup UsageIn(endpoint, e)
  BY <1>2, <1>3, UsagesOfAppend
<1> HIDE DEF T
<1>8. Append(f, e) \in Seq(T)
  BY <1>2, <1>3
<1> DEFINE d == Append(f, e)
<1> HIDE DEF d
<1>9. Usages(endpoint, Append(d, none)) = Usages(endpoint, d) \cup UsageIn(endpoint, none)
  BY <1>2, <1>8, UsagesOfAppend DEF d, T
<1>10. Last(Append(d, none)) = none
  BY <1>2, <1>8, FrontOfAppend DEF d
<1> QED
  BY <1>3, <1>4, <1>5, <1>6, <1>7, <1>9, <1>10 DEF d, none

\* One line mentions usage at most.
OneMentionAt(lines) ==
  \A i, j \in DOMAIN lines : Mentions(lines[i]) /\ Mentions(lines[j]) => i = j

LEMMA OneMentionPlaces ==
  ASSUME NEW s \in Seq(AnyLine), OneMention(s)
  PROVE  OneMentionAt(s)
<1> SUFFICES ASSUME NEW i \in DOMAIN s, NEW j \in DOMAIN s,
                    Mentions(s[i]), Mentions(s[j]), i # j
             PROVE  FALSE
  BY DEF OneMentionAt
<1> DEFINE M == {k \in DOMAIN s : Mentions(s[k])}
<1>1. IsFiniteSet(1..Len(s))
  BY FS_Interval
<1>2. M \subseteq 1..Len(s)
  OBVIOUS
<1> HIDE DEF M
<1>3. IsFiniteSet(M)
  BY <1>1, <1>2, FS_Subset
<1> DEFINE P == {i} \cup {j}
<1>4. P \subseteq M
  BY DEF M
<1>5. Cardinality(P) = 2
  <2>1. IsFiniteSet({i}) /\ Cardinality({i}) = 1
    BY FS_Singleton
  <2>2. Cardinality(P) = Cardinality({i}) + 1
    BY <2>1, FS_AddElement
  <2> HIDE DEF P
  <2> QED
    BY <2>1, <2>2
<1> HIDE DEF P
<1>6. Cardinality(P) <= Cardinality(M)
  BY <1>3, <1>4, FS_Subset
<1>7. Cardinality(M) \in Nat
  BY <1>3, FS_CardinalityType
<1> QED
  BY <1>6, <1>5, <1>7 DEF OneMention, M

\* The buffers of teeStream and what they have of what was reported.  In a CRLF
\* stream all that is kept is one block, so only one event may be kept.
KeptLF(endpoint, s, u, e) ==
  /\ Last(LFBlocks(u)) = << >>
  /\ Usages(endpoint, LFBlocks(u)) \cup UsageIn(endpoint, e) = Reported(endpoint, s)
KeptCRLF(endpoint, s, u, e) ==
  /\ UsageIn(endpoint, u) \cup UsageIn(endpoint, e) = Reported(endpoint, s)
  /\ u = << >> \/ \E i \in 1..(Len(s) - Len(e)) : Mentions(s[i])
Kept(endpoint, s, u, e) ==
  /\ Ends(s, e)
  /\ KeptLF(endpoint, s, u, e)
  /\ OneMentionAt(s) => KeptCRLF(endpoint, s, u, e)

\* If an event is kept already, the next has nothing to keep.
LEMMA SecondEvent ==
  ASSUME NEW s \in Seq(AnyLine), NEW e \in Seq(AnyLine), Ends(s, e), OneMentionAt(s),
         \E i \in 1..(Len(s) - Len(e)) : Mentions(s[i])
  PROVE  NoMention(e)
<1> DEFINE n == Len(s)
           m == Len(e)
<1>1. n \in Nat /\ m \in Nat /\ DOMAIN s = 1..n /\ DOMAIN e = 1..m
  OBVIOUS
<1>2. m <= n /\ \A j \in 1..m : e[j] = s[(n - m) + j]
  BY DEF Ends
<1>3. PICK i \in 1..(n - m) : Mentions(s[i])
  OBVIOUS
<1> HIDE DEF n, m
<1>4. ASSUME NEW j \in 1..m, Mentions(e[j])
      PROVE  FALSE
  <2>1. i \in 1..n /\ (n - m) + j \in 1..n /\ i # (n - m) + j
    BY <1>1, <1>2
  <2> QED
    BY <1>1, <1>2, <1>3, <1>4, <2>1 DEF OneMentionAt
<1> QED
  BY <1>1, <1>4 DEF NoMention

\* A stream without its last line mentions usage no more often.
LEMMA OneMentionBefore ==
  ASSUME NEW s \in Seq(AnyLine), NEW x \in AnyLine, OneMentionAt(Append(s, x))
  PROVE  /\ OneMentionAt(s)
         /\ \A i \in DOMAIN s : Mentions(s[i]) => ~Mentions(x)
<1> DEFINE r == Append(s, x)
           n == Len(s)
<1>1. /\ n \in Nat /\ DOMAIN s = 1..n /\ DOMAIN r = 1..(n + 1) /\ r[n + 1] = x
      /\ \A i \in 1..n : r[i] = s[i]
  OBVIOUS
<1> HIDE DEF r, n
<1>2. \A i \in 1..n : i \in DOMAIN r /\ i # n + 1
  BY <1>1
<1>3. n + 1 \in DOMAIN r
  BY <1>1
<1>4. OneMentionAt(r)
  BY DEF r
<1> QED
  BY <1>1, <1>2, <1>3, <1>4 DEF OneMentionAt

\* A line that ends no event goes to the event.
LEMMA KeptInside ==
  ASSUME NEW endpoint, NEW s \in Seq(AnyLine), NEW u \in Seq(AnyLine), NEW e \in Seq(AnyLine),
         NEW x \in AnyLine, x.kind # "blank", WellFormed(Append(s, x)), Kept(endpoint, s, u, e)
  PROVE  Kept(endpoint, Append(s, x), u, Append(e, x))
<1> DEFINE r == Append(s, x)
           d == Append(e, x)
<1>1. Ends(s, e) /\ KeptLF(endpoint, s, u, e)
      /\ (OneMentionAt(s) => KeptCRLF(endpoint, s, u, e))
  BY DEF Kept
<1>2. Ends(r, d)
  BY <1>1, EndsMore
<1>3. UsageIn(endpoint, d) = UsageIn(endpoint, e) \cup ReportOf(endpoint, x)
  <2>1. CASE x.kind \in {"data", "done"}
    <3>1. DataLines(e) = {}
      BY <1>1, <2>1, OneDataLine
    <3> QED
      BY <3>1, EventMore
  <2>2. CASE x.kind \notin {"data", "done"}
    <3>1. ReportOf(endpoint, x) = {}
      BY <2>2 DEF ReportOf
    <3> QED
      BY <2>2, <3>1, EventMore
  <2> QED
    BY <2>1, <2>2
<1>4. Reported(endpoint, r) = Reported(endpoint, s) \cup ReportOf(endpoint, x)
  BY ReportedMore
<1>5. /\ Len(r) - Len(d) = Len(s) - Len(e) /\ Len(s) - Len(e) \in Int
      /\ \A i \in 1..Len(s) : r[i] = s[i]
      /\ Len(s) \in Nat /\ Len(e) \in Nat
  OBVIOUS
<1>6. OneMentionAt(r) => OneMentionAt(s)
  BY OneMentionBefore
<1> HIDE DEF r, d
<1>7. KeptLF(endpoint, r, u, d)
  BY <1>1, <1>3, <1>4 DEF KeptLF
<1>8. ASSUME OneMentionAt(r)
      PROVE  KeptCRLF(endpoint, r, u, d)
  <2>1. KeptCRLF(endpoint, s, u, e)
    BY <1>1, <1>6, <1>8
  <2>2. UsageIn(endpoint, u) \cup UsageIn(endpoint, d) = Reported(endpoint, r)
    BY <1>3, <1>4, <2>1 DEF KeptCRLF
  <2>3. \A i \in 1..(Len(s) - Len(e)) : i \in 1..Len(s)
    BY <1>5
  <2>4. u = << >> \/ \E i \in 1..(Len(r) - Len(d)) : Mentions(r[i])
    BY <1>5, <2>1, <2>3 DEF KeptCRLF
  <2> QED
    BY <2>2, <2>4 DEF KeptCRLF
<1> QED
  BY <1>2, <1>7, <1>8 DEF Kept, r, d

\* A blank line ends the event.
LEMMA KeptAtEnd ==
  ASSUME NEW endpoint, NEW s \in Seq(AnyLine), NEW u \in Seq(AnyLine), NEW e \in Seq(AnyLine),
         NEW x \in AnyLine, x.kind = "blank", Kept(endpoint, s, u, e)
  PROVE  LET d == Append(e, x)
         IN  Kept(endpoint, Append(s, x), IF NoMention(d) THEN u ELSE u \o d, << >>)
<1> DEFINE r == Append(s, x)
           d == Append(e, x)
           none == << >>
           v == IF NoMention(d) THEN u ELSE u \o d
<1>1. Ends(s, e) /\ KeptLF(endpoint, s, u, e)
      /\ (OneMentionAt(s) => KeptCRLF(endpoint, s, u, e)) /\ NoBlank(e)
  BY DEF Kept, Ends
<1>2. r \in Seq(AnyLine) /\ d \in Seq(AnyLine) /\ none \in Seq(AnyLine)
  OBVIOUS
<1>3. Ends(r, none)
  BY <1>2, EndsNothing
<1>4. ReportOf(endpoint, x) = {} /\ ~Mentions(x)
  BY LineParts DEF ReportOf
<1>5. Reported(endpoint, r) = Reported(endpoint, s)
  <2>1. Reported(endpoint, r) = Reported(endpoint, s) \cup ReportOf(endpoint, x)
    BY ReportedMore
  <2> QED
    BY <1>4, <2>1
<1>6. UsageIn(endpoint, d) = UsageIn(endpoint, e) /\ (NoMention(d) <=> NoMention(e))
      /\ (NoMention(e) => UsageIn(endpoint, e) = {})
  BY <1>4, EventMore, LineMore
<1>7. UsageIn(endpoint, none) = {}
  BY DEF UsageIn
<1>8. OneMentionAt(r) => OneMentionAt(s)
  BY OneMentionBefore
<1>9. /\ Len(r) = Len(s) + 1 /\ Len(none) = 0 /\ Len(s) \in Nat /\ Len(e) \in Nat
      /\ DOMAIN e = 1..Len(e) /\ \A i \in 1..Len(s) : r[i] = s[i]
  OBVIOUS
<1>10. none \o d = d
  BY <1>2, AppendToBoth
<1>11. /\ Usages(endpoint, LFBlocks(u \o d))
            = Usages(endpoint, LFBlocks(u)) \cup UsageIn(endpoint, e)
       /\ Last(LFBlocks(u \o d)) = none
  BY <1>1, EventIsBlock DEF KeptLF
<1> HIDE DEF r, d, none
<1>12. KeptLF(endpoint, r, v, none)
  <2>1. CASE NoMention(d)
    BY <1>1, <1>5, <1>6, <1>7, <2>1 DEF KeptLF
  <2>2. CASE ~NoMention(d)
    BY <1>1, <1>5, <1>7, <1>11, <2>2 DEF KeptLF, none
  <2> QED
    BY <2>1, <2>2
<1>13. ASSUME OneMentionAt(r)
       PROVE  KeptCRLF(endpoint, r, v, none)
  <2>1. KeptCRLF(endpoint, s, u, e) /\ OneMentionAt(s)
    BY <1>1, <1>8, <1>13
  <2>2. CASE NoMention(d)
    <3>1. UsageIn(endpoint, u) \cup UsageIn(endpoint, none) = Reported(endpoint, r)
      BY <1>5, <1>6, <1>7, <2>1, <2>2 DEF KeptCRLF
    <3>2. \A i \in 1..(Len(s) - Len(e)) : i \in 1..(Len(r) - Len(none)) /\ i \in 1..Len(s)
      BY <1>9
    <3>3. u = << >> \/ \E i \in 1..(Len(r) - Len(none)) : Mentions(r[i])
      BY <1>9, <2>1, <3>2 DEF KeptCRLF
    <3> QED
      BY <2>2, <3>1, <3>3 DEF KeptCRLF
  <2>3. CASE ~NoMention(d)
    <3>1. u = << >>
      BY <1>1, <1>6, <2>1, <2>3, SecondEvent DEF KeptCRLF
    <3>2. v = d
      BY <1>10, <2>3, <3>1 DEF none
    <3>3. UsageIn(endpoint, d) \cup UsageIn(endpoint, none) = Reported(endpoint, r)
      BY <1>5, <1>6, <1>7, <2>1, <3>1 DEF KeptCRLF, none
    <3>4. PICK j \in 1..Len(e) : Mentions(e[j])
      BY <1>6, <1>9, <2>3 DEF NoMention
    <3>5. e[j] = s[(Len(s) - Len(e)) + j] /\ Len(e) <= Len(s)
      BY <1>1 DEF Ends
    <3>6. (Len(s) - Len(e)) + j \in 1..Len(s) /\ (Len(s) - Len(e)) + j \in 1..(Len(r) - Len(none))
      BY <1>9, <3>5
    <3>7. \E i \in 1..(Len(r) - Len(none)) : Mentions(r[i])
      BY <1>9, <3>4, <3>5, <3>6
    <3> HIDE DEF v
    <3> QED
      BY <3>2, <3>3, <3>7 DEF KeptCRLF
  <2> QED
    BY <2>2, <2>3
<1> HIDE DEF v
<1>14. Kept(endpoint, r, v, none)
  BY <1>3, <1>12, <1>13 DEF Kept
<1> QED
  BY <1>14 DEF r, d, none, v

\* teeStream: at every line, all that the stream reported is in the blocks that
\* are kept or in the event in the buffer.
THEOREM StreamKept ==
  ASSUME NEW endpoint, NEW lines \in Seq(AnyLine), WellFormed(lines)
  PROVE  Kept(endpoint, lines, Tee(lines).usageBuf, Tee(lines).eventBuf)
<1> DEFINE Right(s) == WellFormed(s) => Kept(endpoint, s, Tee(s).usageBuf, Tee(s).eventBuf)
           Good == {s \in Seq(AnyLine) : Right(s)}
           none == << >>
<1>1. none \in Seq(AnyLine)
  OBVIOUS
<1>2. Right(none)
  <2>1. Tee(none).usageBuf = none /\ Tee(none).eventBuf = none
    BY TeeRules DEF Start
  <2>2. UsageIn(endpoint, none) = {} /\ Reported(endpoint, none) = {}
    BY DEF UsageIn, Reported
  <2>3. LFBlocks(none) = <<none>> /\ Last(<<none>>) = none
    BY LineBlocks DEF Last
  <2>4. Usages(endpoint, <<none>>) = UsageIn(endpoint, none)
    <3> HIDE DEF none
    <3>1. DOMAIN <<none>> = {1} /\ <<none>>[1] = none
      OBVIOUS
    <3> QED
      BY <3>1 DEF Usages
  <2>5. Ends(none, none)
    BY <1>1, EndsNothing
  <2> HIDE DEF none
  <2>6. KeptLF(endpoint, none, none, none)
    BY <2>2, <2>3, <2>4 DEF KeptLF, none
  <2>7. KeptCRLF(endpoint, none, none, none)
    BY <2>2 DEF KeptCRLF, none
  <2> QED
    BY <2>1, <2>5, <2>6, <2>7 DEF Kept
<1>3. ASSUME NEW s \in Seq(AnyLine), NEW x \in AnyLine, Right(s), WellFormed(Append(s, x))
      PROVE  Kept(endpoint, Append(s, x), Tee(Append(s, x)).usageBuf, Tee(Append(s, x)).eventBuf)
  <2> DEFINE u == Tee(s).usageBuf
             e == Tee(s).eventBuf
  <2>1. Kept(endpoint, s, u, e)
    BY <1>3, OneDataLine
  <2>2. u \in Seq(AnyLine) /\ e \in Seq(AnyLine)
    BY TeeSteps
  <2>3. CASE x.kind = "blank"
    <3>1. /\ Tee(Append(s, x)).eventBuf = << >>
          /\ Tee(Append(s, x)).usageBuf = IF NoMention(Append(e, x)) THEN u ELSE u \o Append(e, x)
      BY <2>3, TeeSteps
    <3> HIDE DEF u, e
    <3>2. Kept(endpoint, Append(s, x),
               IF NoMention(Append(e, x)) THEN u ELSE u \o Append(e, x), << >>)
      BY <2>1, <2>2, <2>3, KeptAtEnd
    <3> QED
      BY <3>1, <3>2
  <2>4. CASE x.kind # "blank"
    <3>1. Tee(Append(s, x)).usageBuf = u /\ Tee(Append(s, x)).eventBuf = Append(e, x)
      BY <2>4, TeeSteps
    <3> HIDE DEF u, e
    <3>2. Kept(endpoint, Append(s, x), u, Append(e, x))
      BY <1>3, <2>1, <2>2, <2>4, KeptInside
    <3> QED
      BY <3>1, <3>2
  <2> QED
    BY <2>3, <2>4
<1>4. \A s \in Seq(AnyLine), x \in AnyLine : Append(s, x) \in Seq(AnyLine)
  OBVIOUS
<1>5. \A s \in Seq(AnyLine), x \in AnyLine : s \in Good => Append(s, x) \in Good
  BY <1>3, <1>4
<1>6. none \in Good
  BY <1>1, <1>2
<1> HIDE DEF Good
<1>7. lines \in Good
  BY <1>5, <1>6, EverySequence
<1> QED
  BY <1>7 DEF Good

\* What is handed to the parser.
LEMMA TeeStreamParts ==
  ASSUME NEW lines \in Seq(AnyLine)
  PROVE  LET u == Tee(lines).usageBuf
             e == Tee(lines).eventBuf
         IN  /\ u \in Seq(AnyLine) /\ e \in Seq(AnyLine)
             /\ teeStream(lines) = IF NoMention(e) THEN u ELSE u \o e
<1>1. Tee(lines) \in TeeStates
  BY TeeRules
<1>2. teeStream(lines) = flushEvent(Tee(lines)).usageBuf
  BY DEF teeStream, AtEnd, Tee, Start
<1> DEFINE t == Tee(lines)
<1> HIDE DEF t
<1>3. t.usageBuf \in Seq(AnyLine) /\ t.eventBuf \in Seq(AnyLine)
  BY <1>1 DEF TeeStates, t
<1>4. flushEvent(t).usageBuf = IF NoMention(t.eventBuf) THEN t.usageBuf ELSE t.usageBuf \o t.eventBuf
  BY DEF flushEvent, NoMention
<1> QED
  BY <1>2, <1>3, <1>4 DEF t

\* The blocks that are parsed have all that the stream reported.
LEMMA BlocksKept ==
  ASSUME NEW endpoint, NEW lines \in Seq(AnyLine), NEW crlf \in BOOLEAN, WellFormed(lines),
         crlf => OneMention(lines)
  PROVE  /\ teeStream(lines) \in Seq(AnyLine)
         /\ Usages(endpoint, Blocks(teeStream(lines), crlf)) = Reported(endpoint, lines)
<1> DEFINE u == Tee(lines).usageBuf
           e == Tee(lines).eventBuf
           w == teeStream(lines)
<1>1. u \in Seq(AnyLine) /\ e \in Seq(AnyLine) /\ w = IF NoMention(e) THEN u ELSE u \o e
  BY TeeStreamParts
<1>2. Kept(endpoint, lines, u, e)
  BY StreamKept
<1> HIDE DEF u, e, w
<1>3. u \o e \in Seq(AnyLine) /\ << >> \o e = e
  BY <1>1, AppendToBoth
<1>4. NoMention(e) => UsageIn(endpoint, e) = {}
  <2>1. Blank \in AnyLine
    BY DEF AnyLine
  <2> QED
    BY <1>1, <2>1, EventMore
<1>5. CASE crlf
  <2>1. KeptCRLF(endpoint, lines, u, e)
    BY <1>2, <1>5, OneMentionPlaces DEF Kept
  <2>2. ~NoMention(e) => u = << >>
    BY <1>1, <1>2, <1>5, <2>1, OneMentionPlaces, SecondEvent DEF Kept, KeptCRLF
  <2>3. UsageIn(endpoint, << >>) = {}
    BY DEF UsageIn
  <2>4. UsageIn(endpoint, w) = Reported(endpoint, lines)
    <3>1. CASE NoMention(e)
      BY <1>1, <1>4, <2>1, <3>1 DEF KeptCRLF
    <3>2. CASE ~NoMention(e)
      BY <1>1, <1>3, <2>1, <2>2, <2>3, <3>2 DEF KeptCRLF
    <3> QED
      BY <3>1, <3>2
  <2>5. Usages(endpoint, <<w>>) = UsageIn(endpoint, w)
    <3>1. DOMAIN <<w>> = {1} /\ <<w>>[1] = w
      OBVIOUS
    <3> QED
      BY <3>1 DEF Usages
  <2>6. Blocks(w, crlf) = <<w>>
    BY <1>5 DEF Blocks
  <2> QED
    BY <1>1, <1>3, <2>4, <2>5, <2>6 DEF w
<1>6. CASE ~crlf
  <2>1. KeptLF(endpoint, lines, u, e) /\ NoBlank(e)
    BY <1>2 DEF Kept, Ends
  <2>2. Blank \in AnyLine /\ Blank.kind = "blank"
    BY DEF AnyLine, Blank
  <2>3. Usages(endpoint, LFBlocks(u \o e))
          = Usages(endpoint, LFBlocks(u)) \cup UsageIn(endpoint, e)
    BY <1>1, <2>1, <2>2, EventIsBlock DEF KeptLF
  <2>4. Usages(endpoint, LFBlocks(w)) = Reported(endpoint, lines)
    <3>1. CASE NoMention(e)
      BY <1>1, <1>4, <2>1, <3>1 DEF KeptLF
    <3>2. CASE ~NoMention(e)
      BY <1>1, <2>1, <2>3, <3>2 DEF KeptLF
    <3> QED
      BY <3>1, <3>2
  <2>5. Blocks(w, crlf) = LFBlocks(w)
    BY <1>6 DEF LFBlocks
  <2> QED
    BY <1>1, <1>3, <2>4, <2>5 DEF w
<1> QED
  BY <1>5, <1>6

\* If no block has a payload, none has a usage.
LEMMA NoPayload ==
  ASSUME NEW endpoint, NEW w, NEW crlf, ~HasPayloads(w, crlf)
  PROVE  Usages(endpoint, Blocks(w, crlf)) = {}
<1> DEFINE bs == Blocks(w, crlf)
<1>1. \A b \in DOMAIN bs : DataLines(bs[b]) = {} \/ OnlyDone(bs[b])
  BY DEF HasPayloads
<1> HIDE DEF bs
<1>2. ASSUME NEW b \in DOMAIN bs
      PROVE  UsageIn(endpoint, bs[b]) = {}
  <2> DEFINE block == bs[b]
  <2> HIDE DEF block
  <2>1. CASE DataLines(block) = {}
    BY <2>1 DEF UsageIn, block
  <2>2. CASE OnlyDone(block)
    <3>1. PICK i \in DOMAIN block : DataLines(block) = {i} /\ block[i].kind = "done"
      BY <2>2 DEF OnlyDone
    <3>2. \A j : DataLines(block) = {j} => j = i
      BY <3>1
    <3>3. {j \in DOMAIN block : DataLines(block) = {j} /\ block[j].kind = "data"} = {}
      BY <3>1, <3>2
    <3> QED
      BY <3>3 DEF UsageIn, block
  <2> QED
    BY <1>1, <2>1, <2>2 DEF block
<1> QED
  BY <1>2 DEF Usages, bs

\* usage.go: the parser has the largest of each count in its blocks, or nothing.
LEMMA ParseCounted ==
  ASSUME NEW endpoint, NEW w \in Seq(AnyLine), NEW crlf \in BOOLEAN
  PROVE  Counted(parseUsage(endpoint, w, crlf), Usages(endpoint, Blocks(w, crlf)))
<1>1. Blocks(w, crlf) \in Seq(Seq(AnyLine))
  <2>1. CASE crlf
    <3>1. Blocks(w, crlf) = <<w>>
      BY <2>1 DEF Blocks
    <3> DEFINE T == Seq(AnyLine)
    <3>2. w \in T
      OBVIOUS
    <3> HIDE DEF T
    <3>3. <<w>> \in Seq(T)
      BY <3>2
    <3> QED
      BY <3>1, <3>3 DEF T
  <2>2. CASE ~crlf
    <3>1. Blocks(w, crlf) = LFBlocks(w)
      BY <2>2 DEF LFBlocks
    <3> QED
      BY <3>1, LineBlocks DEF BlockSeqs
  <2> QED
    BY <2>1, <2>2
<1>2. CASE HasPayloads(w, crlf)
  <2>1. parseUsage(endpoint, w, crlf) = Parsed(endpoint, Blocks(w, crlf))
    BY <1>2 DEF parseUsage, Parsed
  <2> QED
    BY <1>1, <2>1, ParsedCounted
<1>3. CASE ~HasPayloads(w, crlf)
  <2>1. Len(w) = 1 => w[1].kind # "document"
    <3>1. Len(w) = 1 => w[1] \in AnyLine
      OBVIOUS
    <3> QED
      BY <3>1, LineParts
  <2>2. parseUsage(endpoint, w, crlf) = Zero
    BY <1>3, <2>1 DEF parseUsage
  <2>3. Counted(Zero, {})
    BY DEF Counted, Zero
  <2> QED
    BY <1>3, <2>2, <2>3, NoPayload
<1> QED
  BY <1>2, <1>3

\* forward.go and usage.go: of a stream of any length, with any counts, every
\* event of which has one data line at most, what is counted is the largest of
\* each kind that it reported; if it has carriage returns, when one line
\* mentions usage at most.
THEOREM StreamCounted ==
  ASSUME NEW endpoint, NEW lines \in Seq(AnyLine), NEW crlf \in BOOLEAN, WellFormed(lines),
         crlf => OneMention(lines)
  PROVE  Counted(parseUsage(endpoint, teeStream(lines), crlf), Reported(endpoint, lines))
<1> DEFINE w == teeStream(lines)
<1>1. w \in Seq(AnyLine) /\ Usages(endpoint, Blocks(w, crlf)) = Reported(endpoint, lines)
  BY BlocksKept
<1> HIDE DEF w
<1>2. Counted(parseUsage(endpoint, w, crlf), Usages(endpoint, Blocks(w, crlf)))
  BY <1>1, ParseCounted
<1> QED
  BY <1>1, <1>2 DEF w

\* A document of any counts has its usage counted.
THEOREM DocumentCounted ==
  ASSUME NEW endpoint, NEW top \in AnyUsage
  PROVE  Counted(parseUsage(endpoint, <<Document(top)>>, FALSE),
                 Reported(endpoint, <<Document(top)>>))
<1> DEFINE doc == Document(top)
           w == <<doc>>
           none == << >>
           bs == Blocks(w, FALSE)
<1>1. doc.kind = "document" /\ doc.top = top /\ doc.nested = NoUsage
  BY DEF Document
<1> HIDE DEF doc
<1>2. DOMAIN w = {1} /\ w[1] = doc /\ Len(w) = 1 /\ w = Append(none, doc)
      /\ none \in Seq({doc}) /\ doc \in {doc}
  OBVIOUS
<1>3. UsageOf(endpoint, doc) = top
  BY <1>1 DEF UsageOf
<1>4. bs = <<w>>
  <2>1. LFBlocks(w) = SplitLine(LFBlocks(none), doc) /\ LFBlocks(none) = <<none>>
    BY <1>2, BlocksRules
  <2>2. Front(<<none>>) = << >> /\ Last(<<none>>) = none
    <3> DEFINE T == Seq({doc})
    <3>1. none \in T /\ << >> \in Seq(T)
      OBVIOUS
    <3> HIDE DEF none, T
    <3>2. Append(<< >>, none) = <<none>>
      BY <3>1
    <3> QED
      BY <3>1, <3>2, FrontOfAppend
  <2> HIDE DEF none, w
  <2>3. SplitLine(<<none>>, doc) = Append(<< >>, w)
    BY <1>1, <1>2, <2>2 DEF SplitLine
  <2>4. Append(<< >>, w) = <<w>>
    OBVIOUS
  <2> QED
    BY <2>1, <2>3, <2>4 DEF LFBlocks
<1>5. DataLines(w) = {}
  BY <1>1, <1>2 DEF DataLines
<1> HIDE DEF w, bs
<1>6. DOMAIN bs = {1} /\ bs[1] = w
  <2>1. DOMAIN <<w>> = {1} /\ <<w>>[1] = w
    OBVIOUS
  <2> QED
    BY <1>4, <2>1
<1>7. ~HasPayloads(w, FALSE)
  BY <1>5, <1>6 DEF HasPayloads, bs
<1>8. parseUsage(endpoint, w, FALSE) = Take(Zero, top)
  BY <1>1, <1>2, <1>3, <1>7 DEF parseUsage
<1>9. Reported(endpoint, w) = {top} \ {NoUsage}
  BY <1>1, <1>2, <1>3 DEF Reported
<1>10. Counted(Zero, {}) /\ Zero \in Counts
  BY DEF Counted, Zero, Counts
<1>11. CASE top = NoUsage
  BY <1>8, <1>9, <1>10, <1>11 DEF Take, w, doc
<1>12. CASE top # NoUsage
  <2>1. top \in Counts
    BY <1>12 DEF AnyUsage
  <2>2. Counted(Take(Zero, top), {} \cup {top})
    BY <1>10, <2>1, TakeCounted
  <2>3. {} \cup {top} = Reported(endpoint, w)
    BY <1>9, <1>12
  <2> QED
    BY <1>8, <2>2, <2>3 DEF w, doc
<1> QED
  BY <1>11, <1>12

\* The streams that the runs check are of this kind, and so are the documents.
THEOREM StreamsAndDocuments == EveryStreamCounted /\ EveryDocumentCounted
<1>1. Lines \subseteq AnyLine
  <2>1. [input |-> 2, output |-> 1, cached |-> 1] \in AnyUsage
        /\ [input |-> 0, output |-> 2, cached |-> 0] \in AnyUsage /\ NoUsage \in AnyUsage
    BY DEF AnyUsage, Counts
  <2>2. \A top, nested \in AnyUsage : Data(top, nested) \in AnyLine
    BY DEF AnyLine
  <2>3. {Blank, Other, DoneLine} \subseteq AnyLine
    BY DEF AnyLine
  <2> QED
    BY <2>1, <2>2, <2>3 DEF Lines
<1>2. BoundedSeq(Lines, 5) \subseteq Seq(AnyLine)
  <2> SUFFICES ASSUME NEW s \in BoundedSeq(Lines, 5)
               PROVE  s \in Seq(AnyLine)
    OBVIOUS
  <2>1. PICK m \in 0..5 : s \in [1..m -> Lines]
    BY DEF BoundedSeq, SeqOf
  <2>2. s \in [1..m -> AnyLine] /\ m \in Nat
    BY <1>1, <2>1
  <2> QED
    BY <2>2
<1>3. EveryStreamCounted
  BY <1>2, StreamCounted DEF EveryStreamCounted, Streams
<1>4. EveryDocumentCounted
  <2>1. {NoUsage, [input |-> 2, output |-> 1, cached |-> 1]} \subseteq AnyUsage
    BY DEF AnyUsage, Counts
  <2> QED
    BY <2>1, DocumentCounted DEF EveryDocumentCounted
<1> QED
  BY <1>3, <1>4

=============================================================================
