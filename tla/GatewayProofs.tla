---------------------------- MODULE GatewayProofs ----------------------------
(***************************************************************************)
(* Theorems about Gateway, Normalize and, from UsageProofs, Usage.  For    *)
(* requests with any system and any messages a conversation keeps its key  *)
(* and what is sent is acceptable; for any stream the counts are right.    *)
(***************************************************************************)
EXTENDS Gateway, UsageProofs

-----------------------------------------------------------------------------
(* The messages at some positions.                                         *)

\* Finitely many positions have a number.
LEMMA PositionsFinite ==
  ASSUME NEW n \in Nat, NEW I \in SUBSET (1..n)
  PROVE  IsFiniteSet(I) /\ Cardinality(I) \in Nat
<1>1. IsFiniteSet(1..n)
  BY FS_Interval
<1>2. IsFiniteSet(I)
  BY <1>1, FS_Subset
<1> QED
  BY <1>2, FS_CardinalityType

\* A rank is a place among the positions.
LEMMA RankType ==
  ASSUME NEW n \in Nat, NEW I \in SUBSET (1..n), NEW i \in I
  PROVE  Rank(I, i) \in 1..Cardinality(I)
<1> DEFINE B == {x \in I : x <= i}
<1>1. IsFiniteSet(I) /\ Cardinality(I) \in Nat
  BY PositionsFinite
<1>2. IsFiniteSet(B) /\ Cardinality(B) \in Nat
  <2>1. B \in SUBSET (1..n)
    OBVIOUS
  <2> QED
    BY <2>1, PositionsFinite
<1>3. Cardinality(B) <= Cardinality(I)
  <2>1. B \in SUBSET I
    OBVIOUS
  <2> QED
    BY <1>1, <2>1, FS_Subset
<1>4. Cardinality(B) # 0
  <2>1. i \in B
    OBVIOUS
  <2>2. B # {}
    BY <2>1
  <2> QED
    BY <1>2, <2>2, FS_EmptySet
<1>5. Rank(I, i) = Cardinality(B)
  BY DEF Rank
<1> HIDE DEF B
<1> QED
  BY <1>1, <1>2, <1>3, <1>4, <1>5

\* A later position ranks later.
LEMMA RankGrows ==
  ASSUME NEW n \in Nat, NEW I \in SUBSET (1..n), NEW i \in I, NEW k \in I, i < k
  PROVE  Rank(I, i) < Rank(I, k)
<1> DEFINE B == {x \in I : x <= i}
           C == {x \in I : x <= k}
<1>1. IsFiniteSet(C) /\ Cardinality(C) \in Nat
  <2>1. C \in SUBSET (1..n)
    OBVIOUS
  <2> QED
    BY <2>1, PositionsFinite
<1>2. Cardinality(B) \in Nat
  <2>1. B \in SUBSET (1..n)
    OBVIOUS
  <2> QED
    BY <2>1, PositionsFinite
<1>3. B \in SUBSET C /\ B # C
  <2>1. i \in 1..n /\ k \in 1..n
    OBVIOUS
  <2>2. k \in C /\ k \notin B
    BY <2>1
  <2>3. \A x \in B : x \in C
    <3>1. ASSUME NEW x \in I, x <= i
          PROVE  x <= k
      <4>1. x \in 1..n
        OBVIOUS
      <4> QED
        BY <2>1, <3>1, <4>1
    <3> QED
      BY <3>1
  <2> QED
    BY <2>2, <2>3
<1>4. Rank(I, i) = Cardinality(B) /\ Rank(I, k) = Cardinality(C)
  BY DEF Rank
<1> HIDE DEF B, C
<1>5. Cardinality(B) <= Cardinality(C) /\ Cardinality(C) # Cardinality(B)
  BY <1>1, <1>3, FS_Subset
<1> QED
  BY <1>1, <1>2, <1>4, <1>5

\* No two positions have one rank.
LEMMA RankDiffers ==
  ASSUME NEW n \in Nat, NEW I \in SUBSET (1..n), NEW i \in I, NEW k \in I,
         Rank(I, i) = Rank(I, k)
  PROVE  i = k
<1>1. i \in Nat /\ k \in Nat /\ Rank(I, i) \in Int /\ Cardinality(I) \in Int
  <2>1. i \in 1..n /\ k \in 1..n
    OBVIOUS
  <2>2. Rank(I, i) \in 1..Cardinality(I) /\ Cardinality(I) \in Nat
    BY RankType, PositionsFinite
  <2> QED
    BY <2>1, <2>2
<1>2. CASE i < k
  <2>1. Rank(I, i) < Rank(I, k)
    BY <1>2, RankGrows
  <2> QED
    BY <1>1, <2>1
<1>3. CASE k < i
  <2>1. Rank(I, k) < Rank(I, i)
    BY <1>3, RankGrows
  <2> QED
    BY <1>1, <2>1
<1> QED
  BY <1>1, <1>2, <1>3

\* Every place has its position.
LEMMA RankOnto ==
  ASSUME NEW n \in Nat, NEW I \in SUBSET (1..n), NEW j \in 1..Cardinality(I)
  PROVE  \E i \in I : Rank(I, i) = j
<1> DEFINE N == 1..Cardinality(I)
           f == [i \in I |-> Rank(I, i)]
<1>1. IsFiniteSet(I) /\ Cardinality(I) \in Nat
  BY PositionsFinite
<1>2. IsFiniteSet(N) /\ Cardinality(N) = Cardinality(I)
  BY <1>1, FS_Interval
<1>3. f \in [I -> N]
  BY RankType
<1>4. \A a, b \in I : f[a] = f[b] => a = b
  BY RankDiffers
<1> HIDE DEF f
<1>5. f \in Injection(I, N)
  BY <1>3, <1>4 DEF Injection, IsInjective
<1>6. f \in Surjection(I, N)
  BY <1>2, <1>5, FS_Injection
<1>7. PICK i \in I : f[i] = j
  BY <1>6 DEF Surjection
<1> QED
  BY <1>7 DEF f

\* The position of a place.
Place(I, j) == CHOOSE i \in I : Rank(I, i) = j

\* It is one of the positions, and has that rank.
LEMMA PlaceRanks ==
  ASSUME NEW n \in Nat, NEW I \in SUBSET (1..n), NEW j \in 1..Cardinality(I)
  PROVE  Place(I, j) \in I /\ Rank(I, Place(I, j)) = j
  BY RankOnto DEF Place

\* Only no positions have no messages.
LEMMA AtNothing ==
  ASSUME NEW n \in Nat, NEW I \in SUBSET (1..n), NEW s
  PROVE  At(I, s) = << >> <=> I = {}
<1>1. Cardinality(I) \in Nat /\ (Cardinality(I) = 0 <=> I = {})
  BY PositionsFinite, FS_EmptySet
<1>2. DOMAIN At(I, s) = 1..Cardinality(I)
  BY DEF At
<1>3. DOMAIN << >> = {}
  OBVIOUS
<1>4. CASE I = {}
  <2>1. 1..Cardinality(I) = {}
    BY <1>1, <1>4
  <2>2. At(I, s) = [j \in {} |-> s[Place(I, j)]]
    BY <2>1 DEF At, Place
  <2>3. [j \in {} |-> s[Place(I, j)]] = << >>
    OBVIOUS
  <2> QED
    BY <1>4, <2>2, <2>3
<1>5. CASE I # {}
  <2>1. Cardinality(I) # 0
    BY <1>1, <1>5
  <2>2. 1 \in 1..Cardinality(I)
    BY <1>1, <2>1
  <2> QED
    BY <1>2, <1>3, <1>5, <2>2
<1> QED
  BY <1>4, <1>5

\* A message more at the end is none of those at the positions before it.
LEMMA AtBefore ==
  ASSUME NEW M, NEW s \in Seq(M), NEW t \in M, NEW I \in SUBSET (1..Len(s))
  PROVE  At(I, Append(s, t)) = At(I, s)
<1>1. ASSUME NEW j \in 1..Cardinality(I)
      PROVE  Append(s, t)[Place(I, j)] = s[Place(I, j)]
  <2>1. Len(s) \in Nat
    OBVIOUS
  <2>2. Place(I, j) \in I
    BY <2>1, PlaceRanks
  <2>3. Place(I, j) \in 1..Len(s)
    BY <2>2
  <2> HIDE DEF Place
  <2> QED
    BY <2>3
<1> QED
  BY <1>1 DEF At, Place

\* The first of some positions is the first when a later one joins them.
LEMMA FirstStays ==
  ASSUME NEW M, NEW s \in Seq(M), NEW t \in M, NEW I \in SUBSET (1..Len(s)), I # {}
  PROVE  LET J == I \cup {Len(s) + 1}
         IN  /\ At(I, s) # << >> /\ At(J, Append(s, t)) # << >>
             /\ At(J, Append(s, t))[1] = At(I, s)[1]
<1> DEFINE n == Len(s)
           J == I \cup {n + 1}
           p == Place(I, 1)
<1>1. n \in Nat /\ n + 1 \in Nat
  OBVIOUS
<1> HIDE DEF n
<1>2. I \in SUBSET (1..n) /\ J \in SUBSET (1..(n + 1))
  <2>1. I \in SUBSET (1..n)
    BY DEF n
  <2>2. \A x \in 1..n : x \in 1..(n + 1)
    BY <1>1
  <2>3. n + 1 \in 1..(n + 1)
    BY <1>1
  <2> QED
    BY <2>1, <2>2, <2>3
<1>3. 1 \in 1..Cardinality(I) /\ 1 \in 1..Cardinality(J)
  <2>1. IsFiniteSet(I) /\ Cardinality(I) \in Nat /\ IsFiniteSet(J) /\ Cardinality(J) \in Nat
    BY <1>1, <1>2, PositionsFinite
  <2>2. Cardinality(I) # 0 /\ Cardinality(J) # 0
    BY <2>1, FS_EmptySet
  <2> HIDE DEF J
  <2> QED
    BY <2>1, <2>2
<1>4. p \in I /\ Rank(I, p) = 1
  BY <1>1, <1>2, <1>3, PlaceRanks
<1>5. p \in J /\ Rank(J, p) = 1
  <2> HIDE DEF p
  <2>1. p \in 1..n
    BY <1>2, <1>4
  <2>2. \A x \in J : x <= p => x \in I
    BY <1>1, <2>1
  <2>3. {x \in J : x <= p} = {x \in I : x <= p}
    BY <2>2
  <2> HIDE DEF J
  <2>4. Rank(J, p) = Rank(I, p)
    BY <2>3 DEF Rank
  <2> QED
    BY <1>4, <2>4 DEF J
<1>6. Place(J, 1) = p
  <2> HIDE DEF J, p
  <2>1. Place(J, 1) \in J /\ Rank(J, Place(J, 1)) = 1
    BY <1>1, <1>2, <1>3, PlaceRanks
  <2> QED
    BY <1>1, <1>2, <1>5, <2>1, RankDiffers
<1>7. At(I, s)[1] = s[p] /\ At(J, Append(s, t))[1] = Append(s, t)[p]
  <2> HIDE DEF J
  <2>1. At(I, s)[1] = s[Place(I, 1)]
    BY <1>3 DEF At, Place
  <2>2. At(J, Append(s, t))[1] = Append(s, t)[Place(J, 1)]
    BY <1>3 DEF At, Place
  <2> QED
    BY <1>6, <2>1, <2>2
<1>8. Append(s, t)[p] = s[p]
  <2> HIDE DEF p
  <2>1. p \in 1..Len(s)
    BY <1>2, <1>4 DEF n
  <2> QED
    BY <2>1
<1>9. At(I, s) # << >>
  BY <1>1, <1>2, AtNothing
<1>10. At(J, Append(s, t)) # << >>
  <2>1. J # {}
    OBVIOUS
  <2> HIDE DEF J
  <2> QED
    BY <1>1, <1>2, <2>1, AtNothing
<1> QED
  BY <1>7, <1>8, <1>9, <1>10 DEF n

-----------------------------------------------------------------------------
(* A request of /v1/messages, part by part.                                *)

Req(family, system, messages, topP, input) ==
  [endpoint |-> "messages", family |-> family, system |-> system,
   messages |-> messages, topP |-> topP, input |-> input]

\* What Hoist adds to the system, and what it leaves of the messages.
Hoisted(messages) ==
  LET systems == SystemPart(messages)
  IN  FlattenSeq([i \in DOMAIN systems |-> contentBlocks(systems[i].content)])
Left(messages) == IF Hoisted(messages) = << >> THEN messages ELSE TalkPart(messages)

\* The system that is sent, of the system and what is hoisted.
WithHoisted(system, blocks) ==
  IF blocks = << >> THEN system ELSE List(contentBlocks(system) \o blocks)
WithFingerprint(system) ==
  IF systemHasFingerprint(system) THEN system
  ELSE List(<<textBlock(Fingerprint)>> \o contentBlocks(system))
WithinLimit(system, cloakMode) ==
  IF systemLen(system) <= SystemLimit THEN system
  ELSE IF cloakMode = "strict" THEN List(<<textBlock(Fingerprint)>>)
  ELSE List(truncateSystemBlocks(contentBlocks(system)))
SystemSent(family, system, blocks, cloakMode) ==
  LET whole == WithHoisted(system, blocks)
  IN  IF family = "claude" THEN WithinLimit(WithFingerprint(whole), cloakMode) ELSE whole

\* top_p is dropped.
LEMMA DropTopP ==
  ASSUME NEW family, NEW system, NEW messages, NEW topP, NEW input
  PROVE  [Req(family, system, messages, topP, input) EXCEPT !.topP = "absent"] =
           Req(family, system, messages, "absent", input)
  BY DEF Req

\* After Hoist, only the system is rewritten, and only for claude-* models.
LEMMA AfterHoist ==
  ASSUME NEW r, NEW family, NEW whole, NEW kept, NEW topP, NEW input, NEW cloakMode,
         Hoist(r) = Req(family, whole, kept, topP, input), r.family = family
  PROVE  normalizeMessages(r, cloakMode) =
           IF family = "claude"
           THEN Cloak(Inject(Req(family, whole, kept, "absent", input)), cloakMode)
           ELSE Req(family, whole, kept, "absent", input)
<1>1. [Hoist(r) EXCEPT !.topP = "absent"] = Req(family, whole, kept, "absent", input)
  BY DropTopP
<1> QED
  BY <1>1 DEF normalizeMessages

\* The parts of what is sent: the system depends on the messages only by what
\* is hoisted of them.
LEMMA SentByParts ==
  ASSUME NEW family, NEW system, NEW messages, NEW topP, NEW input, NEW cloakMode
  PROVE  normalize(Req(family, system, messages, topP, input), cloakMode) =
           Req(family, SystemSent(family, system, Hoisted(messages), cloakMode),
               Left(messages), "absent", input)
<1> DEFINE blocks == Hoisted(messages)
           kept == Left(messages)
           whole == WithHoisted(system, blocks)
           signed == WithFingerprint(whole)
<1>1. Hoist(Req(family, system, messages, topP, input)) =
        Req(family, whole, kept, topP, input)
  BY DEF Hoist, Req, Hoisted, Left, WithHoisted
<1> HIDE DEF blocks, kept, whole, signed
<1>2. Inject(Req(family, whole, kept, "absent", input)) =
        Req(family, signed, kept, "absent", input)
  BY DEF Inject, Req, WithFingerprint, signed
<1>3. Cloak(Req(family, signed, kept, "absent", input), cloakMode) =
        Req(family, WithinLimit(signed, cloakMode), kept, "absent", input)
  BY DEF Cloak, Req, WithinLimit
<1>4. Req(family, system, messages, topP, input).family = family
      /\ Req(family, system, messages, topP, input).endpoint = "messages"
  BY DEF Req
<1>5. normalize(Req(family, system, messages, topP, input), cloakMode) =
        normalizeMessages(Req(family, system, messages, topP, input), cloakMode)
  BY <1>4 DEF normalize
<1> DEFINE r == Req(family, system, messages, topP, input)
           bare == Req(family, whole, kept, "absent", input)
<1>6. normalizeMessages(r, cloakMode) =
        IF family = "claude" THEN Cloak(Inject(bare), cloakMode) ELSE bare
  BY <1>1, <1>4, AfterHoist
<1> HIDE DEF r, bare
<1>7. CASE family = "claude"
  <2>1. SystemSent(family, system, Hoisted(messages), cloakMode) =
          WithinLimit(signed, cloakMode)
    BY <1>7 DEF SystemSent, signed, whole, blocks
  <2> QED
    BY <1>2, <1>3, <1>5, <1>7, <1>6, <2>1 DEF kept, r, bare
<1>8. CASE family # "claude"
  <2>1. SystemSent(family, system, Hoisted(messages), cloakMode) = whole
    BY <1>8 DEF SystemSent, whole, blocks
  <2> QED
    BY <1>5, <1>8, <1>6, <2>1 DEF kept, r, bare
<1> QED
  BY <1>7, <1>8

-----------------------------------------------------------------------------
(* A turn more.                                                            *)

\* The positions of the parts: the turn joins the talk.
LEMMA AppendedParts ==
  ASSUME NEW M, NEW s \in Seq(M), NEW turn \in M, ~IsSystem(turn)
  PROVE  /\ {i \in DOMAIN s : IsSystem(s[i])} =
              {i \in DOMAIN Append(s, turn) : IsSystem(Append(s, turn)[i])}
         /\ {i \in DOMAIN Append(s, turn) : ~IsSystem(Append(s, turn)[i])} =
              {i \in DOMAIN s : ~IsSystem(s[i])} \cup {Len(s) + 1}
<1> DEFINE a == Append(s, turn)
           n == Len(s)
<1>1. n \in Nat /\ DOMAIN s = 1..n
  OBVIOUS
<1>2. DOMAIN a = 1..(n + 1)
  OBVIOUS
<1>3. a[n + 1] = turn
  OBVIOUS
<1>4. \A i \in 1..n : a[i] = s[i]
  OBVIOUS
<1> HIDE DEF a, n
<1>5. 1..(n + 1) = (1..n) \cup {n + 1} /\ n + 1 \notin 1..n
  BY <1>1
<1>6. \A i \in 1..n : IsSystem(a[i]) <=> IsSystem(s[i])
  BY <1>4
<1>7. ~IsSystem(a[n + 1])
  BY <1>3
<1>8. {i \in DOMAIN s : IsSystem(s[i])} = {i \in DOMAIN a : IsSystem(a[i])}
  BY <1>1, <1>2, <1>5, <1>6, <1>7
<1>9. {i \in DOMAIN a : ~IsSystem(a[i])} = {i \in DOMAIN s : ~IsSystem(s[i])} \cup {n + 1}
  BY <1>1, <1>2, <1>5, <1>6, <1>7
<1> QED
  BY <1>8, <1>9 DEF a, n

\* A turn at the end hoists nothing.
LEMMA HoistedStays ==
  ASSUME NEW M, NEW s \in Seq(M), NEW turn \in M, ~IsSystem(turn)
  PROVE  Hoisted(Append(s, turn)) = Hoisted(s)
<1> DEFINE I == {i \in DOMAIN s : IsSystem(s[i])}
           J == {i \in DOMAIN Append(s, turn) : IsSystem(Append(s, turn)[i])}
<1>1. I = J
  BY AppendedParts
<1>2. I \in SUBSET (1..Len(s))
  OBVIOUS
<1>3. At(J, Append(s, turn)) = At(I, s)
  <2> HIDE DEF I, J
  <2> QED
    BY <1>1, <1>2, AtBefore
<1>4. SystemPart(Append(s, turn)) = SystemPart(s)
  BY <1>3 DEF SystemPart
<1> QED
  BY <1>4 DEF Hoisted

\* What is left of the messages begins as it did.
LEMMA FirstLeft ==
  ASSUME NEW M, NEW s \in Seq(M), NEW turn \in M, ~IsSystem(turn),
         TalkPart(s) # << >>
  PROVE  /\ Left(s) # << >> /\ Left(Append(s, turn)) # << >>
         /\ Left(Append(s, turn))[1] = Left(s)[1]
<1> DEFINE I == {i \in DOMAIN s : ~IsSystem(s[i])}
           J == {i \in DOMAIN Append(s, turn) : ~IsSystem(Append(s, turn)[i])}
<1>1. J = I \cup {Len(s) + 1}
  BY AppendedParts
<1>2. Len(s) \in Nat /\ I \in SUBSET (1..Len(s))
  OBVIOUS
<1>3. TalkPart(s) = At(I, s) /\ TalkPart(Append(s, turn)) = At(J, Append(s, turn))
  BY DEF TalkPart
<1>4. I # {}
  <2> HIDE DEF I, J
  <2> QED
    BY <1>2, <1>3, AtNothing
<1>5. CASE Hoisted(s) = << >>
  <2>1. Left(s) = s /\ Left(Append(s, turn)) = Append(s, turn)
    BY <1>5, HoistedStays DEF Left
  <2>2. Len(s) > 0
    BY <1>2, <1>4
  <2>3. s # << >> /\ Append(s, turn) # << >> /\ Append(s, turn)[1] = s[1]
    BY <1>2, <2>2
  <2> QED
    BY <2>1, <2>3
<1>6. CASE Hoisted(s) # << >>
  <2>1. Left(s) = TalkPart(s) /\ Left(Append(s, turn)) = TalkPart(Append(s, turn))
    BY <1>6, HoistedStays DEF Left
  <2> HIDE DEF I, J
  <2>2. At(I, s) # << >> /\ At(J, Append(s, turn)) # << >>
        /\ At(J, Append(s, turn))[1] = At(I, s)[1]
    BY <1>1, <1>2, <1>4, FirstStays
  <2> QED
    BY <1>3, <2>1, <2>2
<1> QED
  BY <1>5, <1>6

\* A turn more at the end of a conversation that has begun leaves the key under
\* which its account is looked up as it was, whatever the model, the system, the
\* messages, the input and the mode.
THEOREM TurnKeepsKey ==
  ASSUME NEW M, NEW s \in Seq(M), NEW turn \in M, ~IsSystem(turn), TalkPart(s) # << >>,
         NEW family, NEW system, NEW topP, NEW input, NEW cloakMode
  PROVE  KeyOf(Req(family, system, Append(s, turn), topP, input), cloakMode) =
           KeyOf(Req(family, system, s, topP, input), cloakMode)
<1> DEFINE before == Left(s)
           after == Left(Append(s, turn))
           sent == SystemSent(family, system, Hoisted(s), cloakMode)
<1>1. normalize(Req(family, system, s, topP, input), cloakMode) =
        Req(family, sent, before, "absent", input)
  BY SentByParts
<1>2. normalize(Req(family, system, Append(s, turn), topP, input), cloakMode) =
        Req(family, sent, after, "absent", input)
  BY SentByParts, HoistedStays
<1>3. before # << >> /\ after # << >> /\ after[1] = before[1]
  BY FirstLeft
<1> HIDE DEF before, after, sent
<1>4. FirstMessage(after) = FirstMessage(before)
  BY <1>3 DEF FirstMessage
<1>5. affinityKey(Req(family, sent, after, "absent", input)) =
        affinityKey(Req(family, sent, before, "absent", input))
  BY <1>3, <1>4 DEF affinityKey, Req
<1> QED
  BY <1>1, <1>2, <1>5 DEF KeyOf

\* A request of /v1/messages among those considered has the parts it has.
LEMMA RequestedParts ==
  ASSUME NEW req \in Requested, req.endpoint = "messages"
  PROVE  /\ req.messages \in Seq(Turns \cup SystemTurns)
         /\ req = Req(req.family, req.system, req.messages, req.topP, req.input)
<1> DEFINE M == Turns \cup SystemTurns
<1>1. BoundedSeq(M, 2) \subseteq Seq(M)
  <2> HIDE DEF M
  <2>1. \A m \in 0..2 : [1..m -> M] \subseteq Seq(M)
    OBVIOUS
  <2> QED
    BY <2>1 DEF BoundedSeq, SeqOf
<1>2. << >> \in Seq(M)
  OBVIOUS
<1> DEFINE A == [endpoint : {"messages"}, family : {"claude", "other"}, system : Systems,
                 messages : BoundedSeq(M, 2), topP : {"absent", "given"}, input : {Absent}]
           B == [endpoint : {"messages", "responses", "chat"},
                 family : {"claude", "gpt", "other"}, system : {Absent},
                 messages : {<< >>}, topP : {"absent", "given"},
                 input : {Absent, Text(Wide), List(<<textBlock(Wide)>>)}]
<1>3. req \in A \/ req \in B
  BY DEF Requested
<1> HIDE DEF M
<1>4. req.messages \in Seq(M)
  BY <1>1, <1>2, <1>3
<1>5. req = Req(req.family, req.system, req.messages, req.topP, req.input)
  <2>1. CASE req \in A
    BY <2>1 DEF Req
  <2>2. CASE req \in B
    BY <2>2 DEF Req
  <2> QED
    BY <1>3, <2>1, <2>2
<1> QED
  BY <1>4, <1>5 DEF M

\* A request with a turn more.
LEMMA LongerRequest ==
  ASSUME NEW family, NEW system, NEW messages, NEW topP, NEW input, NEW turn, NEW req,
         req = Req(family, system, messages, topP, input)
  PROVE  [req EXCEPT !.messages = Append(@, turn)] =
           Req(family, system, Append(messages, turn), topP, input)
<1> DEFINE longer == Append(messages, turn)
<1>1. req.messages = messages
  BY DEF Req
<1> HIDE DEF longer
<1>2. [req EXCEPT !.messages = longer] = Req(family, system, longer, topP, input)
  BY DEF Req
<1> QED
  BY <1>1, <1>2 DEF longer

\* So does every request considered.
THEOREM EveryTurnKeepsKeyHolds == EveryTurnKeepsKey
<1> SUFFICES ASSUME NEW req \in Requested, NEW cloakMode \in CloakModes,
                    NEW turn \in Turns,
                    req.endpoint = "messages", TalkPart(req.messages) # << >>
             PROVE  KeyOf([req EXCEPT !.messages = Append(@, turn)], cloakMode) =
                      KeyOf(req, cloakMode)
  BY DEF EveryTurnKeepsKey
<1> DEFINE M == Turns \cup SystemTurns
<1>1. req.messages \in Seq(M)
      /\ req = Req(req.family, req.system, req.messages, req.topP, req.input)
  BY RequestedParts
<1>2. turn \in M /\ ~IsSystem(turn)
  BY DEF Turns, IsSystem
<1> HIDE DEF M
<1>3. KeyOf(Req(req.family, req.system, Append(req.messages, turn), req.topP, req.input),
            cloakMode) =
        KeyOf(Req(req.family, req.system, req.messages, req.topP, req.input), cloakMode)
  BY <1>1, <1>2, TurnKeepsKey
<1>4. [req EXCEPT !.messages = Append(@, turn)] =
        Req(req.family, req.system, Append(req.messages, turn), req.topP, req.input)
  <2> DEFINE family == req.family
             system == req.system
             messages == req.messages
             topP == req.topP
             input == req.input
  <2>1. req = Req(family, system, messages, topP, input)
    BY <1>1
  <2> HIDE DEF family, system, messages, topP, input
  <2>2. [req EXCEPT !.messages = Append(@, turn)] =
          Req(family, system, Append(messages, turn), topP, input)
    BY <2>1, LongerRequest
  <2> QED
    BY <2>2 DEF family, system, messages, topP, input
<1> QED
  BY <1>1, <1>3, <1>4

\* A conversation is looked up under one key, though each of its turns is
\* normalised again with more messages.
THEOREM ConversationSticksHolds == Spec => []ConversationSticks
<1>1. ConversationSticks
  BY EveryTurnKeepsKeyHolds DEF ConversationSticks
<1> QED
  BY <1>1, PTL

-----------------------------------------------------------------------------
(* Sequences of sequences put one after the other.                         *)

\* The fold that FlattenSeq is.
Joins(T) == [x \in Seq(T) |-> [out \in Seq(T) |-> out \o x]]

LEMMA JoinsType ==
  ASSUME NEW T
  PROVE  /\ FoldTypes(Seq(T), Seq(T), << >>, Joins(T))
         /\ \A x, out \in Seq(T) : Joins(T)[x][out] = out \o x
<1> DEFINE S == Seq(T)
           none == << >>
<1>1. none \in S /\ \A x, out \in S : out \o x \in S
  OBVIOUS
<1> HIDE DEF S, none
<1>2. [x \in S |-> [out \in S |-> out \o x]] \in [S -> [S -> S]]
  BY <1>1
<1> QED
  BY <1>1, <1>2 DEF Joins, FoldTypes, S, none

LEMMA FlattenIsFold ==
  ASSUME NEW T, NEW ss \in Seq(Seq(T))
  PROVE  FlattenSeq(ss) = Fold(Joins(T), << >>, ss)
<1> DEFINE S == Seq(T)
           n == Len(ss)
           Eq(f) == f = [i \in 1..n |-> IF i = 1 THEN ss[i] ELSE f[i - 1] \o ss[i]]
           flat == CHOOSE f : Eq(f)
           F == Joins(T)
           none == << >>
<1>1. n \in Nat /\ DOMAIN ss = 1..n /\ (\A i \in 1..n : ss[i] \in S) /\ ss \in Seq(S)
  OBVIOUS
<1>2. FlattenSeq(ss) = IF n = 0 THEN ss ELSE flat[n]
  BY DEF FlattenSeq
<1>3. FoldTypes(S, S, none, F) /\ \A x, out \in S : F[x][out] = out \o x
  BY JoinsType
<1>4. \A x \in S : none \o x = x
  OBVIOUS
<1> HIDE DEF flat, F, S, none
<1>5. CASE n = 0
  <2>1. ss = << >>
    BY <1>5
  <2>2. Fold(F, none, << >>) = none
    BY <1>3, FoldNothing
  <2> QED
    BY <1>2, <1>5, <2>1, <2>2 DEF F, none
<1>6. CASE n # 0
  <2>1. PICK g : HasFold(S, none, F, ss, g)
    BY <1>1, <1>3, FoldFollows
  <2>2. ASSUME NEW i \in 1..n
        PROVE  /\ Max(1..i) = i /\ Without(1..i) = 1..(i - 1) /\ 1..i # {}
               /\ 1..i \in SUBSET DOMAIN ss
    BY <1>1, MaxOfFirst DEF Without
  <2>3. g[{}] = none /\ \A I \in SUBSET DOMAIN ss : I # {} /\ g[Without(I)] \in S
          => g[I] = F[ss[Max(I)]][g[Without(I)]]
    BY <2>1 DEF HasFold, Follows
  <2> DEFINE Good == {i \in 0..n : g[1..i] \in S}
  <2>4. 0 \in Good
    <3>1. 1..0 = {} /\ 0 \in 0..n
      BY <1>1
    <3>2. none \in S
      BY <1>3 DEF FoldTypes
    <3> QED
      BY <2>3, <3>1, <3>2
  <2>5. ASSUME NEW k \in 0..(n - 1), k \in Good
        PROVE  k + 1 \in Good
    <3> DEFINE i == k + 1
    <3>1. i \in 1..n /\ i \in 0..n /\ i - 1 = k
      BY <1>1
    <3> HIDE DEF i
    <3>2. g[1..i] = F[ss[i]][g[1..k]]
      BY <2>2, <2>3, <2>5, <3>1
    <3>3. F[ss[i]][g[1..k]] \in S
      <4>1. ss[i] \in S /\ g[1..k] \in S
        BY <1>1, <2>5, <3>1
      <4>2. F \in [S -> [S -> S]]
        BY <1>3 DEF FoldTypes
      <4> QED
        BY <4>1, <4>2
    <3> QED
      BY <3>1, <3>2, <3>3 DEF i
  <2>6. 0..n \subseteq Good
    <3> HIDE DEF Good
    <3> QED
      BY <1>1, <2>4, <2>5, UpTo
  <2>7. ASSUME NEW i \in 1..n
        PROVE  g[1..i] = g[1..(i - 1)] \o ss[i]
    <3>1. i - 1 \in 0..n
      BY <1>1
    <3>2. g[1..(i - 1)] \in S
      BY <2>6, <3>1
    <3> QED
      BY <1>1, <1>3, <2>2, <2>3, <3>2
  <2> DEFINE h == [i \in 1..n |-> g[1..i]]
  <2>8. Eq(h)
    <3>1. ASSUME NEW i \in 1..n
          PROVE  h[i] = IF i = 1 THEN ss[i] ELSE h[i - 1] \o ss[i]
      <4>1. CASE i = 1
        <5>1. 1..(i - 1) = {}
          BY <4>1
        <5> QED
          BY <1>4, <1>1, <2>3, <2>7, <4>1, <5>1
      <4>2. CASE i # 1
        <5>1. i - 1 \in 1..n
          BY <1>1, <4>2
        <5> QED
          BY <2>7, <4>2, <5>1
      <4> QED
        BY <4>1, <4>2
    <3> QED
      BY <3>1
  <2> HIDE DEF h, Good
  <2>9. Eq(flat)
    BY <2>8 DEF flat
  <2>10. flat[1] = g[1..1] /\ \A i \in 1..n : i # 1 => flat[i] = flat[i - 1] \o ss[i]
    <3>1. 1 \in 1..n /\ 1..(1 - 1) = {}
      BY <1>1, <1>6
    <3>2. flat[1] = ss[1]
      BY <2>9, <3>1
    <3>3. g[1..1] = ss[1]
      BY <1>4, <1>1, <2>3, <2>7, <3>1
    <3>4. \A i \in 1..n : i # 1 => flat[i] = flat[i - 1] \o ss[i]
      BY <2>9
    <3> QED
      BY <3>2, <3>3, <3>4
  <2> HIDE DEF Eq
  <2> DEFINE Same == {i \in 0..n : i = 0 \/ flat[i] = g[1..i]}
  <2>11. 0 \in Same
    BY <1>1
  <2>12. ASSUME NEW k \in 0..(n - 1), k \in Same
         PROVE  k + 1 \in Same
    <3>1. k + 1 \in 1..n /\ k + 1 \in 0..n /\ (k + 1) - 1 = k /\ (k # 0 => k + 1 # 1)
      BY <1>1
    <3>2. CASE k = 0
      BY <2>10, <3>1, <3>2
    <3>3. CASE k # 0
      <4>1. flat[k + 1] = flat[k] \o ss[k + 1]
        BY <2>10, <3>1, <3>3
      <4>2. g[1..(k + 1)] = g[1..k] \o ss[k + 1]
        BY <2>7, <3>1
      <4> QED
        BY <2>12, <3>1, <3>3, <4>1, <4>2
    <3> QED
      BY <3>2, <3>3
  <2>13. 0..n \subseteq Same
    <3> HIDE DEF Same
    <3> QED
      BY <1>1, <2>11, <2>12, UpTo
  <2>14. flat[n] = g[1..n]
    <3>1. n \in 0..n
      BY <1>1
    <3> QED
      BY <1>6, <2>13, <3>1
  <2> QED
    BY <1>1, <1>2, <1>6, <2>1, <2>14 DEF HasFold, F, none
<1> QED
  BY <1>5, <1>6

\* One sequence more goes to the end.
LEMMA FlattenRules ==
  ASSUME NEW T
  PROVE  /\ FlattenSeq(<< >>) = << >>
         /\ \A ss \in Seq(Seq(T)) : FlattenSeq(ss) \in Seq(T)
         /\ \A ss \in Seq(Seq(T)), x \in Seq(T) :
              FlattenSeq(Append(ss, x)) = FlattenSeq(ss) \o x
<1> DEFINE S == Seq(T)
           F == Joins(T)
           none == << >>
<1>1. FoldTypes(S, S, none, F) /\ (\A x, out \in S : F[x][out] = out \o x) /\ none \in S
  BY JoinsType
<1>2. \A ss \in Seq(S) : FlattenSeq(ss) = Fold(F, none, ss)
  BY FlattenIsFold
<1> HIDE DEF S, F
<1>3. none \in Seq(S) /\ \A ss \in Seq(S), x \in S : Append(ss, x) \in Seq(S)
  OBVIOUS
<1> HIDE DEF none
<1>4. FlattenSeq(none) = none
  BY <1>1, <1>2, <1>3, FoldNothing DEF none
<1>5. ASSUME NEW ss \in Seq(S), NEW x \in S
      PROVE  /\ FlattenSeq(ss) \in S
             /\ FlattenSeq(Append(ss, x)) = FlattenSeq(ss) \o x
  <2>1. Fold(F, none, ss) \in S /\ Fold(F, none, Append(ss, x)) = F[x][Fold(F, none, ss)]
    BY <1>1, FoldLonger
  <2> QED
    BY <1>1, <1>2, <1>3, <2>1
<1> QED
  BY <1>1, <1>4, <1>5 DEF S, none

-----------------------------------------------------------------------------
(* Requests of any kind.                                                   *)

\* Any string: the prover does not know of a literal that it is one.
Strings == STRING \cup {"F", "i", "n", "W", "w", "text", "string", "image", "list", "absent",
                       "user", "assistant", "system"}

\* A text in which every character is whole.
Whole(t) ==
  \A i \in 1..Len(t) : t[i] = "W" => i < Len(t) /\ t[i + 1] # "W"
WholeTexts == {t \in Seq(Strings) : Whole(t)}
AnyItem == [type : Strings, text : WholeTexts]
AnyValue == [form : Strings, items : Seq(AnyItem)]
AnyMessage == [role : Strings, content : AnyValue]
AnyBlock == {b \in AnyItem : b.type # "string"}

\* Texts in a row keep their characters whole.
LEMMA WholeTogether ==
  ASSUME NEW s \in WholeTexts, NEW t \in WholeTexts
  PROVE  s \o t \in WholeTexts
<1> DEFINE r == s \o t
           m == Len(s)
           n == Len(t)
<1>1. s \in Seq(Strings) /\ t \in Seq(Strings)
  BY DEF WholeTexts
<1>2. /\ m \in Nat /\ n \in Nat /\ r \in Seq(Strings) /\ Len(r) = m + n
      /\ \A i \in 1..m : r[i] = s[i]
      /\ \A i \in 1..n : r[m + i] = t[i]
  BY <1>1
<1>3. /\ \A i \in 1..m : s[i] = "W" => i < m /\ s[i + 1] # "W"
      /\ \A i \in 1..n : t[i] = "W" => i < n /\ t[i + 1] # "W"
  BY DEF WholeTexts, Whole
<1> HIDE DEF r, m, n
<1>4. ASSUME NEW i \in 1..(m + n), r[i] = "W"
      PROVE  i < m + n /\ r[i + 1] # "W"
  <2>1. CASE i <= m
    <3>1. i \in 1..m
      BY <1>2, <2>1
    <3>2. i < m /\ s[i + 1] # "W"
      BY <1>2, <1>3, <1>4, <3>1
    <3>3. i + 1 \in 1..m
      BY <1>2, <3>1, <3>2
    <3> QED
      BY <1>2, <3>2, <3>3
  <2>2. CASE i > m
    <3> DEFINE k == i - m
    <3>1. k \in 1..n /\ m + k = i
      BY <1>2, <2>2
    <3> HIDE DEF k
    <3>2. k < n /\ t[k + 1] # "W"
      BY <1>2, <1>3, <1>4, <3>1
    <3>3. k + 1 \in 1..n /\ m + (k + 1) = i + 1
      BY <1>2, <3>1, <3>2
    <3> QED
      BY <1>2, <3>1, <3>2, <3>3
  <2> QED
    BY <1>2, <2>1, <2>2
<1> QED
  BY <1>2, <1>4 DEF WholeTexts, Whole, r

\* The texts of the model.
LEMMA WholeConstants ==
  /\ << >> \in WholeTexts /\ Narrow \in WholeTexts /\ Wide \in WholeTexts
  /\ Fingerprint \in WholeTexts /\ Len(Fingerprint) = 3
  /\ Fingerprint[3] = "n" /\ Head(Wide) = "W"
  /\ SystemLimit \in Nat /\ SystemLimit >= 3
<1>1. << >> \in WholeTexts
  BY DEF WholeTexts, Whole
<1>2. Narrow \in WholeTexts
  <2>1. "n" \in Strings /\ "n" # "W"
    BY DEF Strings
  <2>2. Narrow \in Seq(Strings) /\ Len(Narrow) = 1 /\ Narrow[1] = "n"
    BY <2>1 DEF Narrow
  <2>3. \A i \in 1..1 : i = 1
    OBVIOUS
  <2>4. Whole(Narrow)
    BY <2>1, <2>2, <2>3 DEF Whole
  <2> QED
    BY <2>2, <2>4 DEF WholeTexts
<1>3. Wide \in WholeTexts /\ Head(Wide) = "W"
  <2>1. "W" \in Strings /\ "w" \in Strings /\ "w" # "W"
    BY DEF Strings
  <2>2. Wide \in Seq(Strings) /\ Len(Wide) = 2 /\ Wide[1] = "W" /\ Wide[2] = "w"
        /\ Head(Wide) = "W"
    BY <2>1 DEF Wide
  <2>3. \A i \in 1..2 : i = 1 \/ i = 2
    OBVIOUS
  <2>4. Whole(Wide)
    BY <2>1, <2>2, <2>3 DEF Whole
  <2> QED
    BY <2>2, <2>4 DEF WholeTexts
<1>4. /\ Fingerprint \in Seq(Strings) /\ Len(Fingerprint) = 3
      /\ Fingerprint[1] = "F" /\ Fingerprint[2] = "i" /\ Fingerprint[3] = "n"
  <2>1. "F" \in Strings /\ "i" \in Strings /\ "n" \in Strings
    BY DEF Strings
  <2> QED
    BY <2>1 DEF Fingerprint
<1>5. Fingerprint \in WholeTexts
  <2>1. \A i \in 1..3 : i = 1 \/ i = 2 \/ i = 3
    OBVIOUS
  <2>2. \A i \in 1..3 : Fingerprint[i] # "W"
    BY <1>4, <2>1
  <2>3. Whole(Fingerprint)
    BY <1>4, <2>2 DEF Whole
  <2> QED
    BY <1>4, <2>3 DEF WholeTexts
<1> QED
  BY <1>1, <1>2, <1>3, <1>4, <1>5, LimitAssumption

\* A cut leaves whole characters, and no more than it should.
LEMMA CutWhole ==
  ASSUME NEW t \in WholeTexts, NEW n \in Nat, n <= Len(t)
  PROVE  /\ CutText(t, n) \in WholeTexts
         /\ Len(CutText(t, n)) <= n
         /\ Len(CutText(t, n)) = IF n > 0 /\ t[n] = "W" THEN n - 1 ELSE n
         /\ \A i \in 1..Len(CutText(t, n)) : CutText(t, n)[i] = t[i]
<1> DEFINE m == IF n > 0 /\ t[n] = "W" THEN n - 1 ELSE n
           c == SubSeq(t, 1, m)
<1>1. t \in Seq(Strings) /\ \A i \in 1..Len(t) : t[i] = "W" => i < Len(t) /\ t[i + 1] # "W"
  BY DEF WholeTexts, Whole
<1>2. CutText(t, n) = c
  BY WholeConstants DEF CutText
<1>3. m \in 0..Len(t) /\ m <= n /\ m \in Nat /\ Len(t) \in Nat
  BY <1>1
<1>4. (m > 0 /\ t[m] = "W") => FALSE
  <2>1. CASE n > 0 /\ t[n] = "W"
    <3>1. m = n - 1
      BY <2>1
    <3>2. m > 0 => m \in 1..Len(t) /\ m + 1 = n
      BY <1>3, <3>1
    <3> QED
      BY <1>1, <2>1, <3>2
  <2>2. CASE ~(n > 0 /\ t[n] = "W")
    BY <2>2
  <2> QED
    BY <2>1, <2>2
<1> DEFINE l == m
<1>5. l = IF n > 0 /\ t[n] = "W" THEN n - 1 ELSE n
  OBVIOUS
<1> HIDE DEF m
<1>6. c \in Seq(Strings) /\ Len(c) = m /\ \A i \in 1..m : c[i] = t[i]
  BY <1>1, <1>3
<1> HIDE DEF c
<1>7. ASSUME NEW i \in 1..m, c[i] = "W"
      PROVE  i < m /\ c[i + 1] # "W"
  <2>1. t[i] = "W" /\ i \in 1..Len(t)
    BY <1>3, <1>6, <1>7
  <2>2. i # m
    BY <1>3, <1>4, <2>1
  <2>3. i + 1 \in 1..m /\ i < m
    BY <1>3, <2>2
  <2> QED
    BY <1>1, <1>6, <2>1, <2>3
<1>8. c \in WholeTexts
  BY <1>6, <1>7 DEF WholeTexts, Whole
<1> QED
  BY <1>2, <1>3, <1>5, <1>6, <1>8

-----------------------------------------------------------------------------
(* Sizes and the truncation.                                               *)

\* The fold that Size is.
AddLength(T) == [t \in T |-> [n \in Nat |-> n + Len(t)]]

LEMMA SizeIsFold ==
  ASSUME NEW B, NEW texts \in Seq(Seq(B))
  PROVE  Size(texts) = Fold(AddLength(Seq(B)), 0, texts)
<1> DEFINE F == AddLength(Seq(B))
           Eq(h) == h = [I \in SUBSET DOMAIN texts |->
                      IF I = {} THEN 0 ELSE h[Without(I)] + Len(texts[Max(I)])]
           g == CHOOSE h : Eq(h)
<1>1. FoldTypes(Nat, Seq(B), 0, F)
  BY DEF FoldTypes, AddLength
<1>2. \A t \in Seq(B), n \in Nat : F[t][n] = n + Len(t)
  BY DEF AddLength
<1>3. Size(texts) = g[DOMAIN texts]
  BY DEF Size, FoldLeft, MapThenFoldSet, Without
<1> HIDE DEF F
<1>4. PICK h \in [SUBSET DOMAIN texts -> Nat] : Unfolds(F, 0, texts, h)
  BY <1>1, UnfoldsExists DEF FoldTypes
<1>5. ASSUME NEW I \in SUBSET DOMAIN texts, I # {}
      PROVE  F[texts[Max(I)]][h[Without(I)]] = h[Without(I)] + Len(texts[Max(I)])
  <2>1. texts[Max(I)] \in Seq(B) /\ h[Without(I)] \in Nat
    BY <1>5, PlacesBelow
  <2> QED
    BY <1>2, <2>1
<1>6. Eq(h)
  BY <1>4, <1>5 DEF Unfolds
<1>7. Eq(g)
  BY <1>6
<1> HIDE DEF g
<1>8. Follows(F, 0, Nat, texts, g)
  <2>1. g[{}] = 0
    BY <1>7
  <2>2. ASSUME NEW I \in SUBSET DOMAIN texts, I # {}, g[Without(I)] \in Nat
        PROVE  g[I] = F[texts[Max(I)]][g[Without(I)]]
    <3>1. g[I] = g[Without(I)] + Len(texts[Max(I)])
      BY <1>7, <2>2
    <3>2. texts[Max(I)] \in Seq(B)
      BY <2>2, PlacesBelow
    <3> QED
      BY <1>2, <2>2, <3>1, <3>2
  <2> QED
    BY <2>1, <2>2 DEF Follows
<1> QED
  BY <1>1, <1>3, <1>8, FollowsFold DEF F

\* The size of texts.
LEMMA SizeRules ==
  ASSUME NEW B
  PROVE  /\ Size(<< >>) = 0
         /\ \A texts \in Seq(Seq(B)) : Size(texts) \in Nat
         /\ \A texts \in Seq(Seq(B)), t \in Seq(B) :
              Size(Append(texts, t)) = Size(texts) + Len(t)
<1> DEFINE F == AddLength(Seq(B))
<1>1. FoldTypes(Nat, Seq(B), 0, F)
  BY DEF FoldTypes, AddLength
<1>2. \A t \in Seq(B), n \in Nat : F[t][n] = n + Len(t)
  BY DEF AddLength
<1> HIDE DEF F
<1>3. \A s \in Seq(Seq(B)) : Size(s) = Fold(F, 0, s)
  BY SizeIsFold DEF F
<1>4. << >> \in Seq(Seq(B))
      /\ \A s \in Seq(Seq(B)), t \in Seq(B) : Append(s, t) \in Seq(Seq(B))
  OBVIOUS
<1>5. Size(<< >>) = 0
  BY <1>1, <1>3, <1>4, FoldNothing
<1>6. ASSUME NEW s \in Seq(Seq(B)), NEW t \in Seq(B)
      PROVE  Size(s) \in Nat /\ Size(Append(s, t)) = Size(s) + Len(t)
  <2>1. Fold(F, 0, s) \in Nat /\ Fold(F, 0, Append(s, t)) = F[t][Fold(F, 0, s)]
    BY <1>1, FoldLonger
  <2> QED
    BY <1>2, <1>3, <1>4, <2>1
<1> QED
  BY <1>5, <1>6

\* A sequence more in a function over its places.
LEMMA TextsOfAppend ==
  ASSUME NEW s \in Seq(AnyItem), NEW b \in AnyItem
  PROVE  /\ SystemTexts(List(s)) \in Seq(Seq(Strings))
         /\ SystemTexts(List(Append(s, b))) =
              Append(SystemTexts(List(s)), IF b.type = "string" THEN << >> ELSE b.text)
<1> DEFINE one(x) == IF x.type = "string" THEN << >> ELSE x.text
           n == Len(s)
           r == Append(s, b)
           T == Seq(Strings)
<1>1. \A v : SystemTexts(List(v)) = [i \in DOMAIN v |-> one(v[i])]
  BY DEF SystemTexts, List
<1>2. \A x \in AnyItem : one(x) \in T
  BY DEF AnyItem, WholeTexts
<1>3. n \in Nat /\ DOMAIN s = 1..n /\ (\A i \in 1..n : s[i] \in AnyItem)
      /\ DOMAIN r = 1..(n + 1) /\ r[n + 1] = b /\ \A i \in 1..n : r[i] = s[i]
  OBVIOUS
<1> HIDE DEF one, T, r, n
<1> DEFINE ts == [i \in 1..n |-> one(s[i])]
<1>4. ts \in [1..n -> T]
  BY <1>2, <1>3
<1>5. ts \in Seq(T) /\ Len(ts) = n
  BY <1>3, <1>4
<1>6. SystemTexts(List(s)) = ts
  BY <1>1, <1>3
<1>7. [i \in 1..(n + 1) |-> one(r[i])] = Append(ts, one(b))
  <2> DEFINE a == Append(ts, one(b))
  <2>1. one(b) \in T
    BY <1>2
  <2>2. Len(a) = n + 1 /\ DOMAIN a = 1..(n + 1) /\ a[n + 1] = one(b)
        /\ \A i \in 1..n : a[i] = ts[i]
    <3> HIDE DEF ts
    <3> QED
      BY <1>3, <1>5, <2>1
  <2>3. a = [i \in 1..(n + 1) |-> a[i]]
    <3>1. a \in Seq(T)
      BY <1>5, <2>1
    <3> HIDE DEF a
    <3> QED
      BY <2>2, <3>1
  <2> HIDE DEF a
  <2>4. ASSUME NEW i \in 1..(n + 1)
        PROVE  a[i] = one(r[i])
    <3>1. CASE i \in 1..n
      <4>1. ts[i] = one(s[i])
        BY <3>1
      <4> QED
        BY <1>3, <2>2, <3>1, <4>1
    <3>2. CASE i = n + 1
      BY <1>3, <2>2, <3>2
    <3> QED
      BY <1>3, <3>1, <3>2
  <2>5. a = [i \in 1..(n + 1) |-> one(r[i])]
    BY <2>3, <2>4
  <2> QED
    BY <2>5 DEF a
<1>8. SystemTexts(List(r)) = Append(ts, one(b))
  BY <1>1, <1>3, <1>7
<1> QED
  BY <1>5, <1>6, <1>8 DEF T, one, r

\* What is kept of a system, by the limit.
KeptBlocks == {out \in Seq(AnyBlock) : systemLen(List(out)) <= SystemLimit}

\* A block of text adds its length.
LEMMA LengthOfAppend ==
  ASSUME NEW s \in Seq(AnyItem), NEW b \in AnyItem
  PROVE  /\ systemLen(List(s)) \in Nat
         /\ b.type # "string" =>
              systemLen(List(Append(s, b))) = systemLen(List(s)) + Len(b.text)
<1>1. SystemTexts(List(s)) \in Seq(Seq(Strings))
  BY TextsOfAppend
<1>2. b.text \in Seq(Strings)
  BY DEF AnyItem, WholeTexts
<1>3. b.type # "string" =>
        SystemTexts(List(Append(s, b))) = Append(SystemTexts(List(s)), b.text)
  BY TextsOfAppend
<1> DEFINE ts == SystemTexts(List(s))
<1> HIDE DEF ts
<1>4. ts \in Seq(Seq(Strings))
  BY <1>1 DEF ts
<1>5. Size(ts) \in Nat /\ Size(Append(ts, b.text)) = Size(ts) + Len(b.text)
  BY <1>2, <1>4, SizeRules
<1> QED
  BY <1>3, <1>5 DEF systemLen, ts

\* Blocks are items.
LEMMA BlocksAreItems == Seq(AnyBlock) \subseteq Seq(AnyItem)
  BY DEF AnyBlock

\* A block more keeps the limit and whole characters, and leaves what was kept.
LEMMA KeepBlockRules ==
  ASSUME NEW out \in KeptBlocks, NEW block \in AnyItem
  PROVE  /\ KeepBlock(out, block) \in KeptBlocks
         /\ systemLen(List(KeepBlock(out, block))) <= systemLen(List(out)) + Len(block.text)
         /\ \/ KeepBlock(out, block) = out
            \/ \E t \in WholeTexts : KeepBlock(out, block) = Append(out, textBlock(t))
<1> DEFINE left == SystemLimit - systemLen(List(out))
           t == IF Len(block.text) <= left THEN block.text ELSE CutText(block.text, left)
<1>1. out \in Seq(AnyBlock) /\ out \in Seq(AnyItem) /\ systemLen(List(out)) <= SystemLimit
  BY BlocksAreItems DEF KeptBlocks
<1>2. block.text \in WholeTexts /\ Len(block.text) \in Nat
  BY DEF AnyItem, WholeTexts
<1>3. systemLen(List(out)) \in Nat
  BY <1>1, LengthOfAppend
<1>4. left \in Nat /\ left <= SystemLimit - systemLen(List(out))
  BY <1>1, <1>3, WholeConstants
<1>5. KeepBlock(out, block) = IF t = << >> THEN out ELSE Append(out, textBlock(t))
  BY DEF KeepBlock, systemLen
<1> HIDE DEF left
<1>6. t \in WholeTexts /\ Len(t) <= left /\ Len(t) <= Len(block.text) /\ Len(t) \in Nat
  <2>1. CASE Len(block.text) <= left
    BY <1>2, <1>4, <2>1
  <2>2. CASE ~(Len(block.text) <= left)
    <3>1. left <= Len(block.text)
      BY <1>2, <1>4, <2>2
    <3>2. CutText(block.text, left) \in WholeTexts /\ Len(CutText(block.text, left)) <= left
      BY <1>2, <1>4, <3>1, CutWhole
    <3>3. Len(CutText(block.text, left)) \in Nat
      BY <3>2 DEF WholeTexts
    <3> QED
      BY <1>2, <1>4, <2>2, <3>1, <3>2, <3>3
  <2> QED
    BY <2>1, <2>2
<1> HIDE DEF t
<1>7. CASE t = << >>
  BY <1>2, <1>3, <1>5, <1>7
<1>8. CASE t # << >>
  <2> DEFINE b == textBlock(t)
             r == Append(out, b)
  <2>1. b \in AnyBlock /\ b \in AnyItem /\ b.type # "string" /\ b.text = t
    <3>1. "text" \in Strings
      BY DEF Strings
    <3> QED
      BY <1>6, <3>1 DEF textBlock, AnyBlock, AnyItem
  <2> HIDE DEF b
  <2>2. r \in Seq(AnyBlock)
    BY <1>1, <2>1
  <2>3. systemLen(List(r)) = systemLen(List(out)) + Len(t)
    BY <1>1, <2>1, LengthOfAppend
  <2> HIDE DEF r
  <2>4. systemLen(List(r)) <= SystemLimit /\ systemLen(List(r)) <= systemLen(List(out)) + Len(block.text)
    BY <1>2, <1>3, <1>4, <1>6, <2>3, WholeConstants DEF left
  <2>5. r \in KeptBlocks
    BY <2>2, <2>4 DEF KeptBlocks
  <2>6. KeepBlock(out, block) = r
    BY <1>5, <1>8 DEF r, b
  <2> QED
    BY <1>6, <2>4, <2>5, <2>6 DEF r, b
<1> QED
  BY <1>7, <1>8

\* The truncation block by block.
LEMMA TruncateRules ==
  /\ truncateSystemBlocks(<< >>) = << >>
  /\ \A s \in Seq(AnyItem) : truncateSystemBlocks(s) \in KeptBlocks
  /\ \A s \in Seq(AnyItem), block \in AnyItem :
       truncateSystemBlocks(Append(s, block)) = KeepBlock(truncateSystemBlocks(s), block)
<1> DEFINE F == [block \in AnyItem |-> [out \in KeptBlocks |-> KeepBlock(out, block)]]
           none == << >>
<1>1. FoldTypes(KeptBlocks, AnyItem, none, F)
  <2>1. none \in KeptBlocks
    <3>1. SystemTexts(List(none)) = none
      BY DEF SystemTexts, List
    <3>2. Size(none) = 0
      BY SizeRules
    <3>3. none \in Seq(AnyBlock)
      OBVIOUS
    <3> HIDE DEF none
    <3> QED
      BY <3>1, <3>2, <3>3, WholeConstants DEF KeptBlocks, systemLen
  <2>2. F \in [AnyItem -> [KeptBlocks -> KeptBlocks]]
    BY KeepBlockRules
  <2> HIDE DEF F
  <2> QED
    BY <2>1, <2>2 DEF FoldTypes
<1>2. \A block \in AnyItem, out \in KeptBlocks : F[block][out] = KeepBlock(out, block)
  OBVIOUS
<1> HIDE DEF F
<1>3. ASSUME NEW s \in Seq(AnyItem)
      PROVE  truncateSystemBlocks(s) = Fold(F, none, s)
  <2> DEFINE Eq(h) == h = [I \in SUBSET DOMAIN s |->
                        IF I = {} THEN none ELSE KeepBlock(h[Without(I)], s[Max(I)])]
             g == CHOOSE h : Eq(h)
  <2>1. truncateSystemBlocks(s) = g[DOMAIN s]
    BY DEF truncateSystemBlocks, FoldLeft, MapThenFoldSet, Without
  <2> HIDE DEF none
  <2>2. PICK h \in [SUBSET DOMAIN s -> KeptBlocks] : Unfolds(F, none, s, h)
    BY <1>1, UnfoldsExists DEF FoldTypes
  <2>3. ASSUME NEW I \in SUBSET DOMAIN s, I # {}
        PROVE  F[s[Max(I)]][h[Without(I)]] = KeepBlock(h[Without(I)], s[Max(I)])
    BY <1>2, <2>3, PlacesBelow
  <2>4. Eq(h)
    BY <2>2, <2>3 DEF Unfolds
  <2>5. Eq(g)
    BY <2>4
  <2> HIDE DEF g
  <2>6. ASSUME NEW I \in SUBSET DOMAIN s, I # {}, g[Without(I)] \in KeptBlocks
        PROVE  g[I] = F[s[Max(I)]][g[Without(I)]]
    <3>1. g[I] = KeepBlock(g[Without(I)], s[Max(I)])
      BY <2>5, <2>6
    <3> QED
      BY <1>2, <2>6, <3>1, PlacesBelow
  <2>7. Follows(F, none, KeptBlocks, s, g)
    BY <2>5, <2>6 DEF Follows
  <2> QED
    BY <1>1, <2>1, <2>7, FollowsFold
<1>4. none \in Seq(AnyItem)
      /\ \A s \in Seq(AnyItem), block \in AnyItem : Append(s, block) \in Seq(AnyItem)
  OBVIOUS
<1> HIDE DEF none
<1>5. truncateSystemBlocks(none) = none
  BY <1>1, <1>3, <1>4, FoldNothing DEF none
<1>6. ASSUME NEW s \in Seq(AnyItem), NEW block \in AnyItem
      PROVE  /\ truncateSystemBlocks(s) \in KeptBlocks
             /\ truncateSystemBlocks(Append(s, block)) = KeepBlock(truncateSystemBlocks(s), block)
  <2>1. Fold(F, none, s) \in KeptBlocks /\ Fold(F, none, Append(s, block)) = F[block][Fold(F, none, s)]
    BY <1>1, FoldLonger
  <2> QED
    BY <1>2, <1>3, <1>4, <2>1
<1>7. textBlock(<< >>) \in AnyItem
  <2>1. "text" \in Strings
    BY DEF Strings
  <2> QED
    BY <2>1, WholeConstants DEF textBlock, AnyItem
<1> QED
  BY <1>5, <1>6, <1>7 DEF none

-----------------------------------------------------------------------------
(* What is hoisted, message by message.                                    *)

\* A function over one place more is the sequence with its last value at the end.
LEMMA AppendIs ==
  ASSUME NEW T, NEW s \in Seq(T), NEW x \in T, NEW f \in [1..(Len(s) + 1) -> T],
         \A i \in 1..Len(s) : f[i] = s[i], f[Len(s) + 1] = x
  PROVE  f = Append(s, x)
<1> DEFINE n == Len(s)
           a == Append(s, x)
<1>1. n \in Nat /\ a \in Seq(T) /\ Len(a) = n + 1 /\ a[n + 1] = x
      /\ \A i \in 1..n : a[i] = s[i]
  OBVIOUS
<1> HIDE DEF a
<1>2. a \in [1..(n + 1) -> T]
  BY <1>1
<1> HIDE DEF n
<1>3. \A i \in 1..(n + 1) : f[i] = a[i]
  <2>1. \A i \in 1..(n + 1) : i \in 1..n \/ i = n + 1
    BY <1>1
  <2> QED
    BY <1>1, <2>1 DEF n
<1> QED
  BY <1>2, <1>3 DEF a, n

\* The blocks of a value are blocks, with its texts.
LEMMA ContentType ==
  ASSUME NEW v \in AnyValue
  PROVE  /\ contentBlocks(v) \in Seq(AnyBlock) /\ contentBlocks(v) \in Seq(AnyItem)
         /\ DOMAIN contentBlocks(v) = DOMAIN v.items
         /\ \A i \in DOMAIN v.items : contentBlocks(v)[i].text = v.items[i].text
<1>1. v.items \in Seq(AnyItem)
  BY DEF AnyValue
<1> DEFINE s == v.items
           n == Len(s)
           block(i) == IF s[i].type = "string" THEN textBlock(s[i].text) ELSE s[i]
<1>2. n \in Nat /\ DOMAIN s = 1..n /\ \A i \in 1..n : s[i] \in AnyItem
  BY <1>1
<1>3. contentBlocks(v) = [i \in 1..n |-> block(i)]
  BY <1>2 DEF contentBlocks
<1>4. ASSUME NEW i \in 1..n
      PROVE  block(i) \in AnyBlock /\ block(i).text = s[i].text
  <2>1. s[i] \in AnyItem
    BY <1>2
  <2> DEFINE x == s[i]
  <2> HIDE DEF x
  <2>2. x \in AnyItem
    BY <2>1 DEF x
  <2>3. textBlock(x.text) \in AnyBlock /\ textBlock(x.text).text = x.text
    <3>1. "text" \in Strings
      BY DEF Strings
    <3> QED
      BY <2>2, <3>1 DEF textBlock, AnyBlock, AnyItem
  <2>4. x.type # "string" => x \in AnyBlock
    BY <2>2 DEF AnyBlock
  <2> QED
    BY <2>3, <2>4 DEF x
<1> HIDE DEF block, s, n
<1> DEFINE f == [i \in 1..n |-> block(i)]
<1>5. f \in Seq(AnyBlock) /\ DOMAIN f = 1..n /\ \A i \in 1..n : f[i] = block(i)
  BY <1>2, <1>4
<1> HIDE DEF f
<1>6. f \in Seq(AnyItem)
  BY <1>5, BlocksAreItems
<1> QED
  BY <1>2, <1>3, <1>4, <1>5, <1>6 DEF s, f

\* Blocks stay as they are.
LEMMA ContentOfBlocks ==
  ASSUME NEW s \in Seq(AnyItem)
  PROVE  /\ List(s) \in AnyValue /\ List(s).items = s /\ List(s).form = "list"
         /\ s \in Seq(AnyBlock) => contentBlocks(List(s)) = s
<1>1. "list" \in Strings
  BY DEF Strings
<1>2. List(s) \in AnyValue /\ List(s).items = s /\ List(s).form = "list"
  BY <1>1 DEF List, AnyValue
<1>3. ASSUME s \in Seq(AnyBlock)
      PROVE  contentBlocks(List(s)) = s
  <2>1. \A i \in DOMAIN s : s[i].type # "string"
    BY <1>3 DEF AnyBlock
  <2>2. contentBlocks(List(s)) = [i \in DOMAIN s |-> s[i]]
    BY <1>2, <2>1 DEF contentBlocks
  <2>3. s = [i \in DOMAIN s |-> s[i]]
    OBVIOUS
  <2> QED
    BY <2>2, <2>3
<1> QED
  BY <1>2, <1>3

\* The messages at some positions are messages.
LEMMA AtType ==
  ASSUME NEW M, NEW s \in Seq(M), NEW I \in SUBSET (1..Len(s))
  PROVE  /\ At(I, s) \in Seq(M) /\ Len(At(I, s)) = Cardinality(I)
         /\ At(I, s) = [j \in 1..Cardinality(I) |-> s[Place(I, j)]]
<1>1. At(I, s) = [j \in 1..Cardinality(I) |-> s[Place(I, j)]]
  BY DEF At, Place
<1>2. Len(s) \in Nat /\ Cardinality(I) \in Nat
  <2>1. Len(s) \in Nat
    OBVIOUS
  <2> QED
    BY <2>1, PositionsFinite
<1>3. \A j \in 1..Cardinality(I) : Place(I, j) \in 1..Len(s)
  BY <1>2, PlaceRanks
<1>4. [j \in 1..Cardinality(I) |-> s[Place(I, j)]] \in [1..Cardinality(I) -> M]
  BY <1>3
<1> DEFINE f == [j \in 1..Cardinality(I) |-> s[Place(I, j)]]
<1> HIDE DEF f
<1>5. f \in Seq(M) /\ Len(f) = Cardinality(I)
  BY <1>2, <1>4 DEF f
<1> QED
  BY <1>1, <1>5 DEF f

\* A message at the end is the last of those at its position and some before it.
LEMMA AtWithLast ==
  ASSUME NEW M, NEW s \in Seq(M), NEW t \in M, NEW I \in SUBSET (1..Len(s))
  PROVE  At(I \cup {Len(s) + 1}, Append(s, t)) = Append(At(I, s), t)
<1> DEFINE n == Len(s)
           a == Append(s, t)
           J == I \cup {n + 1}
           c == Cardinality(I)
<1>1. n \in Nat /\ n + 1 \in Nat /\ a \in Seq(M) /\ Len(a) = n + 1 /\ a[n + 1] = t
      /\ \A i \in 1..n : a[i] = s[i]
  OBVIOUS
<1>2. I \in SUBSET (1..n)
  OBVIOUS
<1> HIDE DEF n, a
<1>3. J \in SUBSET (1..(n + 1)) /\ n + 1 \notin I /\ \A x \in J : x <= n + 1
  <2>1. \A x \in 1..n : x \in 1..(n + 1) /\ x # n + 1
    BY <1>1
  <2>2. n + 1 \in 1..(n + 1)
    BY <1>1
  <2>3. \A x \in 1..(n + 1) : x <= n + 1
    BY <1>1
  <2> QED
    BY <1>2, <2>1, <2>2, <2>3
<1>4. IsFiniteSet(I) /\ c \in Nat /\ Cardinality(J) = c + 1
  <2>1. IsFiniteSet(I) /\ c \in Nat
    BY <1>1, <1>2, PositionsFinite
  <2> QED
    BY <1>3, <2>1, FS_AddElement
<1>5. ASSUME NEW j \in 1..c
      PROVE  Place(J, j) = Place(I, j) /\ Place(I, j) \in 1..n
  <2> DEFINE p == Place(I, j)
  <2>1. p \in I /\ Rank(I, p) = j /\ j \in 1..Cardinality(J)
    <3>1. j \in 1..Cardinality(J)
      BY <1>4
    <3> QED
      BY <1>1, <1>2, <3>1, PlaceRanks
  <2> HIDE DEF p
  <2>2. p \in 1..n /\ p \in J
    BY <1>2, <2>1
  <2>3. Rank(J, p) = j
    <3>1. {x \in J : x <= p} = {x \in I : x <= p}
      BY <1>1, <2>2
    <3> HIDE DEF J
    <3>2. Rank(J, p) = Rank(I, p)
      BY <3>1 DEF Rank
    <3> QED
      BY <2>1, <3>2
  <2> HIDE DEF J
  <2>4. Place(J, j) \in J /\ Rank(J, Place(J, j)) = j
    BY <1>1, <1>3, <2>1, PlaceRanks
  <2>5. Place(J, j) = p
    BY <1>1, <1>3, <2>2, <2>3, <2>4, RankDiffers
  <2> QED
    BY <2>2, <2>5 DEF p
<1>6. Place(J, c + 1) = n + 1
  <2>1. c + 1 \in 1..Cardinality(J) /\ n + 1 \in J
    BY <1>4
  <2>2. Rank(J, n + 1) = c + 1
    <3>1. {x \in J : x <= n + 1} = J
      BY <1>3
    <3> HIDE DEF J
    <3> QED
      BY <1>4, <3>1 DEF Rank
  <2> HIDE DEF J
  <2>3. Place(J, c + 1) \in J /\ Rank(J, Place(J, c + 1)) = c + 1
    BY <1>1, <1>3, <2>1, PlaceRanks
  <2> QED
    BY <1>1, <1>3, <2>1, <2>2, <2>3, RankDiffers
<1>7. At(J, a) \in Seq(M) /\ Len(At(J, a)) = c + 1
      /\ At(J, a) = [j \in 1..(c + 1) |-> a[Place(J, j)]]
  <2> HIDE DEF J
  <2> QED
    BY <1>1, <1>3, <1>4, AtType
<1>8. At(I, s) \in Seq(M) /\ Len(At(I, s)) = c
      /\ At(I, s) = [j \in 1..c |-> s[Place(I, j)]]
  BY AtType
<1> DEFINE f == At(J, a)
           g == At(I, s)
<1> HIDE DEF J, c
<1>9. \A j \in 1..c : f[j] = g[j]
  <2>1. \A j \in 1..c : j \in 1..(c + 1)
    BY <1>4
  <2> QED
    BY <1>1, <1>5, <1>7, <1>8, <2>1
<1>10. f[c + 1] = t
  <2>1. c + 1 \in 1..(c + 1)
    BY <1>4
  <2> QED
    BY <1>1, <1>6, <1>7, <2>1
<1> HIDE DEF f, g
<1>11. f \in [1..(c + 1) -> M]
  <2>1. f \in Seq(M) /\ Len(f) = c + 1
    BY <1>7 DEF f
  <2> QED
    BY <2>1
<1>12. g \in Seq(M) /\ Len(g) = c
  BY <1>8 DEF g
<1>13. f = Append(g, t)
  BY <1>9, <1>10, <1>11, <1>12, AppendIs
<1> QED
  BY <1>13 DEF f, g, J, a, n

\* The blocks of messages.
Contents(systems) == [i \in DOMAIN systems |-> contentBlocks(systems[i].content)]

\* A message more has its blocks at the end.
LEMMA ContentsOfAppend ==
  ASSUME NEW s \in Seq(AnyMessage), NEW m \in AnyMessage
  PROVE  /\ Contents(s) \in Seq(Seq(AnyBlock)) /\ contentBlocks(m.content) \in Seq(AnyBlock)
         /\ Contents(Append(s, m)) = Append(Contents(s), contentBlocks(m.content))
<1> DEFINE T == Seq(AnyBlock)
           n == Len(s)
           a == Append(s, m)
<1>1. \A x \in AnyMessage : contentBlocks(x.content) \in T
  BY ContentType DEF AnyMessage
<1>2. /\ n \in Nat /\ DOMAIN s = 1..n /\ (\A i \in 1..n : s[i] \in AnyMessage)
      /\ DOMAIN a = 1..(n + 1) /\ a[n + 1] = m /\ (\A i \in 1..n : a[i] = s[i])
      /\ \A i \in 1..(n + 1) : a[i] \in AnyMessage
  OBVIOUS
<1> HIDE DEF T, n, a
<1> DEFINE f == Contents(a)
           g == Contents(s)
<1>3. g \in [1..n -> T] /\ \A i \in 1..n : g[i] = contentBlocks(s[i].content)
  BY <1>1, <1>2 DEF Contents
<1>4. f \in [1..(n + 1) -> T] /\ \A i \in 1..(n + 1) : f[i] = contentBlocks(a[i].content)
  BY <1>1, <1>2 DEF Contents
<1> HIDE DEF f, g
<1>5. g \in Seq(T) /\ Len(g) = n
  BY <1>2, <1>3
<1>6. (\A i \in 1..n : f[i] = g[i]) /\ f[n + 1] = contentBlocks(m.content)
  <2>1. \A i \in 1..n : i \in 1..(n + 1)
    BY <1>2
  <2>2. n + 1 \in 1..(n + 1)
    BY <1>2
  <2> QED
    BY <1>2, <1>3, <1>4, <2>1, <2>2
<1>7. f = Append(g, contentBlocks(m.content))
  <2>1. contentBlocks(m.content) \in T
    BY <1>1
  <2> QED
    BY <1>4, <1>5, <1>6, <2>1, AppendIs
<1> QED
  BY <1>1, <1>5, <1>7 DEF f, g, a, T

\* What is hoisted, message by message.
LEMMA HoistedRules ==
  /\ Hoisted(<< >>) = << >>
  /\ \A s \in Seq(AnyMessage) : Hoisted(s) \in Seq(AnyBlock)
  /\ \A s \in Seq(AnyMessage), m \in AnyMessage :
       Hoisted(Append(s, m)) =
         IF IsSystem(m) THEN Hoisted(s) \o contentBlocks(m.content) ELSE Hoisted(s)
<1>1. \A s : Hoisted(s) = FlattenSeq(Contents(SystemPart(s)))
  BY DEF Hoisted, Contents
<1>2. ASSUME NEW s \in Seq(AnyMessage)
      PROVE  SystemPart(s) \in Seq(AnyMessage)
  <2>1. {i \in DOMAIN s : IsSystem(s[i])} \in SUBSET (1..Len(s))
    OBVIOUS
  <2> QED
    BY <2>1, AtType DEF SystemPart
<1>3. ASSUME NEW s \in Seq(AnyMessage)
      PROVE  Contents(s) \in Seq(Seq(AnyBlock))
  <2> DEFINE T == Seq(AnyBlock)
  <2>1. \A x \in AnyMessage : contentBlocks(x.content) \in T
    BY ContentType DEF AnyMessage
  <2> HIDE DEF T
  <2>2. Contents(s) \in Seq(T)
    BY <2>1 DEF Contents
  <2> QED
    BY <2>2 DEF T
<1>4. Hoisted(<< >>) = << >>
  <2> DEFINE none == << >>
  <2>1. none \in Seq(AnyMessage) /\ {i \in DOMAIN none : IsSystem(none[i])} = {} /\ Len(none) = 0
    OBVIOUS
  <2> HIDE DEF none
  <2>2. SystemPart(none) = none
    <3>1. {} \in SUBSET (1..0) /\ 0 \in Nat
      OBVIOUS
    <3>2. At({}, none) = << >>
      BY <3>1, AtNothing
    <3> QED
      BY <2>1, <3>2 DEF SystemPart, none
  <2>3. Contents(none) = none
    BY DEF Contents, none
  <2> QED
    BY <1>1, <2>2, <2>3, FlattenRules DEF none
<1>5. ASSUME NEW s \in Seq(AnyMessage)
      PROVE  Hoisted(s) \in Seq(AnyBlock)
  <2>1. Contents(SystemPart(s)) \in Seq(Seq(AnyBlock))
    BY <1>2, <1>3
  <2> QED
    BY <1>1, <2>1, FlattenRules
<1>6. ASSUME NEW s \in Seq(AnyMessage), NEW m \in AnyMessage, IsSystem(m)
      PROVE  Hoisted(Append(s, m)) = Hoisted(s) \o contentBlocks(m.content)
  <2> DEFINE I == {i \in DOMAIN s : IsSystem(s[i])}
             J == {i \in DOMAIN Append(s, m) : IsSystem(Append(s, m)[i])}
             systems == SystemPart(s)
  <2>1. J = I \cup {Len(s) + 1}
    <3> DEFINE n == Len(s)
               a == Append(s, m)
    <3>1. /\ n \in Nat /\ DOMAIN s = 1..n /\ DOMAIN a = 1..(n + 1) /\ a[n + 1] = m
          /\ \A i \in 1..n : a[i] = s[i]
      OBVIOUS
    <3> HIDE DEF n, a
    <3>2. 1..(n + 1) = (1..n) \cup {n + 1} /\ n + 1 \notin 1..n
      BY <3>1
    <3>3. {i \in DOMAIN a : IsSystem(a[i])} = {i \in DOMAIN s : IsSystem(s[i])} \cup {n + 1}
      BY <1>6, <3>1, <3>2
    <3> QED
      BY <3>3 DEF n, a
  <2>2. I \in SUBSET (1..Len(s))
    OBVIOUS
  <2>3. SystemPart(s) = At(I, s) /\ SystemPart(Append(s, m)) = At(J, Append(s, m))
    BY DEF SystemPart
  <2> HIDE DEF I, J
  <2>4. SystemPart(Append(s, m)) = Append(systems, m)
    BY <2>1, <2>2, <2>3, AtWithLast
  <2>5. systems \in Seq(AnyMessage)
    BY <1>2
  <2> HIDE DEF systems
  <2>6. /\ Contents(systems) \in Seq(Seq(AnyBlock)) /\ contentBlocks(m.content) \in Seq(AnyBlock)
        /\ Contents(Append(systems, m)) = Append(Contents(systems), contentBlocks(m.content))
    BY <2>5, ContentsOfAppend
  <2>7. FlattenSeq(Append(Contents(systems), contentBlocks(m.content))) =
          FlattenSeq(Contents(systems)) \o contentBlocks(m.content)
    BY <2>6, FlattenRules
  <2> QED
    BY <1>1, <2>4, <2>6, <2>7 DEF systems
<1>7. ASSUME NEW s \in Seq(AnyMessage), NEW m \in AnyMessage, ~IsSystem(m)
      PROVE  Hoisted(Append(s, m)) = Hoisted(s)
  BY <1>7, HoistedStays
<1> QED
  BY <1>4, <1>5, <1>6, <1>7

\* No message is hoisted that does not speak.
LEMMA NothingHoisted ==
  ASSUME NEW s \in Seq(AnyMessage), Hoisted(s) = << >>, NEW i \in DOMAIN s, IsSystem(s[i])
  PROVE  ~Speaks(s[i])
<1> DEFINE Silent(r) == Hoisted(r) = << >> =>
                          \A k \in DOMAIN r : IsSystem(r[k]) => ~Speaks(r[k])
           Good == {r \in Seq(AnyMessage) : Silent(r)}
           none == << >>
<1>1. none \in Seq(AnyMessage) /\ Silent(none)
  OBVIOUS
<1>2. ASSUME NEW r \in Seq(AnyMessage), NEW m \in AnyMessage, Silent(r)
      PROVE  Append(r, m) \in Seq(AnyMessage) /\ Silent(Append(r, m))
  <2> DEFINE a == Append(r, m)
             n == Len(r)
             h == Hoisted(r)
             c == contentBlocks(m.content)
  <2>1. a \in Seq(AnyMessage) /\ n \in Nat /\ DOMAIN r = 1..n /\ DOMAIN a = 1..(n + 1)
        /\ a[n + 1] = m /\ \A k \in 1..n : a[k] = r[k]
    OBVIOUS
  <2>2. h \in Seq(AnyBlock) /\ c \in Seq(AnyBlock) /\ DOMAIN c = DOMAIN m.content.items
        /\ m.content.items \in Seq(AnyItem)
    <3>1. m.content \in AnyValue
      BY DEF AnyMessage
    <3>2. m.content.items \in Seq(AnyItem)
      BY <3>1 DEF AnyValue
    <3> QED
      BY <3>1, <3>2, HoistedRules, ContentType
  <2>3. Hoisted(a) = IF IsSystem(m) THEN h \o c ELSE h
    BY HoistedRules
  <2> HIDE DEF a, n, h, c
  <2>4. ASSUME Hoisted(a) = << >>
        PROVE  h = << >> /\ (IsSystem(m) => ~Speaks(m))
    <3>1. CASE ~IsSystem(m)
      BY <2>3, <2>4, <3>1
    <3>2. CASE IsSystem(m)
      <4>1. h \o c = << >>
        BY <2>3, <2>4, <3>2
      <4>2. Len(h) = 0 /\ Len(c) = 0
        <5>1. Len(h \o c) = Len(h) + Len(c) /\ Len(h) \in Nat /\ Len(c) \in Nat
          BY <2>2
        <5> QED
          BY <4>1, <5>1
      <4>3. h = << >> /\ DOMAIN c = {}
        BY <2>2, <4>2
      <4> DEFINE items == m.content.items
      <4>4. items \in Seq(AnyItem) /\ DOMAIN items = {}
        BY <2>2, <4>3
      <4> HIDE DEF items
      <4>5. items = << >>
        BY <4>4
      <4> QED
        BY <4>3, <4>5 DEF Speaks, items
    <3> QED
      BY <3>1, <3>2
  <2>5. ASSUME Hoisted(a) = << >>, NEW k \in DOMAIN a, IsSystem(a[k])
        PROVE  ~Speaks(a[k])
    <3>1. \A j \in DOMAIN r : IsSystem(r[j]) => ~Speaks(r[j])
      BY <1>2, <2>4, <2>5 DEF h
    <3>2. k \in 1..n \/ k = n + 1
      BY <2>1, <2>5
    <3> QED
      BY <2>1, <2>4, <2>5, <3>1, <3>2
  <2> QED
    BY <2>1, <2>5 DEF a
<1> HIDE DEF Silent
<1>3. none \in Good /\ \A r \in Seq(AnyMessage), m \in AnyMessage : r \in Good => Append(r, m) \in Good
  BY <1>1, <1>2
<1> HIDE DEF Good
<1>4. s \in Good
  BY <1>3, EverySequence
<1> QED
  BY <1>4 DEF Good, Silent

\* docs/PROTOCOL.md:113: of what is left no message is of role system, or it
\* says nothing.
LEMMA LeftSilent ==
  ASSUME NEW s \in Seq(AnyMessage), NEW i \in DOMAIN Left(s)
  PROVE  ~(IsSystem(Left(s)[i]) /\ Speaks(Left(s)[i]))
<1>1. CASE Hoisted(s) = << >>
  <2>1. Left(s) = s
    BY <1>1 DEF Left
  <2> QED
    BY <1>1, <2>1, NothingHoisted
<1>2. CASE Hoisted(s) # << >>
  <2> DEFINE I == {k \in DOMAIN s : ~IsSystem(s[k])}
  <2>1. Left(s) = At(I, s)
    BY <1>2 DEF Left, TalkPart
  <2>2. I \in SUBSET (1..Len(s)) /\ Len(s) \in Nat /\ \A k \in I : ~IsSystem(s[k])
    OBVIOUS
  <2> HIDE DEF I
  <2>3. At(I, s) = [j \in 1..Cardinality(I) |-> s[Place(I, j)]]
    BY <2>2, AtType
  <2>4. i \in 1..Cardinality(I)
    BY <2>1, <2>3
  <2>5. Place(I, i) \in I
    BY <2>2, <2>4, PlaceRanks
  <2>6. Left(s)[i] = s[Place(I, i)]
    BY <2>1, <2>3, <2>4
  <2> QED
    BY <2>2, <2>5, <2>6
<1> QED
  BY <1>1, <1>2

\* The blocks of the system and after them those of the system messages.
InOrder(base, messages) ==
  FoldLeft(LAMBDA blocks, m : IF IsSystem(m)
             THEN blocks \o contentBlocks(m.content) ELSE blocks, base, messages)

\* They are those of the system and what is hoisted.
LEMMA InOrderHoisted ==
  ASSUME NEW base \in Seq(AnyBlock), NEW messages \in Seq(AnyMessage)
  PROVE  InOrder(base, messages) = base \o Hoisted(messages)
<1> DEFINE T == Seq(AnyBlock)
           step(blocks, m) == IF IsSystem(m) THEN blocks \o contentBlocks(m.content) ELSE blocks
           F == [m \in AnyMessage |-> [blocks \in T |-> step(blocks, m)]]
<1>1. \A m \in AnyMessage, blocks \in T : step(blocks, m) \in T
  <2>1. \A x, y \in T : x \o y \in T
    OBVIOUS
  <2>2. \A m \in AnyMessage : contentBlocks(m.content) \in T
    BY ContentType DEF AnyMessage
  <2> HIDE DEF T
  <2> QED
    BY <2>1, <2>2
<1>2. FoldTypes(T, AnyMessage, base, F)
  <2> HIDE DEF T, step
  <2>1. F \in [AnyMessage -> [T -> T]]
    BY <1>1
  <2>2. base \in T
    BY DEF T
  <2> HIDE DEF F
  <2> QED
    BY <2>1, <2>2 DEF FoldTypes
<1>3. \A m \in AnyMessage, blocks \in T : F[m][blocks] = step(blocks, m)
  <2> HIDE DEF T, step
  <2> QED
    OBVIOUS
<1> HIDE DEF F
<1>4. ASSUME NEW s \in Seq(AnyMessage)
      PROVE  InOrder(base, s) = Fold(F, base, s)
  <2> DEFINE Eq(h) == h = [I \in SUBSET DOMAIN s |->
                        IF I = {} THEN base ELSE step(h[Without(I)], s[Max(I)])]
             g == CHOOSE h : Eq(h)
  <2>1. InOrder(base, s) = g[DOMAIN s]
    BY DEF InOrder, FoldLeft, MapThenFoldSet, Without
  <2> HIDE DEF T, step
  <2>2. PICK h \in [SUBSET DOMAIN s -> T] : Unfolds(F, base, s, h)
    BY <1>2, UnfoldsExists DEF FoldTypes
  <2>3. ASSUME NEW I \in SUBSET DOMAIN s, I # {}
        PROVE  F[s[Max(I)]][h[Without(I)]] = step(h[Without(I)], s[Max(I)])
    BY <1>3, <2>3, PlacesBelow
  <2>4. Eq(h)
    BY <2>2, <2>3 DEF Unfolds
  <2>5. Eq(g)
    BY <2>4
  <2> HIDE DEF g
  <2>6. ASSUME NEW I \in SUBSET DOMAIN s, I # {}, g[Without(I)] \in T
        PROVE  g[I] = F[s[Max(I)]][g[Without(I)]]
    <3>1. g[I] = step(g[Without(I)], s[Max(I)])
      BY <2>5, <2>6
    <3> QED
      BY <1>3, <2>6, <3>1, PlacesBelow
  <2>7. Follows(F, base, T, s, g)
    BY <2>5, <2>6 DEF Follows
  <2> QED
    BY <1>2, <2>1, <2>7, FollowsFold
<1> DEFINE Right(s) == InOrder(base, s) = base \o Hoisted(s)
           Good == {s \in Seq(AnyMessage) : Right(s)}
           none == << >>
<1>5. none \in Seq(AnyMessage) /\ base \o << >> = base
  OBVIOUS
<1>6. Right(none)
  <2>1. Fold(F, base, none) = base
    BY <1>2, FoldNothing
  <2> QED
    BY <1>4, <1>5, <2>1, HoistedRules
<1>7. ASSUME NEW s \in Seq(AnyMessage), NEW m \in AnyMessage, Right(s)
      PROVE  Append(s, m) \in Seq(AnyMessage) /\ Right(Append(s, m))
  <2>1. Append(s, m) \in Seq(AnyMessage)
    OBVIOUS
  <2> DEFINE c == contentBlocks(m.content)
             h == Hoisted(s)
  <2>2. h \in T /\ c \in T
    BY HoistedRules, ContentType DEF AnyMessage
  <2>3. (base \o h) \o c = base \o (h \o c)
    BY <2>2
  <2>4. Fold(F, base, s) \in T /\ Fold(F, base, Append(s, m)) = F[m][Fold(F, base, s)]
    BY <1>2, FoldLonger
  <2>5. InOrder(base, Append(s, m)) = step(InOrder(base, s), m)
    <3> HIDE DEF step, T
    <3> QED
      BY <1>3, <1>4, <2>1, <2>4
  <2>6. InOrder(base, s) = base \o h
    BY <1>7
  <2>7. Hoisted(Append(s, m)) = IF IsSystem(m) THEN h \o c ELSE h
    BY HoistedRules
  <2>8. step(InOrder(base, s), m) = IF IsSystem(m) THEN InOrder(base, s) \o c ELSE InOrder(base, s)
    OBVIOUS
  <2> HIDE DEF step, T, h, c
  <2> QED
    BY <2>1, <2>3, <2>5, <2>6, <2>7, <2>8
<1> HIDE DEF Right
<1>8. none \in Good /\ \A s \in Seq(AnyMessage), m \in AnyMessage : s \in Good => Append(s, m) \in Good
  BY <1>5, <1>6, <1>7
<1> HIDE DEF Good
<1>9. messages \in Good
  BY <1>8, EverySequence
<1> QED
  BY <1>9 DEF Good, Right

-----------------------------------------------------------------------------
(* The fingerprint under the truncation.                                   *)

\* A text cut where the fingerprint has ended still has it.
LEMMA CutKeepsPrint ==
  ASSUME NEW t \in WholeTexts, NEW j \in FingerprintEnds(t), NEW left \in Nat, j <= left
  PROVE  LET c == IF Len(t) <= left THEN t ELSE CutText(t, left)
         IN  c # << >> /\ c \in WholeTexts /\ j \in FingerprintEnds(c)
<1>1. /\ t \in Seq(Strings) /\ Len(t) \in Nat /\ j \in 3..Len(t)
      /\ SubSeq(t, j - 2, j) = Fingerprint
  <2>1. t \in Seq(Strings) /\ Len(t) \in Nat
    BY DEF WholeTexts
  <2>2. j \in Len(Fingerprint)..Len(t) /\ SubSeq(t, j - Len(Fingerprint) + 1, j) = Fingerprint
    BY DEF FingerprintEnds
  <2>3. j \in 3..Len(t) /\ SubSeq(t, (j - 3) + 1, j) = Fingerprint
    BY <2>2, WholeConstants
  <2>4. (j - 3) + 1 = j - 2
    BY <2>3
  <2> QED
    BY <2>1, <2>3, <2>4
<1>2. CASE Len(t) <= left
  <2>1. t # << >>
    BY <1>1
  <2> QED
    BY <1>2, <2>1
<1>3. CASE ~(Len(t) <= left)
  <2> DEFINE c == CutText(t, left)
  <2>1. /\ c \in WholeTexts
        /\ Len(c) = IF left > 0 /\ t[left] = "W" THEN left - 1 ELSE left
        /\ \A i \in 1..Len(c) : c[i] = t[i]
    <3>1. left <= Len(t)
      BY <1>1, <1>3
    <3> QED
      BY <3>1, CutWhole
  <2> HIDE DEF c
  <2>2. t[j] = "n"
    <3>1. SubSeq(t, j - 2, j)[3] = t[(j - 2) + 2]
      BY <1>1
    <3>2. (j - 2) + 2 = j
      BY <1>1
    <3> QED
      BY <1>1, <3>1, <3>2, WholeConstants
  <2>3. j <= Len(c) /\ Len(c) <= Len(t) /\ Len(c) \in Nat
    <3>1. CASE j = left
      <4>1. Len(c) = left
        BY <2>1, <2>2, <3>1
      <4> QED
        BY <1>1, <1>3, <3>1, <4>1
    <3>2. CASE j # left
      <4>1. j <= left - 1 /\ left \in Nat /\ left > 0
        BY <1>1, <3>2
      <4>2. Len(c) = left - 1 \/ Len(c) = left
        BY <2>1
      <4> QED
        BY <1>1, <1>3, <4>1, <4>2
    <3> QED
      BY <3>1, <3>2
  <2>4. c \in Seq(Strings)
    BY <2>1 DEF WholeTexts
  <2>5. SubSeq(c, j - 2, j) = SubSeq(t, j - 2, j)
    <3>1. \A i \in (j - 2)..j : c[i] = t[i]
      BY <1>1, <2>1, <2>3
    <3>2. j - 2 \in Int /\ j - 2 >= 1
      BY <1>1
    <3> QED
      BY <1>1, <2>3, <2>4, <3>1, <3>2
  <2>6. j \in FingerprintEnds(c)
    <3>1. j \in Len(Fingerprint)..Len(c) /\ j - Len(Fingerprint) + 1 = j - 2
      BY <1>1, <2>3, WholeConstants
    <3> QED
      BY <1>1, <2>5, <3>1 DEF FingerprintEnds
  <2>7. c # << >>
    BY <1>1, <2>3
  <2> QED
    BY <1>3, <2>1, <2>6, <2>7 DEF c
<1> QED
  BY <1>2, <1>3

\* Where the fingerprint is in blocks.
LEMMA PrintInBlocks ==
  ASSUME NEW s \in Seq(AnyBlock)
  PROVE  systemHasFingerprint(List(s)) <=>
           \E i \in DOMAIN s : FingerprintEnds(s[i].text) # {}
<1>1. \A i \in DOMAIN s : s[i].type # "string"
  BY DEF AnyBlock
<1>2. List(s).items = s
  BY DEF List
<1>3. \A i \in DOMAIN s : SystemTexts(List(s))[i] = s[i].text
  BY <1>1, <1>2 DEF SystemTexts
<1> QED
  BY <1>2, <1>3 DEF systemHasFingerprint

\* A block more leaves the fingerprint, and may bring it.
LEMMA PrintOfAppend ==
  ASSUME NEW s \in Seq(AnyBlock), NEW b \in AnyBlock
  PROVE  systemHasFingerprint(List(s)) \/ FingerprintEnds(b.text) # {} =>
           systemHasFingerprint(List(Append(s, b)))
<1> DEFINE a == Append(s, b)
           n == Len(s)
<1>1. /\ n \in Nat /\ DOMAIN s = 1..n /\ DOMAIN a = 1..(n + 1) /\ a[n + 1] = b
      /\ (\A i \in 1..n : a[i] = s[i]) /\ a \in Seq(AnyBlock)
  OBVIOUS
<1> HIDE DEF a, n
<1>2. n + 1 \in DOMAIN a /\ \A i \in 1..n : i \in DOMAIN a
  BY <1>1
<1>3. (\E i \in DOMAIN s : FingerprintEnds(s[i].text) # {}) \/ FingerprintEnds(b.text) # {} =>
        \E i \in DOMAIN a : FingerprintEnds(a[i].text) # {}
  BY <1>1, <1>2
<1>4. systemHasFingerprint(List(a)) <=> \E i \in DOMAIN a : FingerprintEnds(a[i].text) # {}
  BY <1>1, PrintInBlocks
<1> QED
  BY <1>3, <1>4, PrintInBlocks DEF a

\* Some fingerprint of the blocks ends within the limit.
InTime(s) ==
  \E i \in DOMAIN s : \E j \in FingerprintEnds(s[i].text) :
    systemLen(List(SubSeq(s, 1, i - 1))) + j <= SystemLimit

\* normalize.go:189: then the truncation leaves it.
LEMMA TruncateKeepsPrint ==
  ASSUME NEW blocks \in Seq(AnyBlock), InTime(blocks)
  PROVE  systemHasFingerprint(List(truncateSystemBlocks(blocks)))
<1> DEFINE Right(s) ==
             /\ systemLen(List(truncateSystemBlocks(s))) <= systemLen(List(s))
             /\ InTime(s) => systemHasFingerprint(List(truncateSystemBlocks(s)))
           Good == {s \in Seq(AnyBlock) : Right(s)}
           none == << >>
<1>1. none \in Seq(AnyBlock) /\ none \in Seq(AnyItem) /\ DOMAIN none = {}
  OBVIOUS
<1>2. Right(none)
  <2>1. truncateSystemBlocks(none) = none
    BY TruncateRules
  <2> HIDE DEF none
  <2>2. systemLen(List(none)) \in Nat
    <3>1. textBlock(<< >>) \in AnyItem
      <4>1. "text" \in Strings
        BY DEF Strings
      <4> QED
        BY <4>1, WholeConstants DEF textBlock, AnyItem
    <3> QED
      BY <1>1, <3>1, LengthOfAppend
  <2> QED
    BY <1>1, <2>1, <2>2 DEF InTime
<1>3. ASSUME NEW s \in Seq(AnyBlock), NEW b \in AnyBlock, Right(s)
      PROVE  Append(s, b) \in Seq(AnyBlock) /\ Right(Append(s, b))
  <2> DEFINE a == Append(s, b)
             n == Len(s)
             out == truncateSystemBlocks(s)
             used == systemLen(List(out))
             left == SystemLimit - used
             t == IF Len(b.text) <= left THEN b.text ELSE CutText(b.text, left)
  <2>1. /\ n \in Nat /\ DOMAIN s = 1..n /\ DOMAIN a = 1..(n + 1) /\ a[n + 1] = b
        /\ (\A i \in 1..n : a[i] = s[i]) /\ a \in Seq(AnyBlock)
    OBVIOUS
  <2>2. s \in Seq(AnyItem) /\ b \in AnyItem /\ b.type # "string" /\ b.text \in WholeTexts
    BY BlocksAreItems DEF AnyBlock, AnyItem
  <2>3. out \in KeptBlocks /\ truncateSystemBlocks(a) = KeepBlock(out, b)
    BY <2>2, TruncateRules
  <2>4. out \in Seq(AnyBlock) /\ out \in Seq(AnyItem) /\ used <= SystemLimit
    BY <2>3, BlocksAreItems DEF KeptBlocks
  <2>5. used \in Nat /\ systemLen(List(s)) \in Nat /\ Len(b.text) \in Nat
        /\ systemLen(List(a)) = systemLen(List(s)) + Len(b.text)
    BY <2>2, <2>4, LengthOfAppend DEF WholeTexts
  <2>6. used <= systemLen(List(s)) /\ (InTime(s) => systemHasFingerprint(List(out)))
    BY <1>3
  <2>7. /\ systemLen(List(KeepBlock(out, b))) <= used + Len(b.text)
        /\ KeepBlock(out, b) \in KeptBlocks
        /\ \/ KeepBlock(out, b) = out
           \/ \E x \in WholeTexts : KeepBlock(out, b) = Append(out, textBlock(x))
    BY <2>2, <2>3, KeepBlockRules
  <2>8. systemLen(List(KeepBlock(out, b))) \in Nat
    <3>1. KeepBlock(out, b) \in Seq(AnyItem)
      BY <2>7, BlocksAreItems DEF KeptBlocks
    <3> QED
      BY <2>2, <3>1, LengthOfAppend
  <2>9. KeepBlock(out, b) = IF t = << >> THEN out ELSE Append(out, textBlock(t))
    BY DEF KeepBlock, systemLen
  <2>10. \A x \in WholeTexts : textBlock(x) \in AnyBlock /\ textBlock(x).text = x
    <3>1. "text" \in Strings
      BY DEF Strings
    <3> QED
      BY <3>1 DEF textBlock, AnyBlock, AnyItem
  <2> HIDE DEF a, n, out, used, left, t
  <2>11. systemLen(List(KeepBlock(out, b))) <= systemLen(List(a))
    BY <2>5, <2>6, <2>7, <2>8
  <2>12. ASSUME systemHasFingerprint(List(out))
         PROVE  systemHasFingerprint(List(KeepBlock(out, b)))
    <3>1. CASE KeepBlock(out, b) = out
      BY <2>12, <3>1
    <3>2. CASE \E x \in WholeTexts : KeepBlock(out, b) = Append(out, textBlock(x))
      <4>1. PICK x \in WholeTexts : KeepBlock(out, b) = Append(out, textBlock(x))
        BY <3>2
      <4>2. textBlock(x) \in AnyBlock
        BY <2>10
      <4> QED
        BY <2>4, <2>12, <4>1, <4>2, PrintOfAppend
    <3> QED
      BY <2>7, <3>1, <3>2
  <2>13. ASSUME InTime(a)
         PROVE  systemHasFingerprint(List(KeepBlock(out, b)))
    <3>0. PICK i \in DOMAIN a : \E j \in FingerprintEnds(a[i].text) :
            systemLen(List(SubSeq(a, 1, i - 1))) + j <= SystemLimit
      BY <2>13 DEF InTime
    <3>1. PICK j \in FingerprintEnds(a[i].text) :
            systemLen(List(SubSeq(a, 1, i - 1))) + j <= SystemLimit
      BY <3>0
    <3>2. CASE i \in 1..n
      <4>1. SubSeq(a, 1, i - 1) = SubSeq(s, 1, i - 1)
        <5>1. i - 1 \in 0..n /\ \A k \in 1..(i - 1) : a[k] = s[k]
          BY <2>1, <3>2
        <5>2. Len(a) = n + 1 /\ Len(s) = n
          BY <2>1 DEF n, a
        <5> QED
          BY <2>1, <3>2, <5>1, <5>2
      <4>2. InTime(s)
        BY <2>1, <3>1, <3>2, <4>1 DEF InTime
      <4> QED
        BY <2>6, <2>12, <4>2
    <3>3. CASE i = n + 1
      <4>1. SubSeq(a, 1, i - 1) = s
        <5>1. i - 1 = n /\ Len(a) = n + 1 /\ Len(s) = n
          BY <2>1, <3>3 DEF n, a
        <5> QED
          BY <2>1, <5>1
      <4>2. j \in FingerprintEnds(b.text) /\ systemLen(List(s)) + j <= SystemLimit
        BY <2>1, <3>1, <3>3, <4>1
      <4>3. j \in Nat
        <5>1. j \in Len(Fingerprint)..Len(b.text)
          BY <4>2 DEF FingerprintEnds
        <5> QED
          BY <2>5, <5>1, WholeConstants
      <4>4. left \in Nat /\ j <= left
        BY <2>4, <2>5, <2>6, <4>2, <4>3, WholeConstants DEF left
      <4>5. t # << >> /\ t \in WholeTexts /\ j \in FingerprintEnds(t)
        BY <2>2, <4>2, <4>4, CutKeepsPrint DEF t
      <4>6. KeepBlock(out, b) = Append(out, textBlock(t))
        BY <2>9, <4>5
      <4>7. textBlock(t) \in AnyBlock /\ FingerprintEnds(textBlock(t).text) # {}
        BY <2>10, <4>5
      <4> QED
        BY <2>4, <4>6, <4>7, PrintOfAppend
    <3> QED
      BY <2>1, <3>1, <3>2, <3>3
  <2> QED
    BY <2>1, <2>3, <2>11, <2>13 DEF a
<1> HIDE DEF Right, none
<1>4. none \in Good /\ \A s \in Seq(AnyBlock), b \in AnyBlock : s \in Good => Append(s, b) \in Good
  BY <1>1, <1>2, <1>3
<1> HIDE DEF Good
<1>5. blocks \in Good
  BY <1>4, EverySequence DEF none
<1> QED
  BY <1>5 DEF Good, Right

-----------------------------------------------------------------------------
(* What is sent.                                                           *)

\* The block that Inject puts first.
LEMMA PrintBlock ==
  /\ textBlock(Fingerprint) \in AnyBlock /\ textBlock(Fingerprint) \in AnyItem
  /\ textBlock(Fingerprint).text = Fingerprint /\ textBlock(Fingerprint).type # "string"
  /\ 3 \in FingerprintEnds(Fingerprint)
<1>1. "text" \in Strings
  BY DEF Strings
<1>2. Fingerprint \in WholeTexts /\ Len(Fingerprint) = 3
  BY WholeConstants
<1>3. SubSeq(Fingerprint, 1, 3) = Fingerprint
  <2>1. Fingerprint \in Seq(Strings)
    BY <1>2 DEF WholeTexts
  <2> QED
    BY <1>2, <2>1
<1>4. 3 \in FingerprintEnds(Fingerprint)
  BY <1>2, <1>3 DEF FingerprintEnds
<1> QED
  BY <1>1, <1>2, <1>4 DEF textBlock, AnyBlock, AnyItem

\* No blocks have no length.
LEMMA NoLength == systemLen(List(<< >>)) = 0
<1>1. SystemTexts(List(<< >>)) = << >>
  BY DEF SystemTexts, List
<1> QED
  BY <1>1, SizeRules DEF systemLen

\* The system with what is hoisted after it.
LEMMA WithHoistedRules ==
  ASSUME NEW system \in AnyValue, NEW blocks \in Seq(AnyBlock)
  PROVE  /\ WithHoisted(system, blocks) \in AnyValue
         /\ contentBlocks(WithHoisted(system, blocks)) = contentBlocks(system) \o blocks
<1>1. contentBlocks(system) \in Seq(AnyBlock)
  BY ContentType
<1> DEFINE c == contentBlocks(system)
           s == c \o blocks
<1> HIDE DEF c
<1>2. s \in Seq(AnyBlock) /\ c \o << >> = c
  BY <1>1 DEF c
<1>3. CASE blocks = << >>
  BY <1>2, <1>3 DEF WithHoisted, c
<1>4. CASE blocks # << >>
  <2>1. WithHoisted(system, blocks) = List(s)
    BY <1>4 DEF WithHoisted, c
  <2> HIDE DEF s
  <2>2. s \in Seq(AnyItem)
    BY <1>2, BlocksAreItems
  <2>3. List(s) \in AnyValue /\ contentBlocks(List(s)) = s
    BY <1>2, <2>2, ContentOfBlocks
  <2> QED
    BY <2>1, <2>3 DEF s, c
<1> QED
  BY <1>3, <1>4

\* The fingerprint in a value, by the blocks of it.
LEMMA InTimeByBlocks ==
  ASSUME NEW v \in AnyValue,
         \E i \in DOMAIN v.items : \E j \in FingerprintEnds(SystemTexts(v)[i]) :
           Size(SystemTexts(List(SubSeq(contentBlocks(v), 1, i - 1)))) + j <= SystemLimit
  PROVE  InTime(contentBlocks(v))
<1>1. PICK i \in DOMAIN v.items : \E j \in FingerprintEnds(SystemTexts(v)[i]) :
        Size(SystemTexts(List(SubSeq(contentBlocks(v), 1, i - 1)))) + j <= SystemLimit
  OBVIOUS
<1>2. PICK j \in FingerprintEnds(SystemTexts(v)[i]) :
        Size(SystemTexts(List(SubSeq(contentBlocks(v), 1, i - 1)))) + j <= SystemLimit
  BY <1>1
<1>3. SystemTexts(v)[i] = << >> \/ SystemTexts(v)[i] = v.items[i].text
  BY <1>1 DEF SystemTexts
<1>4. SystemTexts(v)[i] # << >>
  <2>1. j \in 3..Len(SystemTexts(v)[i])
    BY <1>2, WholeConstants DEF FingerprintEnds
  <2>2. ASSUME SystemTexts(v)[i] = << >>
        PROVE  FALSE
    <3>1. Len(SystemTexts(v)[i]) = 0
      BY <2>2
    <3> QED
      BY <2>1, <3>1
  <2> QED
    BY <2>2
<1>5. DOMAIN contentBlocks(v) = DOMAIN v.items /\ contentBlocks(v)[i].text = v.items[i].text
  BY <1>1, ContentType
<1>6. i \in DOMAIN contentBlocks(v) /\ j \in FingerprintEnds(contentBlocks(v)[i].text)
  BY <1>1, <1>2, <1>3, <1>4, <1>5
<1>7. systemLen(List(SubSeq(contentBlocks(v), 1, i - 1))) + j <= SystemLimit
  BY <1>2 DEF systemLen
<1> QED
  BY <1>6, <1>7 DEF InTime

\* Inject: the fingerprint is there, and in time if it was put first.
LEMMA WithFingerprintRules ==
  ASSUME NEW v \in AnyValue
  PROVE  /\ WithFingerprint(v) \in AnyValue
         /\ systemHasFingerprint(WithFingerprint(v))
         /\ ~systemHasFingerprint(v) => InTime(contentBlocks(WithFingerprint(v)))
<1>1. CASE systemHasFingerprint(v)
  BY <1>1 DEF WithFingerprint
<1>2. CASE ~systemHasFingerprint(v)
  <2> DEFINE b == textBlock(Fingerprint)
             c == contentBlocks(v)
             s == <<b>> \o c
  <2>1. b \in AnyBlock /\ b.text = Fingerprint /\ 3 \in FingerprintEnds(b.text)
    BY PrintBlock
  <2>2. c \in Seq(AnyBlock)
    BY ContentType
  <2> HIDE DEF b, c
  <2>3. s \in Seq(AnyBlock) /\ 1 \in DOMAIN s /\ s[1] = b /\ SubSeq(s, 1, 1 - 1) = << >>
    BY <2>1, <2>2
  <2>4. WithFingerprint(v) = List(s)
    BY <1>2 DEF WithFingerprint, b, c
  <2> HIDE DEF s
  <2>5. s \in Seq(AnyItem)
    BY <2>3, BlocksAreItems
  <2>6. List(s) \in AnyValue /\ contentBlocks(List(s)) = s
    BY <2>3, <2>5, ContentOfBlocks
  <2>7. FingerprintEnds(s[1].text) # {}
    BY <2>1, <2>3
  <2>8. systemHasFingerprint(List(s))
    BY <2>3, <2>7, PrintInBlocks
  <2>9. systemLen(List(SubSeq(s, 1, 1 - 1))) + 3 <= SystemLimit
    <3> DEFINE before == SubSeq(s, 1, 1 - 1)
    <3>1. before = << >>
      BY <2>3
    <3> HIDE DEF before
    <3>2. systemLen(List(before)) = 0
      BY <3>1, NoLength
    <3> QED
      BY <3>2, WholeConstants DEF before
  <2>10. InTime(s)
    BY <2>1, <2>3, <2>9 DEF InTime
  <2> QED
    BY <2>4, <2>6, <2>8, <2>10
<1> QED
  BY <1>1, <1>2

\* Cloak: what is sent is within the limit, and has the fingerprint if it was in
\* time.
LEMMA WithinLimitRules ==
  ASSUME NEW v \in AnyValue, NEW cloakMode
  PROVE  /\ WithinLimit(v, cloakMode) \in AnyValue
         /\ systemLen(WithinLimit(v, cloakMode)) <= SystemLimit
         /\ systemHasFingerprint(v) /\ InTime(contentBlocks(v)) =>
              systemHasFingerprint(WithinLimit(v, cloakMode))
<1> DEFINE c == contentBlocks(v)
           b == textBlock(Fingerprint)
<1>1. c \in Seq(AnyBlock) /\ c \in Seq(AnyItem)
  BY ContentType
<1>2. b \in AnyBlock /\ b \in AnyItem /\ b.text = Fingerprint /\ b.type # "string"
      /\ 3 \in FingerprintEnds(b.text)
  BY PrintBlock
<1> HIDE DEF c, b
<1>3. CASE systemLen(v) <= SystemLimit
  BY <1>3 DEF WithinLimit
<1>4. CASE ~(systemLen(v) <= SystemLimit) /\ cloakMode = "strict"
  <2>1. WithinLimit(v, cloakMode) = List(<<b>>)
    BY <1>4 DEF WithinLimit, b
  <2>2. << >> \in Seq(AnyItem) /\ << >> \in Seq(AnyBlock) /\ Append(<< >>, b) = <<b>>
    OBVIOUS
  <2>3. systemLen(List(<<b>>)) = 0 + Len(Fingerprint)
    BY <1>2, <2>2, LengthOfAppend, NoLength
  <2>4. <<b>> \in Seq(AnyBlock) /\ <<b>> \in Seq(AnyItem)
    BY <1>2
  <2>5. List(<<b>>) \in AnyValue
    BY <2>4, ContentOfBlocks
  <2>6. systemHasFingerprint(List(<<b>>))
    <3>1. systemHasFingerprint(List(Append(<< >>, b)))
      BY <1>2, <2>2, PrintOfAppend
    <3> QED
      BY <2>2, <3>1
  <2> QED
    BY <2>1, <2>3, <2>5, <2>6, WholeConstants
<1>5. CASE ~(systemLen(v) <= SystemLimit) /\ cloakMode # "strict"
  <2> DEFINE out == truncateSystemBlocks(c)
  <2>1. WithinLimit(v, cloakMode) = List(out)
    BY <1>5 DEF WithinLimit, c
  <2>2. out \in KeptBlocks
    BY <1>1, TruncateRules
  <2>3. InTime(c) => systemHasFingerprint(List(out))
    BY <1>1, TruncateKeepsPrint
  <2> HIDE DEF out
  <2>4. out \in Seq(AnyItem) /\ systemLen(List(out)) <= SystemLimit
    BY <2>2, BlocksAreItems DEF KeptBlocks
  <2>5. List(out) \in AnyValue
    BY <2>4, ContentOfBlocks
  <2> QED
    BY <2>1, <2>3, <2>4, <2>5 DEF c
<1> QED
  BY <1>3, <1>4, <1>5

\* The parts of a request after Hoist.
LEMMA HoistByParts ==
  ASSUME NEW family, NEW system, NEW messages, NEW topP, NEW input
  PROVE  Hoist(Req(family, system, messages, topP, input)) =
           Req(family, WithHoisted(system, Hoisted(messages)), Left(messages), topP, input)
  BY DEF Hoist, Req, Hoisted, Left, WithHoisted

\* docs/PROTOCOL.md:112: whatever system and messages a request of /v1/messages
\* has, of any length and with texts of whole characters, what is sent of it has
\* no system message that speaks and no top_p, ends every text at a whole
\* character, and for claude-* is within the limit and has the fingerprint
\* unless the client has put its own too late, for other models has all that the
\* client said in its order.
THEOREM RequestAcceptable ==
  ASSUME NEW family, NEW system \in AnyValue, NEW messages \in Seq(AnyMessage),
         NEW topP, NEW input, NEW cloakMode
  PROVE  Acceptable(Req(family, system, messages, topP, input), cloakMode)
<1> DEFINE req == Req(family, system, messages, topP, input)
           blocks == Hoisted(messages)
           whole == WithHoisted(system, blocks)
           signed == WithFingerprint(whole)
           sentSystem == SystemSent(family, system, blocks, cloakMode)
           sent == normalize(req, cloakMode)
<1>1. sent = Req(family, sentSystem, Left(messages), "absent", input)
  BY SentByParts
<1>2. sent.system = sentSystem /\ sent.messages = Left(messages) /\ sent.topP = "absent"
  BY <1>1 DEF Req
<1>3. req.family = family /\ req.system = system /\ req.messages = messages
      /\ Hoist(req).system = whole
  <2>1. Hoist(req) = Req(family, whole, Left(messages), topP, input)
    BY HoistByParts
  <2> HIDE DEF whole
  <2> QED
    BY <2>1 DEF Req
<1>4. blocks \in Seq(AnyBlock)
  BY HoistedRules
<1>5. whole \in AnyValue /\ contentBlocks(whole) = contentBlocks(system) \o blocks
  BY <1>4, WithHoistedRules
<1>6. sentSystem = IF family = "claude" THEN WithinLimit(signed, cloakMode) ELSE whole
  BY DEF SystemSent
<1> HIDE DEF req, blocks, whole, sentSystem, sent
<1>7. signed \in AnyValue /\ systemHasFingerprint(signed)
      /\ (~systemHasFingerprint(whole) => InTime(contentBlocks(signed)))
  BY <1>5, WithFingerprintRules
<1>8. systemHasFingerprint(whole) => signed = whole
  BY DEF WithFingerprint
<1> HIDE DEF signed
<1>9. /\ WithinLimit(signed, cloakMode) \in AnyValue
      /\ systemLen(WithinLimit(signed, cloakMode)) <= SystemLimit
      /\ InTime(contentBlocks(signed)) => systemHasFingerprint(WithinLimit(signed, cloakMode))
  BY <1>7, WithinLimitRules
<1>10. \A i \in DOMAIN sent.messages :
         ~(IsSystem(sent.messages[i]) /\ Speaks(sent.messages[i]))
  BY <1>2, LeftSilent
<1>11. sentSystem \in AnyValue
  BY <1>5, <1>6, <1>9
<1>12. ASSUME NEW i \in DOMAIN sentSystem.items
       PROVE  sentSystem.items[i].text = << >> \/ Last(sentSystem.items[i].text) # Head(Wide)
  <2> DEFINE t == sentSystem.items[i].text
  <2>1. sentSystem.items \in Seq(AnyItem)
    BY <1>11 DEF AnyValue
  <2>2. sentSystem.items[i] \in AnyItem
    BY <2>1
  <2>3. t \in WholeTexts
    BY <2>2 DEF AnyItem
  <2> HIDE DEF t
  <2>4. t \in Seq(Strings) /\ \A k \in 1..Len(t) : t[k] = "W" => k < Len(t)
    BY <2>3 DEF WholeTexts, Whole
  <2>5. t # << >> => Last(t) # "W"
    <3>1. t # << >> => Len(t) \in 1..Len(t) /\ Last(t) = t[Len(t)] /\ ~(Len(t) < Len(t))
      BY <2>4 DEF Last
    <3> QED
      BY <2>4, <3>1
  <2> QED
    BY <2>5, WholeConstants DEF t
<1>13. ASSUME family = "claude"
       PROVE  /\ systemLen(sentSystem) <= SystemLimit
              /\ FingerprintInTime(req) => systemHasFingerprint(sentSystem)
  <2>1. sentSystem = WithinLimit(signed, cloakMode)
    BY <1>6, <1>13
  <2>2. ASSUME FingerprintInTime(req), systemHasFingerprint(whole)
        PROVE  InTime(contentBlocks(whole))
    <3>1. \E i \in DOMAIN whole.items : \E j \in FingerprintEnds(SystemTexts(whole)[i]) :
            Size(SystemTexts(List(SubSeq(contentBlocks(whole), 1, i - 1)))) + j <= SystemLimit
      BY <1>3, <2>2 DEF FingerprintInTime
    <3> QED
      BY <1>5, <3>1, InTimeByBlocks
  <2>3. FingerprintInTime(req) => InTime(contentBlocks(signed))
    BY <1>7, <1>8, <2>2
  <2> QED
    BY <1>9, <2>1, <2>3
<1>14. ASSUME family # "claude"
       PROVE  contentBlocks(sentSystem) = InOrder(contentBlocks(system), messages)
  <2>1. contentBlocks(sentSystem) = contentBlocks(system) \o blocks
    BY <1>5, <1>6, <1>14
  <2>2. contentBlocks(system) \in Seq(AnyBlock)
    BY ContentType
  <2>3. InOrder(contentBlocks(system), messages) = contentBlocks(system) \o blocks
    BY <2>2, InOrderHoisted DEF blocks
  <2> QED
    BY <2>1, <2>3
<1>15. Acceptable(req, cloakMode)
  <2>1. sent = normalize(req, cloakMode)
    BY DEF sent, req
  <2>2. IF req.family = "claude"
        THEN /\ systemLen(sent.system) <= SystemLimit
             /\ FingerprintInTime(req) => systemHasFingerprint(sent.system)
        ELSE contentBlocks(sent.system) = InOrder(contentBlocks(req.system), req.messages)
    BY <1>2, <1>3, <1>13, <1>14
  <2>3. \A i \in DOMAIN sent.system.items :
          sent.system.items[i].text = << >> \/ Last(sent.system.items[i].text) # Head(Wide)
    BY <1>2, <1>12
  <2> QED
    BY <1>2, <1>10, <2>1, <2>2, <2>3 DEF Acceptable, InOrder
<1> QED
  BY <1>15 DEF req

\* The texts, systems and messages that the runs check are of this kind.
LEMMA RequestedTypes ==
  /\ Texts \subseteq WholeTexts
  /\ Systems \subseteq AnyValue
  /\ Turns \cup SystemTurns \subseteq AnyMessage
<1>1. Texts \subseteq WholeTexts
  <2>1. << >> \in WholeTexts /\ Narrow \in WholeTexts /\ Wide \in WholeTexts
        /\ Fingerprint \in WholeTexts
    BY WholeConstants
  <2> DEFINE a == Narrow \o Narrow
             b == Narrow \o Fingerprint
  <2>2. a \in WholeTexts /\ b \in WholeTexts /\ Fingerprint \o Wide \in WholeTexts
    BY <2>1, WholeTogether
  <2> HIDE DEF a, b
  <2>3. a \o Wide \in WholeTexts /\ b \o Wide \in WholeTexts
    BY <2>1, <2>2, WholeTogether
  <2> QED
    BY <2>1, <2>2, <2>3 DEF Texts, a, b
<1>2. \A t \in WholeTexts : textBlock(t) \in AnyItem /\ Plain(t) \in AnyItem
  <2>1. "text" \in Strings /\ "string" \in Strings
    BY DEF Strings
  <2> QED
    BY <2>1 DEF textBlock, Plain, AnyItem
<1>3. Image \in AnyItem
  <2>1. "image" \in Strings
    BY DEF Strings
  <2> QED
    BY <2>1, WholeConstants DEF Image, AnyItem
<1>4. Items \subseteq AnyItem
  <2>1. \A t \in Texts : textBlock(t) \in AnyItem
    BY <1>1, <1>2
  <2>2. Plain(Wide) \in AnyItem
    BY <1>2, WholeConstants
  <2> QED
    BY <1>3, <2>1, <2>2 DEF Items
<1>5. \A s \in Seq(AnyItem) : List(s) \in AnyValue
  BY ContentOfBlocks
<1>6. \A t \in WholeTexts : Text(t) \in AnyValue
  <2> SUFFICES ASSUME NEW t \in WholeTexts
               PROVE  Text(t) \in AnyValue
    OBVIOUS
  <2> DEFINE p == Plain(t)
  <2>1. p \in AnyItem /\ "string" \in Strings
    BY <1>2 DEF Strings
  <2> HIDE DEF p
  <2>2. <<p>> \in Seq(AnyItem)
    BY <2>1
  <2> DEFINE q == <<p>>
  <2> HIDE DEF q
  <2>3. [form |-> "string", items |-> q] \in AnyValue
    BY <2>1, <2>2 DEF AnyValue, q
  <2> QED
    BY <2>3 DEF Text, p, q
<1>7. Absent \in AnyValue
  <2> DEFINE none == << >>
  <2>1. none \in Seq(AnyItem) /\ "absent" \in Strings
    BY DEF Strings
  <2> HIDE DEF none
  <2>2. [form |-> "absent", items |-> none] \in AnyValue
    BY <2>1 DEF AnyValue
  <2> QED
    BY <2>2 DEF Absent, none
<1>8. Systems \subseteq AnyValue
  <2>1. BoundedSeq(Items, 2) \subseteq Seq(AnyItem)
    <3>1. \A m \in 0..2 : [1..m -> Items] \subseteq Seq(AnyItem)
      BY <1>4
    <3> QED
      BY <3>1 DEF BoundedSeq, SeqOf
  <2>2. \A s \in BoundedSeq(Items, 2) : List(s) \in AnyValue
    BY <1>5, <2>1
  <2>3. \A t \in Texts : Text(t) \in AnyValue
    BY <1>1, <1>6
  <2> QED
    BY <1>7, <2>2, <2>3 DEF Systems
<1>9. Turns \cup SystemTurns \subseteq AnyMessage
  <2>1. {"user", "assistant", "system"} \subseteq Strings
    BY DEF Strings
  <2>2. Text(Narrow) \in AnyValue /\ Text(Wide) \in AnyValue /\ Text(Fingerprint) \in AnyValue
    BY <1>6, WholeConstants
  <2>3. List(<<Image>>) \in AnyValue /\ List(<<textBlock(Narrow), Plain(Wide)>>) \in AnyValue
    <3> DEFINE x == Image
               y == textBlock(Narrow)
               z == Plain(Wide)
    <3>1. x \in AnyItem /\ y \in AnyItem /\ z \in AnyItem
      BY <1>2, <1>3, WholeConstants
    <3> HIDE DEF x, y, z
    <3>2. <<x>> \in Seq(AnyItem) /\ <<y, z>> \in Seq(AnyItem)
      BY <3>1
    <3>3. List(<<x>>) \in AnyValue /\ List(<<y, z>>) \in AnyValue
      BY <1>5, <3>2
    <3> QED
      BY <3>3 DEF x, y, z
  <2> QED
    BY <1>7, <2>1, <2>2, <2>3 DEF Turns, SystemTurns, AnyMessage
<1> QED
  BY <1>1, <1>8, <1>9

\* So is every request that the runs check acceptable.
THEOREM EveryRequestAcceptableHolds == EveryRequestAcceptable
<1> SUFFICES ASSUME NEW req \in Requested, NEW cloakMode \in CloakModes,
                    req.endpoint = "messages"
             PROVE  Acceptable(req, cloakMode)
  BY DEF EveryRequestAcceptable
<1>1. req.messages \in Seq(Turns \cup SystemTurns)
      /\ req = Req(req.family, req.system, req.messages, req.topP, req.input)
  BY RequestedParts
<1> DEFINE family == req.family
           system == req.system
           messages == req.messages
           topP == req.topP
           input == req.input
<1>2. req = Req(family, system, messages, topP, input)
  BY <1>1
<1>3. messages \in Seq(AnyMessage)
  <2> DEFINE M == Turns \cup SystemTurns
  <2>1. M \subseteq AnyMessage /\ messages \in Seq(M)
    BY <1>1, RequestedTypes
  <2> HIDE DEF M, messages
  <2> QED
    BY <2>1
<1>4. system \in Systems
  <2> DEFINE M == BoundedSeq(Turns \cup SystemTurns, 2)
  <2>1. Absent \in Systems
    BY DEF Systems
  <2> QED
    BY <2>1 DEF Requested
<1>5. system \in AnyValue
  BY <1>4, RequestedTypes
<1> HIDE DEF family, system, messages, topP, input
<1>6. Acceptable(Req(family, system, messages, topP, input), cloakMode)
  BY <1>3, <1>5, RequestAcceptable
<1> QED
  BY <1>2, <1>6

\* What a request sends is what the relay asks for, whatever the client sent.
THEOREM RelayAcceptsHolds == Spec => []RelayAccepts
<1>1. RelayAccepts
  BY EveryRequestAcceptableHolds DEF RelayAccepts
<1> QED
  BY <1>1, PTL

\* What is billed of an answer that has been passed on is the largest of each
\* count it reported.
THEOREM StreamsCountedHolds == Spec => []StreamsCounted
<1>1. StreamsCounted
  BY StreamsAndDocuments DEF StreamsCounted
<1> QED
  BY <1>1, PTL

=============================================================================
