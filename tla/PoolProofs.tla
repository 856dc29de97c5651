----------------------------- MODULE PoolProofs -----------------------------
(***************************************************************************)
(* Theorems about Pool for any accounts, keys, times to live and bounds:   *)
(* what Pick returns, that the map and the list of the sessions stay one   *)
(* table in the order of expiry, that sessions stay where they are, and    *)
(* what failures in a row do to a cooldown.                                *)
(***************************************************************************)
EXTENDS Pool, SequenceTheorems, FiniteSetTheorems, FunctionTheorems, TLAPS

\* What kinds of step there are; all but Pick forget the latest Pick.
LEMMA PickOrNot ==
  ASSUME [Next]_vars
  PROVE  \/ \E k \in Keys \cup {NoKey}, exclude \in SUBSET Accounts :
              PickSticky(k, exclude) \/ PickDrawn(k, exclude)
         \/ last' = NoPick
         \/ UNCHANGED vars
BY DEF Next, Pick, ReportFailure, ReportSuccess, FitnessChanges, Tick

\* A session is served by its account if that is a candidate, and by nobody
\* who is none.
LEMMA Served ==
  ASSUME NEW k \in Keys \cup {NoKey}, NEW exclude \in SUBSET Accounts,
         PickSticky(k, exclude) \/ PickDrawn(k, exclude)
  PROVE  /\ UNCHANGED <<fit, cooling>>
         /\ last'.key = k /\ last'.exclude = exclude
         /\ last'.account \in Candidates(exclude) \cup {NoAccount}
         /\ StickyServes(k, exclude) => last'.account = sticky[k].account
<1>1. CASE PickSticky(k, exclude)
  BY <1>1 DEF PickSticky, Returns, StickyServes, entryVars
<1>2. CASE PickDrawn(k, exclude)
  BY <1>2 DEF PickDrawn, Returns, entryVars
<1> QED
  BY <1>1, <1>2

\* Pool.Pick hands out no account that is cooling, unfit or excluded, whether
\* it drew it or found it bound to the session.
THEOREM PickedIsUsableHolds == Spec => []PickedIsUsable
<1>1. Init => PickedIsUsable
  BY DEF Init, PickedIsUsable, NoPick
<1>2. ASSUME PickedIsUsable, [Next]_vars
      PROVE  PickedIsUsable'
  <2>1. ASSUME NEW k \in Keys \cup {NoKey}, NEW exclude \in SUBSET Accounts,
               PickSticky(k, exclude) \/ PickDrawn(k, exclude)
        PROVE  PickedIsUsable'
    BY <2>1, Served DEF PickedIsUsable, Candidates, Usable
  <2>2. CASE last' = NoPick
    BY <2>2 DEF PickedIsUsable, NoPick
  <2>3. CASE UNCHANGED vars
    BY <1>2, <2>3 DEF vars, PickedIsUsable, Candidates, Usable
  <2> QED
    BY <1>2, <2>1, <2>2, <2>3, PickOrNot
<1> QED
  BY <1>1, <1>2, PTL DEF Spec

-----------------------------------------------------------------------------
(* The map and the list of the sessions.                                   *)

\* Taking out one element moves those behind it one place forward.
LEMMA RemoveAtProperties ==
  ASSUME NEW S, NEW s \in Seq(S), NEW i \in 1..Len(s)
  PROVE  /\ RemoveAt(s, i) \in Seq(S)
         /\ Len(RemoveAt(s, i)) = Len(s) - 1
         /\ \A j \in 1..Len(s) - 1 :
              RemoveAt(s, i)[j] = IF j < i THEN s[j] ELSE s[j + 1]
<1> DEFINE front == SubSeq(s, 1, i - 1)
           back  == SubSeq(s, i + 1, Len(s))
<1>0. Len(s) \in Nat /\ i \in Nat /\ \A j \in 1..Len(s) : s[j] \in S
  BY LenProperties, ElementOfSeq
<1>1. /\ front \in Seq(S) /\ Len(front) = i - 1
      /\ \A j \in 1..i - 1 : front[j] = s[j]
  <2>1. i - 1 \in Int /\ 1 \in Int /\ \A j \in 1..i - 1 : s[j] \in S
    BY <1>0
  <2>2. /\ front \in Seq(S)
        /\ Len(front) = IF 1 <= i - 1 THEN i - 1 - 1 + 1 ELSE 0
        /\ \A j \in 1..i - 1 - 1 + 1 : front[j] = s[1 + j - 1]
    BY <2>1, SubSeqProperties
  <2> HIDE DEF front
  <2> QED
    BY <1>0, <2>2
<1>2. /\ back \in Seq(S) /\ Len(back) = Len(s) - i
      /\ \A j \in 1..Len(s) - i : back[j] = s[i + j]
  <2>1. i + 1 \in Int /\ Len(s) \in Int /\ \A j \in i + 1..Len(s) : s[j] \in S
    BY <1>0
  <2>2. /\ back \in Seq(S)
        /\ Len(back) = IF i + 1 <= Len(s) THEN Len(s) - (i + 1) + 1 ELSE 0
        /\ \A j \in 1..Len(s) - (i + 1) + 1 : back[j] = s[(i + 1) + j - 1]
    BY <2>1, SubSeqProperties
  <2> HIDE DEF back
  <2> QED
    BY <1>0, <2>2
<1>3. RemoveAt(s, i) = front \o back
  BY DEF RemoveAt
<1> HIDE DEF front, back
<1>4. /\ front \o back \in Seq(S)
      /\ Len(front \o back) = Len(front) + Len(back)
      /\ \A j \in 1..Len(front) + Len(back) :
           (front \o back)[j] = IF j <= Len(front) THEN front[j]
                                ELSE back[j - Len(front)]
  BY <1>1, <1>2, ConcatProperties
<1>5. Len(front) + Len(back) = Len(s) - 1
  BY <1>0, <1>1, <1>2
<1>6. ASSUME NEW j \in 1..Len(s) - 1
      PROVE  (front \o back)[j] = IF j < i THEN s[j] ELSE s[j + 1]
  <2>1. CASE j < i
    BY <1>0, <1>1, <1>4, <1>5, <2>1
  <2>2. CASE ~(j < i)
    <3>1. j - (i - 1) \in 1..Len(s) - i /\ ~(j <= i - 1) /\ i + (j - (i - 1)) = j + 1
      BY <1>0, <2>2
    <3>2. (front \o back)[j] = back[j - (i - 1)]
      BY <1>1, <1>4, <1>5, <3>1
    <3> QED
      BY <1>2, <2>2, <3>1, <3>2
  <2> QED
    BY <2>1, <2>2
<1> QED
  BY <1>3, <1>4, <1>5, <1>6

\* What the map and the list of a table owe each other: the list has each key
\* of the map in one place, in the order of expiry.
Places(t) == 1..Len(t.list)
Listed(t) ==
  /\ t.list \in Seq(Keys)
  /\ \A i \in Places(t) : t.list[i] \in DOMAIN t.map
  /\ \A k \in DOMAIN t.map : \E i \in Places(t) : t.list[i] = k
  /\ \A i, j \in Places(t) : t.list[i] = t.list[j] => i = j
ByExpiry(t) ==
  \A i, j \in Places(t) :
    i < j => t.map[t.list[i]].left <= t.map[t.list[j]].left
TableOK(t) == Listed(t) /\ ByExpiry(t) /\ t.map \in [DOMAIN t.map -> Bindings]

\* A listed key is unlinked from its one place.
LEMMA UnlinkAtPlace ==
  ASSUME NEW t, Listed(t), NEW k \in DOMAIN t.map
  PROVE  \E i \in Places(t) : t.list[i] = k /\ Unlink(t, k) = RemoveAt(t.list, i)
<1> DEFINE i == CHOOSE j \in DOMAIN t.list : t.list[j] = k
<1>1. DOMAIN t.list = Places(t)
  BY LenProperties DEF Listed, Places
<1>2. i \in Places(t) /\ t.list[i] = k
  BY <1>1 DEF Listed
<1>3. Unlink(t, k) = RemoveAt(t.list, i)
  BY DEF Unlink
<1> QED
  BY <1>2, <1>3

\* Unlinking leaves the other keys, each in one place and in the order they
\* were in.
LEMMA UnlinkedList ==
  ASSUME NEW t, Listed(t), NEW k, NEW l, l = Unlink(t, k)
  PROVE  /\ l \in Seq(Keys)
         /\ Len(l) = IF k \in DOMAIN t.map THEN Len(t.list) - 1 ELSE Len(t.list)
         /\ \A j \in 1..Len(l) : l[j] \in DOMAIN t.map \ {k}
         /\ \A x \in DOMAIN t.map \ {k} : \E j \in 1..Len(l) : l[j] = x
         /\ \A j, m \in 1..Len(l) : l[j] = l[m] => j = m
         /\ ByExpiry(t) => \A j, m \in 1..Len(l) :
                             j < m => t.map[l[j]].left <= t.map[l[m]].left
<1> DEFINE n == Len(t.list)
<1>0. n \in Nat /\ Places(t) = 1..n
  BY LenProperties DEF Listed, Places
<1>1. CASE k \notin DOMAIN t.map
  <2>1. l = t.list
    BY <1>1 DEF Unlink
  <2> QED
    BY <1>1, <2>1 DEF Listed, ByExpiry, Places
<1>2. CASE k \in DOMAIN t.map
  <2>1. PICK i \in 1..n : t.list[i] = k /\ l = RemoveAt(t.list, i)
    BY <1>0, <1>2, UnlinkAtPlace
  <2> DEFINE was(j) == IF j < i THEN j ELSE j + 1
  <2>2. /\ l \in Seq(Keys) /\ Len(l) = n - 1
        /\ \A j \in 1..n - 1 : l[j] = IF j < i THEN t.list[j] ELSE t.list[j + 1]
    <3>1. t.list \in Seq(Keys)
      BY DEF Listed
    <3> QED
      BY <2>1, <3>1, RemoveAtProperties
  <2>3. \A j \in 1..n - 1 : was(j) \in 1..n /\ was(j) # i /\ l[j] = t.list[was(j)]
    BY <1>0, <2>2
  <2>4. \A j, m \in 1..n - 1 : (was(j) = was(m) => j = m) /\ (j < m => was(j) < was(m))
    BY <1>0
  <2>5. \A p \in 1..n : p # i => \E j \in 1..n - 1 : was(j) = p
    <3> SUFFICES ASSUME NEW p \in 1..n, p # i
                 PROVE  \E j \in 1..n - 1 : was(j) = p
      OBVIOUS
    <3>1. CASE p < i
      BY <1>0, <3>1
    <3>2. CASE p > i
      <4>1. p - 1 \in 1..n - 1 /\ was(p - 1) = p
        BY <1>0, <3>2
      <4> QED
        BY <4>1
    <3> QED
      BY <1>0, <3>1, <3>2
  <2> HIDE DEF was
  <2>6. \A j \in 1..n - 1 : l[j] \in DOMAIN t.map \ {k}
    BY <1>0, <2>1, <2>3 DEF Listed
  <2>7. ASSUME NEW x \in DOMAIN t.map \ {k}
        PROVE  \E j \in 1..n - 1 : l[j] = x
    <3>1. PICK p \in 1..n : t.list[p] = x
      BY <1>0 DEF Listed
    <3>2. p # i
      BY <2>1, <3>1
    <3>3. PICK j \in 1..n - 1 : was(j) = p
      BY <2>5, <3>2
    <3> QED
      BY <2>3, <3>1, <3>3
  <2>8. ASSUME NEW j \in 1..n - 1, NEW m \in 1..n - 1, l[j] = l[m]
        PROVE  j = m
    <3>1. t.list[was(j)] = t.list[was(m)] /\ was(j) \in 1..n /\ was(m) \in 1..n
      BY <2>3, <2>8
    <3>2. was(j) = was(m)
      BY <1>0, <3>1 DEF Listed
    <3> QED
      BY <2>4, <3>2
  <2>9. ASSUME ByExpiry(t), NEW j \in 1..n - 1, NEW m \in 1..n - 1, j < m
        PROVE  t.map[l[j]].left <= t.map[l[m]].left
    <3>1. was(j) < was(m) /\ was(j) \in 1..n /\ was(m) \in 1..n
      BY <2>3, <2>4, <2>9
    <3>2. t.map[t.list[was(j)]].left <= t.map[t.list[was(m)]].left
      BY <1>0, <2>9, <3>1 DEF ByExpiry
    <3> QED
      BY <2>3, <3>2
  <2> QED
    BY <1>2, <2>2, <2>6, <2>7, <2>8, <2>9
<1> QED
  BY <1>1, <1>2

\* Pool.removeSticky leaves a table.
LEMMA RemovedTable ==
  ASSUME NEW t, TableOK(t), NEW k \in DOMAIN t.map
  PROVE  /\ TableOK(removeSticky(t, k))
         /\ Len(removeSticky(t, k).list) = Len(t.list) - 1
         /\ DOMAIN removeSticky(t, k).map = DOMAIN t.map \ {k}
<1> DEFINE u == removeSticky(t, k)
           l == Unlink(t, k)
<1>1. u.list = l /\ u.map = [x \in DOMAIN t.map \ {k} |-> t.map[x]]
  BY DEF removeSticky, Restrict
<1>2. u.map \in [DOMAIN u.map -> Bindings] /\ DOMAIN u.map = DOMAIN t.map \ {k}
  BY <1>1 DEF TableOK
<1>3. Listed(t) /\ ByExpiry(t)
  BY DEF TableOK
<1>4. /\ l \in Seq(Keys) /\ Len(l) = Len(t.list) - 1
      /\ \A j \in 1..Len(l) : l[j] \in DOMAIN t.map \ {k}
      /\ \A x \in DOMAIN t.map \ {k} : \E j \in 1..Len(l) : l[j] = x
      /\ \A j, m \in 1..Len(l) : l[j] = l[m] => j = m
      /\ \A j, m \in 1..Len(l) : j < m => t.map[l[j]].left <= t.map[l[m]].left
  BY <1>3, UnlinkedList
<1> HIDE DEF u, l
<1>5. Listed(u)
  BY <1>1, <1>2, <1>4 DEF Listed, Places
<1>6. ByExpiry(u)
  BY <1>1, <1>4 DEF ByExpiry, Places
<1> QED
  BY <1>1, <1>2, <1>4, <1>5, <1>6 DEF TableOK, u

\* Binding puts the key at the end of the list, where it expires last.
LEMMA BoundTable ==
  ASSUME NEW t, TableOK(t), NEW k \in Keys, NEW a \in Accounts
  PROVE  /\ TableOK(Bind(t, k, a))
         /\ Len(Bind(t, k, a).list)
              = IF k \in DOMAIN t.map THEN Len(t.list) ELSE Len(t.list) + 1
<1> DEFINE u == Bind(t, k, a)
           l == Unlink(t, k)
           b == [account |-> a, left |-> StickyTTL]
<1>1. /\ u.list = Append(l, k)
      /\ u.map = [x \in DOMAIN t.map \cup {k} |-> IF x = k THEN b ELSE t.map[x]]
  BY DEF Bind
<1>2. b \in Bindings /\ b.left = StickyTTL /\ StickyTTL \in Nat
  BY StickyAssumption DEF Bindings
<1> HIDE DEF b
<1>3. /\ u.map \in [DOMAIN u.map -> Bindings] /\ DOMAIN u.map = DOMAIN t.map \cup {k}
      /\ u.map[k] = b /\ \A x \in DOMAIN t.map \ {k} : u.map[x] = t.map[x]
  BY <1>1, <1>2 DEF TableOK
<1>4. Listed(t) /\ ByExpiry(t)
  BY DEF TableOK
<1>5. /\ l \in Seq(Keys)
      /\ Len(l) = IF k \in DOMAIN t.map THEN Len(t.list) - 1 ELSE Len(t.list)
      /\ \A j \in 1..Len(l) : l[j] \in DOMAIN t.map \ {k}
      /\ \A x \in DOMAIN t.map \ {k} : \E j \in 1..Len(l) : l[j] = x
      /\ \A j, m \in 1..Len(l) : l[j] = l[m] => j = m
      /\ \A j, m \in 1..Len(l) : j < m => t.map[l[j]].left <= t.map[l[m]].left
  BY <1>4, UnlinkedList
<1> HIDE DEF u, l
<1>6. Len(l) \in Nat /\ Len(t.list) \in Nat
  BY <1>4, <1>5, LenProperties DEF Listed
<1>7. /\ u.list \in Seq(Keys) /\ Len(u.list) = Len(l) + 1
      /\ \A j \in 1..Len(l) : u.list[j] = l[j]
      /\ u.list[Len(l) + 1] = k
  BY <1>1, <1>5, AppendProperties
<1>8. \A j \in Places(u) : j \in 1..Len(l) \/ j = Len(l) + 1
  BY <1>6, <1>7 DEF Places
<1>9. Listed(u)
  <2>1. \A j \in Places(u) : u.list[j] \in DOMAIN u.map
    BY <1>3, <1>5, <1>7, <1>8
  <2>2. ASSUME NEW x \in DOMAIN u.map
        PROVE  \E j \in Places(u) : u.list[j] = x
    <3>1. CASE x = k
      BY <1>6, <1>7, <3>1 DEF Places
    <3>2. CASE x # k
      <4>1. PICK j \in 1..Len(l) : l[j] = x
        BY <1>3, <1>5, <3>2
      <4>2. j \in Places(u)
        BY <1>6, <1>7 DEF Places
      <4> QED
        BY <1>7, <4>1, <4>2
    <3> QED
      BY <3>1, <3>2
  <2>3. ASSUME NEW j \in Places(u), NEW m \in Places(u), u.list[j] = u.list[m]
        PROVE  j = m
    <3>1. CASE j \in 1..Len(l) /\ m \in 1..Len(l)
      BY <1>5, <1>7, <2>3, <3>1
    <3>2. CASE j \in 1..Len(l) /\ m = Len(l) + 1
      BY <1>5, <1>7, <2>3, <3>2
    <3>3. CASE j = Len(l) + 1 /\ m \in 1..Len(l)
      BY <1>5, <1>7, <2>3, <3>3
    <3> QED
      BY <1>8, <3>1, <3>2, <3>3
  <2> QED
    BY <1>7, <2>1, <2>2, <2>3 DEF Listed
<1>10. ByExpiry(u)
  <2> SUFFICES ASSUME NEW j \in Places(u), NEW m \in Places(u), j < m
               PROVE  u.map[u.list[j]].left <= u.map[u.list[m]].left
    BY DEF ByExpiry
  <2>1. j \in 1..Len(l) /\ u.list[j] = l[j] /\ l[j] \in DOMAIN t.map \ {k}
    BY <1>5, <1>6, <1>7, <1>8 DEF Places
  <2>2. u.map[u.list[j]] = t.map[l[j]]
    BY <1>3, <2>1
  <2>3. CASE m \in 1..Len(l)
    <3>1. u.map[u.list[m]] = t.map[l[m]]
      BY <1>3, <1>5, <1>7, <2>3
    <3> QED
      BY <1>5, <2>1, <2>2, <2>3, <3>1
  <2>4. CASE m = Len(l) + 1
    <3>1. u.map[u.list[m]] = b
      BY <1>3, <1>7, <2>4
    <3>2. t.map[l[j]].left <= StickyTTL
      <4>1. t.map[l[j]] \in Bindings
        BY <2>1 DEF TableOK
      <4> QED
        BY <1>2, <4>1 DEF Bindings
    <3> QED
      BY <1>2, <2>2, <3>1, <3>2
  <2> QED
    BY <1>8, <2>3, <2>4
<1>11. Len(u.list) = IF k \in DOMAIN t.map THEN Len(t.list) ELSE Len(t.list) + 1
  BY <1>5, <1>6, <1>7
<1> QED
  BY <1>3, <1>9, <1>10, <1>11 DEF TableOK, u

\* The list is as long as the map is large.
LEMMA ListIsAsLong ==
  ASSUME NEW t, Listed(t)
  PROVE  /\ IsFiniteSet(DOMAIN t.map)
         /\ Cardinality(DOMAIN t.map) = Len(t.list)
<1> DEFINE n == Len(t.list)
<1>1. n \in Nat /\ t.list \in [1..n -> Keys] /\ Places(t) = 1..n
  BY LenProperties DEF Listed, Places
<1>2. t.list \in [1..n -> DOMAIN t.map]
  BY <1>1 DEF Listed
<1>3. /\ \A i, j \in 1..n : t.list[i] = t.list[j] => i = j
      /\ \A k \in DOMAIN t.map : \E i \in 1..n : t.list[i] = k
  BY <1>1 DEF Listed
<1>4. t.list \in Bijection(1..n, DOMAIN t.map)
  BY <1>2, <1>3, Fun_IsBij
<1>5. IsFiniteSet(1..n) /\ Cardinality(1..n) = n
  BY <1>1, FS_Interval
<1>6. ExistsBijection(1..n, DOMAIN t.map)
  BY <1>4 DEF ExistsBijection
<1> QED
  BY <1>5, <1>6, FS_Bijection

\* The loop of setSticky removes the front of a full list, no more, and none
\* of a list that has room.
LEMMA EvictedTable ==
  ASSUME NEW t, TableOK(t), Len(t.list) <= MaxSticky
  PROVE  /\ TableOK(Evict(t))
         /\ Len(Evict(t).list) < MaxSticky
         /\ DOMAIN Evict(t).map \subseteq DOMAIN t.map
<1> DEFINE n == Len(t.list)
<1>0. /\ n \in Nat /\ Places(t) = 1..n /\ t.list \in Seq(Keys)
      /\ \A i \in 1..n : t.list[i] \in Keys
      /\ MaxSticky \in Nat \ {0}
  BY LenProperties, ElementOfSeq, StickyAssumption DEF TableOK, Listed, Places
<1>1. Surplus(t) = n - MaxSticky + 1
  BY ListIsAsLong DEF TableOK, Surplus
<1>2. CASE n < MaxSticky
  <2>1. Evict(t) = t
    <3>1. Surplus(t) <= 0
      BY <1>0, <1>1, <1>2
    <3> QED
      BY <3>1 DEF Evict
  <2> QED
    BY <1>2, <2>1
<1>3. CASE n = MaxSticky
  <2> DEFINE k == t.list[1]
             gone == SubSeq(t.list, 1, 1)
             rest == SubSeq(t.list, 2, n)
  <2>1. Surplus(t) = 1 /\ 1 \in 1..n
    BY <1>0, <1>1, <1>3
  <2>2. ToSet(gone) = {k}
    <3>1. \A i \in 1..1 : t.list[i] \in Keys
      BY <1>0, <2>1
    <3>2. /\ gone \in Seq(Keys)
          /\ Len(gone) = IF 1 <= 1 THEN 1 - 1 + 1 ELSE 0
          /\ \A i \in 1..1 - 1 + 1 : gone[i] = t.list[1 + i - 1]
      BY <3>1, SubSeqProperties
    <3> HIDE DEF gone
    <3>3. Len(gone) = 1 /\ gone[1] = k
      BY <3>2
    <3>4. DOMAIN gone = {1}
      BY <3>2, <3>3, LenProperties
    <3> QED
      BY <3>3, <3>4 DEF ToSet
  <2>3. Evict(t) = [map |-> Restrict(t.map, DOMAIN t.map \ {k}), list |-> rest]
    <3>1. ~(Surplus(t) <= 0)
      BY <2>1
    <3>2. Evict(t) = [map |-> Restrict(t.map, DOMAIN t.map \ ToSet(gone)),
                      list |-> rest]
      BY <2>1, <3>1 DEF Evict
    <3> QED
      BY <2>2, <3>2
  <2>4. k \in DOMAIN t.map
    BY <1>0, <2>1 DEF TableOK, Listed
  <2>5. Unlink(t, k) = RemoveAt(t.list, 1)
    <3>1. PICK i \in 1..n : t.list[i] = k /\ Unlink(t, k) = RemoveAt(t.list, i)
      BY <1>0, <2>4, UnlinkAtPlace DEF TableOK
    <3>2. i = 1
      BY <1>0, <2>1, <3>1 DEF TableOK, Listed
    <3> QED
      BY <3>1, <3>2
  <2>6. RemoveAt(t.list, 1) = rest
    <3>1. RemoveAt(t.list, 1) = SubSeq(t.list, 1, 0) \o rest
      BY DEF RemoveAt
    <3>2. SubSeq(t.list, 1, 0) = << >>
      BY SubSeqEmpty
    <3>3. \A i \in 2..n : t.list[i] \in Keys
      BY <1>0
    <3>4. rest \in Seq(Keys)
      BY <1>0, <3>3, SubSeqProperties
    <3> HIDE DEF rest
    <3> QED
      BY <3>1, <3>2, <3>4, ConcatEmptySeq
  <2>7. Evict(t) = removeSticky(t, k)
    BY <2>3, <2>5, <2>6 DEF removeSticky
  <2> HIDE DEF k
  <2>8. /\ TableOK(Evict(t)) /\ Len(Evict(t).list) = n - 1
        /\ DOMAIN Evict(t).map = DOMAIN t.map \ {k}
    BY <2>4, <2>7, RemovedTable
  <2> QED
    BY <1>0, <1>3, <2>8
<1> QED
  BY <1>0, <1>2, <1>3

\* What Pool.setSticky leaves is a table of at most stickyMaxEntries.
LEMMA SetTable ==
  ASSUME NEW t, TableOK(t), Len(t.list) <= MaxSticky,
         NEW k \in Keys, NEW a \in Accounts
  PROVE  TableOK(setSticky(t, k, a)) /\ Len(setSticky(t, k, a).list) <= MaxSticky
<1>0. MaxSticky \in Nat
  BY StickyAssumption
<1>1. CASE k \in DOMAIN t.map
  <2>1. setSticky(t, k, a) = Bind(t, k, a)
    BY <1>1 DEF setSticky, MakeRoom
  <2> QED
    BY <1>1, <2>1, BoundTable
<1>2. CASE k \notin DOMAIN t.map
  <2> DEFINE u == Evict(t)
  <2>1. setSticky(t, k, a) = Bind(u, k, a)
    BY <1>2 DEF setSticky, MakeRoom
  <2>2. TableOK(u) /\ Len(u.list) < MaxSticky /\ k \notin DOMAIN u.map
    BY <1>2, EvictedTable
  <2>3. Len(u.list) \in Nat
    BY <2>2, LenProperties DEF TableOK, Listed
  <2> HIDE DEF u
  <2>4. TableOK(Bind(u, k, a)) /\ Len(Bind(u, k, a).list) = Len(u.list) + 1
    BY <2>2, BoundTable
  <2> QED
    BY <1>0, <2>1, <2>2, <2>3, <2>4
<1> QED
  BY <1>1, <1>2

\* The inductive invariant of the sessions.
SessionsOK == TableOK(Table) /\ Len(lru) <= MaxSticky

\* A table is what its map and its list are.
LEMMA SameTable ==
  ASSUME NEW t, TableOK(t), Len(t.list) <= MaxSticky, Becomes(t)
  PROVE  SessionsOK'
BY DEF Becomes, SessionsOK, Table, TableOK, Listed, ByExpiry, Places

\* Pool.New starts without sessions.
LEMMA SessionsInit ==
  ASSUME Init
  PROVE  SessionsOK
<1>1. sticky = << >> /\ lru = << >>
  BY DEF Init
<1>2. lru \in Seq(Keys) /\ Len(lru) = 0
  BY <1>1, EmptySeq
<1>3. DOMAIN sticky = {}
  BY <1>1
<1>4. Table.map = sticky /\ Table.list = lru /\ Places(Table) = {}
  BY <1>2 DEF Table, Places
<1>5. sticky \in [DOMAIN sticky -> Bindings]
  BY <1>1, <1>3
<1> QED
  BY <1>2, <1>3, <1>4, <1>5, StickyAssumption
  DEF SessionsOK, TableOK, Listed, ByExpiry

\* Every session is one of Keys, served by one of Accounts.
LEMMA SessionTypes ==
  ASSUME SessionsOK
  PROVE  /\ Bound \subseteq Keys /\ sticky \in [Bound -> Bindings]
         /\ lru \in Seq(Keys)
<1>1. Table.map = sticky /\ Table.list = lru
  BY DEF Table
<1>2. lru \in Seq(Keys) /\ sticky \in [Bound -> Bindings]
  BY <1>1 DEF SessionsOK, TableOK, Listed, Bound
<1>3. \A k \in Bound : \E i \in 1..Len(lru) : lru[i] = k
  BY <1>1 DEF SessionsOK, TableOK, Listed, Bound, Places
<1> QED
  BY <1>2, <1>3, ElementOfSeq

\* A picked session is bound again, a drawn account bound instead.
LEMMA PickKeepsSessions ==
  ASSUME SessionsOK, NEW k \in Keys \cup {NoKey}, NEW exclude \in SUBSET Accounts,
         PickSticky(k, exclude) \/ PickDrawn(k, exclude)
  PROVE  SessionsOK'
<1>0. /\ TableOK(Table) /\ Len(Table.list) <= MaxSticky
      /\ Table.map = sticky /\ Table.list = lru /\ DOMAIN Table.map = Bound
      /\ Len(Table.list) \in Nat /\ MaxSticky \in Nat
  BY StickyAssumption, LenProperties DEF SessionsOK, TableOK, Listed, Table, Bound
<1>1. CASE PickSticky(k, exclude)
  <2> DEFINE t == Bind(Table, k, sticky[k].account)
  <2>1. k \in DOMAIN Table.map /\ k \in Keys /\ sticky[k].account \in Accounts
    BY <1>0, <1>1, SessionTypes DEF PickSticky, StickyServes, Candidates
  <2>2. Becomes(t)
    BY <1>1 DEF PickSticky
  <2>3. TableOK(t) /\ Len(t.list) = Len(Table.list)
    BY <1>0, <2>1, BoundTable
  <2> HIDE DEF t
  <2> QED
    BY <1>0, <2>2, <2>3, SameTable
<1>2. CASE PickDrawn(k, exclude)
  <2> DEFINE t == IF k \in Bound /\ Expired(k) THEN removeSticky(Table, k) ELSE Table
  <2>1. TableOK(t) /\ Len(t.list) <= MaxSticky
    <3>1. CASE k \in Bound
      <4>1. /\ TableOK(removeSticky(Table, k))
            /\ Len(removeSticky(Table, k).list) = Len(Table.list) - 1
        BY <1>0, <3>1, RemovedTable
      <4> QED
        BY <1>0, <4>1
    <3>2. CASE k \notin Bound
      BY <1>0, <3>2
    <3> QED
      BY <3>1, <3>2
  <2>2. \/ Becomes(t)
        \/ k # NoKey /\ \E a \in Candidates(exclude) : Becomes(setSticky(t, k, a))
    BY <1>2 DEF PickDrawn
  <2> HIDE DEF t
  <2>3. CASE Becomes(t)
    BY <2>1, <2>3, SameTable
  <2>4. ASSUME NEW a \in Candidates(exclude), k # NoKey, Becomes(setSticky(t, k, a))
        PROVE  SessionsOK'
    <3>1. a \in Accounts /\ k \in Keys
      BY <2>4 DEF Candidates
    <3>2. TableOK(setSticky(t, k, a)) /\ Len(setSticky(t, k, a).list) <= MaxSticky
      BY <2>1, <3>1, SetTable
    <3> QED
      BY <2>4, <3>2, SameTable
  <2> QED
    BY <2>2, <2>3, <2>4
<1> QED
  BY <1>1, <1>2

\* Time passes for all sessions alike.
LEMMA TickKeepsSessions ==
  ASSUME SessionsOK, Tick
  PROVE  SessionsOK'
<1> DEFINE older(n) == IF n < 0 THEN -1 ELSE n - 1
<1>0. /\ Table.map = sticky /\ Table.list = lru /\ Table'.map = sticky'
      /\ Table'.list = lru' /\ DOMAIN sticky = Bound
  BY DEF Table, Bound
<1>1. /\ sticky \in [Bound -> Bindings] /\ lru' = lru
      /\ DOMAIN sticky' = Bound
      /\ \A k \in Bound : sticky'[k] = [sticky[k] EXCEPT !.left = older(sticky[k].left)]
  BY SessionTypes DEF Tick
<1>2. /\ \A n \in -1..StickyTTL : older(n) \in -1..StickyTTL
      /\ \A n, m \in -1..StickyTTL : n <= m => older(n) <= older(m)
  BY StickyAssumption
<1> HIDE DEF older
<1>3. \A k \in Bound : /\ sticky[k].left \in -1..StickyTTL
                       /\ sticky'[k] \in Bindings
                       /\ sticky'[k].left = older(sticky[k].left)
  BY <1>1, <1>2 DEF Bindings
<1>4. sticky' \in [DOMAIN sticky' -> Bindings]
  <2>1. sticky' = [k \in Bound |-> sticky'[k]]
    BY DEF Tick
  <2> QED
    BY <1>1, <1>3, <2>1
<1>5. Listed(Table)'
  BY <1>0, <1>1 DEF SessionsOK, TableOK, Listed, Places
<1>6. ByExpiry(Table)'
  <2> SUFFICES ASSUME NEW i \in 1..Len(lru), NEW j \in 1..Len(lru), i < j
               PROVE  sticky'[lru[i]].left <= sticky'[lru[j]].left
    BY <1>0, <1>1 DEF ByExpiry, Places
  <2>1. lru[i] \in Bound /\ lru[j] \in Bound
    BY <1>0 DEF SessionsOK, TableOK, Listed, Places
  <2>2. sticky[lru[i]].left <= sticky[lru[j]].left
    BY <1>0 DEF SessionsOK, TableOK, ByExpiry, Places
  <2> QED
    BY <1>2, <1>3, <2>1, <2>2
<1> QED
  BY <1>0, <1>1, <1>4, <1>5, <1>6 DEF SessionsOK, TableOK

\* The sessions are a table in every state.
LEMMA SessionsAlwaysOK == Spec => []SessionsOK
<1>1. Init => SessionsOK
  BY SessionsInit
<1>2. ASSUME SessionsOK, [Next]_vars
      PROVE  SessionsOK'
  <2>1. CASE UNCHANGED <<sticky, lru>>
    BY <1>2, <2>1 DEF SessionsOK, Table
  <2>2. CASE Pick
    BY <1>2, <2>2, PickKeepsSessions DEF Pick
  <2>3. CASE Tick
    BY <1>2, <2>3, TickKeepsSessions
  <2> QED
    BY <1>2, <2>1, <2>2, <2>3
    DEF Next, ReportFailure, ReportSuccess, FitnessChanges, vars
<1> QED
  BY <1>1, <1>2, PTL DEF Spec

\* Pool.sticky and Pool.lru stay two views of one table of at most
\* stickyMaxEntries, through every binding, expiry and eviction.
THEOREM ListMatchesMapHolds == Spec => []ListMatchesMap
<1>1. ASSUME SessionsOK
      PROVE  ListMatchesMap
  <2>1. /\ Table.map = sticky /\ Table.list = lru /\ DOMAIN Table.map = Bound
        /\ Listed(Table)
    BY <1>1 DEF Table, Bound, SessionsOK, TableOK
  <2>2. DOMAIN lru = 1..Len(lru)
    BY <2>1, LenProperties DEF Listed
  <2>3. ToSet(lru) = Bound
    BY <2>1, <2>2 DEF ToSet, Listed, Places
  <2>4. Cardinality(Bound) = Len(lru)
    BY <2>1, ListIsAsLong
  <2> QED
    BY <1>1, <2>3, <2>4 DEF SessionsOK, ListMatchesMap
<1> QED
  BY <1>1, SessionsAlwaysOK, PTL

\* What setSticky evicts is the session that would have expired first.
THEOREM ListByExpiryHolds == Spec => []ListByExpiry
<1>1. SessionsOK => ListByExpiry
  BY DEF SessionsOK, TableOK, ByExpiry, Places, Table, ListByExpiry
<1> QED
  BY <1>1, SessionsAlwaysOK, PTL

\* Pool.Pick moves no session whose account could have served it within the
\* session's stickyTTL, whatever other keys were bound or evicted before.
THEOREM SessionsStayHolds == Spec => SessionsStay
<1> DEFINE Stay == \A k \in Bound :
             /\ last' # NoPick /\ last'.key = k
             /\ sticky[k].left >= 0
             /\ sticky[k].account \in Candidates(last'.exclude)
             => last'.account = sticky[k].account
<1>1. ASSUME SessionsOK, [Next]_vars
      PROVE  [Stay]_vars
  <2> SUFFICES ASSUME NEW k \in Bound,
                      ~ UNCHANGED vars,
                      last' # NoPick, last'.key = k,
                      sticky[k].left >= 0,
                      sticky[k].account \in Candidates(last'.exclude)
               PROVE  last'.account = sticky[k].account
    BY DEF Bound
  <2>1. PICK q \in Keys \cup {NoKey}, exclude \in SUBSET Accounts :
          PickSticky(q, exclude) \/ PickDrawn(q, exclude)
    BY <1>1, PickOrNot
  <2>2. q = k /\ exclude = last'.exclude
    BY <2>1, Served
  <2>3. ~Expired(k)
    BY <1>1, SessionTypes DEF Bindings, Expired
  <2>4. StickyServes(k, exclude)
    BY <2>2, <2>3 DEF StickyServes
  <2> QED
    BY <2>1, <2>2, <2>4, Served
<1> QED
  BY <1>1, SessionsAlwaysOK, PTL DEF Spec, SessionsStay

-----------------------------------------------------------------------------
(* Cooldowns.                                                              *)

\* From the 56th failure on, every one bit is shifted out of the word.
LEMMA BackoffBeyond55 ==
  ASSUME NEW n \in Nat, n >= 56
  PROVE  Backoff64(n) = {}
<1> DEFINE b == ShiftLeft64(BaseBackoff64, n - 1)
<1>1. \A i \in BaseBackoff64 : i \in Int /\ i >= 9
  BY DEF BaseBackoff64, TimesTwoTo9
<1>2. b = {}
  BY <1>1 DEF ShiftLeft64
<1> HIDE DEF b
<1>3. ~Negative64(b) /\ ~Greater64(b, MaxBackoff64)
  BY <1>2 DEF Negative64, Greater64
<1> QED
  BY <1>2, <1>3 DEF Backoff64, b

\* What the first six failures cost in ticks, if maxBackoff allows it.
Doubled(n) == 2^(n - 1)

\* The first six, one by one.
LEMMA Doublings ==
  ASSUME NEW n \in 1..6
  PROVE  Doubled(n) = CASE n = 1 -> 1 [] n = 2 -> 2 [] n = 3 -> 4
                        [] n = 4 -> 8 [] n = 5 -> 16 [] n = 6 -> 32
<1>1. CASE n = 1
  BY <1>1 DEF Doubled
<1>2. CASE n = 2
  BY <1>2 DEF Doubled
<1>3. CASE n = 3
  BY <1>3 DEF Doubled
<1>4. CASE n = 4
  BY <1>4 DEF Doubled
<1>5. CASE n = 5
  BY <1>5 DEF Doubled
<1>6. CASE n = 6
  BY <1>6 DEF Doubled
<1> QED
  BY <1>1, <1>2, <1>3, <1>4, <1>5, <1>6

\* They are numbers, and none is less than the one before.
LEMMA DoublingsGrow ==
  ASSUME NEW n \in 1..6
  PROVE  Doubled(n) \in Nat /\ (n < 6 => Doubled(n) <= Doubled(n + 1))
<1>1. CASE n = 6
  BY <1>1, Doublings
<1>2. CASE n # 6
  <2>1. n + 1 \in 1..6
    BY <1>2
  <2>2. Doubled(n + 1) = CASE n + 1 = 1 -> 1 [] n + 1 = 2 -> 2 [] n + 1 = 3 -> 4
                           [] n + 1 = 4 -> 8 [] n + 1 = 5 -> 16 [] n + 1 = 6 -> 32
    BY <2>1, Doublings
  <2> QED
    BY <1>2, <2>2, Doublings
<1> QED
  BY <1>1, <1>2

\* The cooldown of the n-th failure in ticks: doubled and cut up to the 55th,
\* nothing beyond.
LEMMA BackoffTicks ==
  ASSUME NEW n \in Nat \ {0}
  PROVE  /\ n <= 6 => Backoff(n) = IF Doubled(n) <= MaxBackoff THEN Doubled(n)
                                   ELSE MaxBackoff
         /\ n \in 7..55 => Backoff(n) = MaxBackoff
         /\ n > 55 => Backoff(n) = 0
<1>1. CASE n <= 6
  <2>1. n \in 1..6
    BY <1>1
  <2>2. Backoff64(n) # {} /\ Backoff64(n) # MaxBackoff64
    BY <2>1, BackoffBelowMax
  <2>3. Backoff(n) = IF Doubled(n) <= MaxBackoff THEN Doubled(n) ELSE MaxBackoff
    BY <2>2, Zenon DEF Backoff, Doubled
  <2> QED
    BY <1>1, <2>3
<1>2. CASE n \in 7..55
  <2>1. n \in 1..55 /\ ~(n <= 6)
    BY <1>2
  <2>2. Backoff64(n) = MaxBackoff64 /\ MaxBackoff64 # {}
    BY <2>1, BackoffUpTo55, BackoffBelowMax
  <2>3. Backoff(n) = MaxBackoff
    BY <2>2 DEF Backoff
  <2> QED
    BY <1>2, <2>3
<1>3. CASE n > 55
  <2>1. Backoff64(n) = {} /\ MaxBackoff64 # {}
    BY <1>3, BackoffBeyond55, BackoffBelowMax
  <2>2. Backoff(n) = 0
    BY <2>1 DEF Backoff
  <2> QED
    BY <1>3, <2>2
<1> QED
  BY <1>1, <1>2, <1>3

\* Pool.ReportFailure cools no account down for longer than maxBackoff, and
\* up to the 55th failure no more briefly than at the failure before.
LEMMA BackoffBounds ==
  ASSUME NEW n \in Nat \ {0}
  PROVE  /\ Backoff(n) \in 0..MaxBackoff
         /\ n < 55 => Backoff(n) <= Backoff(n + 1)
<1>0. MaxBackoff \in Nat \ {0}
  BY CooldownAssumption
<1>1. CASE n <= 6
  <2>1. n \in 1..6 /\ Doubled(n) \in Nat
    BY <1>1, DoublingsGrow
  <2>2. Backoff(n) = IF Doubled(n) <= MaxBackoff THEN Doubled(n) ELSE MaxBackoff
    BY <1>1, BackoffTicks
  <2>3. Backoff(n) \in 0..MaxBackoff
    BY <1>0, <2>1, <2>2
  <2>4. CASE n = 6
    <3>1. Backoff(n + 1) = MaxBackoff
      BY <2>4, BackoffTicks
    <3> QED
      BY <1>0, <2>3, <3>1
  <2>5. CASE n # 6
    <3>1. n < 6 /\ n + 1 \in 1..6 /\ n + 1 <= 6 /\ n + 1 \in Nat \ {0}
      BY <1>1, <2>5
    <3>2. Backoff(n + 1) = IF Doubled(n + 1) <= MaxBackoff THEN Doubled(n + 1)
                           ELSE MaxBackoff
      BY <3>1, BackoffTicks
    <3>3. Doubled(n) <= Doubled(n + 1) /\ Doubled(n + 1) \in Nat
      BY <2>1, <3>1, DoublingsGrow
    <3> QED
      BY <1>0, <2>1, <2>2, <2>3, <3>2, <3>3
  <2> QED
    BY <2>4, <2>5
<1>2. CASE n \in 7..54
  <2>1. n + 1 \in 7..55 /\ n + 1 \in Nat \ {0}
    BY <1>2
  <2>2. Backoff(n) = MaxBackoff /\ Backoff(n + 1) = MaxBackoff
    BY <1>2, <2>1, BackoffTicks
  <2> QED
    BY <1>0, <2>2
<1>3. CASE n >= 55
  <2>1. Backoff(n) = MaxBackoff \/ Backoff(n) = 0
    BY <1>3, BackoffTicks
  <2> QED
    BY <1>0, <1>3, <2>1
<1> QED
  BY <1>1, <1>2, <1>3

\* What the counts and the cooldowns range over.
EntriesOK == /\ fit \subseteq Accounts
             /\ failures \in [Accounts -> 0..MaxFailures]
             /\ cooling \in [Accounts -> 0..MaxBackoff]

\* One more failure cools its account down for the backoff of the new count.
LEMMA FailureStep ==
  ASSUME EntriesOK, NEW a \in Accounts, ReportFailure(a)
  PROVE  /\ failures[a] + 1 \in 1..MaxFailures
         /\ failures' = [failures EXCEPT ![a] = failures[a] + 1]
         /\ cooling' = [cooling EXCEPT ![a] = Backoff(failures[a] + 1)]
         /\ Backoff(failures[a] + 1) \in 0..MaxBackoff
<1>1. failures[a] \in 0..MaxFailures /\ MaxFailures \in Nat /\ failures[a] < MaxFailures
  BY CooldownAssumption DEF EntriesOK, ReportFailure
<1>2. failures' = [failures EXCEPT ![a] = failures[a] + 1]
  BY DEF ReportFailure
<1>3. failures'[a] = failures[a] + 1
  BY <1>2 DEF EntriesOK
<1>4. cooling' = [cooling EXCEPT ![a] = Backoff(failures[a] + 1)]
  BY <1>3 DEF ReportFailure
<1>5. failures[a] + 1 \in 1..MaxFailures /\ failures[a] + 1 \in Nat \ {0}
  BY <1>1
<1> QED
  BY <1>2, <1>4, <1>5, BackoffBounds

\* The step of time on the cooldowns.
LEMMA TickStep ==
  ASSUME EntriesOK, Tick
  PROVE  /\ failures' = failures /\ fit' = fit
         /\ cooling' \in [Accounts -> 0..MaxBackoff]
         /\ \A a \in Accounts : cooling'[a] <= cooling[a]
<1>0. MaxBackoff \in Nat
  BY CooldownAssumption
<1>1. cooling' = [a \in Accounts |-> IF cooling[a] = 0 THEN 0 ELSE cooling[a] - 1]
  BY DEF Tick
<1>2. \A a \in Accounts : cooling[a] \in 0..MaxBackoff
  BY DEF EntriesOK
<1>3. \A i \in 0..MaxBackoff : IF i = 0 THEN 0 \in 0..MaxBackoff ELSE i - 1 \in 0..MaxBackoff
  BY <1>0
<1>4. \A a \in Accounts : /\ cooling'[a] \in 0..MaxBackoff
                          /\ cooling'[a] <= cooling[a]
  BY <1>0, <1>1, <1>2, <1>3
<1> QED
  BY <1>1, <1>4 DEF Tick

\* No step leaves the ranges.
LEMMA EntriesStep ==
  ASSUME EntriesOK, [Next]_vars
  PROVE  EntriesOK'
<1>0. MaxBackoff \in Nat /\ MaxFailures \in Nat
  BY CooldownAssumption
<1>1. ASSUME NEW a \in Accounts, ReportFailure(a)
      PROVE  EntriesOK'
  <2>1. fit' = fit
    BY <1>1 DEF ReportFailure
  <2> QED
    BY <1>0, <1>1, <2>1, FailureStep DEF EntriesOK
<1>2. ASSUME NEW a \in Accounts, ReportSuccess(a)
      PROVE  EntriesOK'
  BY <1>0, <1>2 DEF ReportSuccess, EntriesOK
<1>3. CASE FitnessChanges
  BY <1>3 DEF FitnessChanges, EntriesOK
<1>4. CASE Tick
  BY <1>4, TickStep DEF EntriesOK
<1>5. CASE UNCHANGED entryVars
  BY <1>5 DEF entryVars, EntriesOK
<1>6. Pick => UNCHANGED entryVars
  BY DEF Pick, PickSticky, PickDrawn
<1> QED
  BY <1>1, <1>2, <1>3, <1>4, <1>5, <1>6 DEF Next, vars, entryVars

\* So they hold in every state.
LEMMA EntriesAlwaysOK == Spec => []EntriesOK
<1>1. Init => EntriesOK
  BY CooldownAssumption DEF Init, EntriesOK
<1>2. EntriesOK /\ [Next]_vars => EntriesOK'
  BY EntriesStep
<1> QED
  BY <1>1, <1>2, PTL DEF Spec

\* Every state of Pool has its type: no cooldown exceeds maxBackoff and no
\* session outlives stickyTTL.
THEOREM TypeOKHolds == Spec => []TypeOK
<1> DEFINE Picked == last \in Picks
<1>1. Spec => []Picked
  <2>1. Init => last \in Picks
    BY DEF Init, NoPick, Picks
  <2>2. ASSUME last \in Picks, [Next]_vars
        PROVE  last' \in Picks
    <3>1. ASSUME NEW k \in Keys \cup {NoKey}, NEW exclude \in SUBSET Accounts,
                 PickSticky(k, exclude) \/ PickDrawn(k, exclude)
          PROVE  last' \in Picks
      <4>1. \E a \in Accounts \cup {NoAccount} : Returns(k, exclude, a)
        <5>1. CASE PickSticky(k, exclude)
          BY <5>1 DEF PickSticky, StickyServes, Candidates
        <5>2. CASE PickDrawn(k, exclude)
          BY <5>2 DEF PickDrawn, Candidates
        <5> QED
          BY <3>1, <5>1, <5>2
      <4> QED
        BY <4>1 DEF Returns, Picks
    <3>2. CASE last' = NoPick
      BY <3>2 DEF NoPick, Picks
    <3>3. CASE UNCHANGED vars
      BY <2>2, <3>3 DEF vars
    <3> QED
      BY <2>2, <3>1, <3>2, <3>3, PickOrNot
  <2>3. (Init => Picked) /\ (Picked /\ [Next]_vars => Picked')
    BY <2>1, <2>2
  <2> HIDE DEF Picked
  <2> QED
    BY <2>3, PTL DEF Spec
<1>2. SessionsOK /\ EntriesOK /\ Picked => TypeOK
  BY SessionTypes DEF EntriesOK, TypeOK
<1> QED
  BY <1>1, <1>2, SessionsAlwaysOK, EntriesAlwaysOK, PTL

\* An account cools down for no longer than its latest failure made it.
CoolsWithin ==
  \A a \in Accounts :
    cooling[a] <= IF failures[a] = 0 THEN 0 ELSE Backoff(failures[a])

\* Time, a success and a new failure keep it so.
LEMMA CoolsWithinStep ==
  ASSUME EntriesOK, CoolsWithin, [Next]_vars
  PROVE  CoolsWithin'
<1>1. ASSUME NEW a \in Accounts, ReportFailure(a)
      PROVE  CoolsWithin'
  <2> SUFFICES ASSUME NEW c \in Accounts
               PROVE  cooling'[c] <= IF failures'[c] = 0 THEN 0
                                     ELSE Backoff(failures'[c])
    BY DEF CoolsWithin
  <2>1. CASE c = a
    <3>1. failures'[c] = failures[a] + 1 /\ failures'[c] \in 1..MaxFailures
      BY <1>1, <2>1, FailureStep DEF EntriesOK
    <3>2. cooling'[c] = Backoff(failures[a] + 1) /\ cooling'[c] \in 0..MaxBackoff
      BY <1>1, <2>1, FailureStep DEF EntriesOK
    <3> QED
      BY <3>1, <3>2
  <2>2. CASE c # a
    <3>1. failures'[c] = failures[c] /\ cooling'[c] = cooling[c]
      BY <1>1, <2>2, FailureStep DEF EntriesOK
    <3> QED
      BY <3>1 DEF CoolsWithin
  <2> QED
    BY <2>1, <2>2
<1>2. ASSUME NEW a \in Accounts, ReportSuccess(a)
      PROVE  CoolsWithin'
  <2> SUFFICES ASSUME NEW c \in Accounts
               PROVE  cooling'[c] <= IF failures'[c] = 0 THEN 0
                                     ELSE Backoff(failures'[c])
    BY DEF CoolsWithin
  <2>1. CASE c = a
    BY <1>2, <2>1 DEF ReportSuccess, EntriesOK
  <2>2. CASE c # a
    <3>1. failures'[c] = failures[c] /\ cooling'[c] = cooling[c]
      BY <1>2, <2>2 DEF ReportSuccess, EntriesOK
    <3> QED
      BY <3>1 DEF CoolsWithin
  <2> QED
    BY <2>1, <2>2
<1>3. CASE Tick
  <2> SUFFICES ASSUME NEW c \in Accounts
               PROVE  cooling'[c] <= IF failures'[c] = 0 THEN 0
                                     ELSE Backoff(failures'[c])
    BY DEF CoolsWithin
  <2> DEFINE most == IF failures[c] = 0 THEN 0 ELSE Backoff(failures[c])
  <2>1. most \in Int
    <3>1. failures[c] \in 0..MaxFailures
      BY DEF EntriesOK
    <3> QED
      BY <3>1, BackoffBounds, CooldownAssumption
  <2>2. cooling[c] <= most /\ failures' = failures
    BY <1>3, TickStep DEF CoolsWithin
  <2>3. cooling'[c] <= cooling[c] /\ cooling'[c] \in Int /\ cooling[c] \in Int
    BY <1>3, TickStep, CooldownAssumption DEF EntriesOK
  <2>4. most = IF failures'[c] = 0 THEN 0 ELSE Backoff(failures'[c])
    BY <2>2
  <2> HIDE DEF most
  <2> QED
    BY <2>1, <2>2, <2>3, <2>4
<1>4. CASE UNCHANGED <<failures, cooling>>
  BY <1>4 DEF CoolsWithin
<1>5. Pick \/ FitnessChanges => UNCHANGED <<failures, cooling>>
  BY DEF Pick, PickSticky, PickDrawn, FitnessChanges, entryVars
<1> QED
  BY <1>1, <1>2, <1>3, <1>4, <1>5 DEF Next, vars

\* Up to 55 failures in a row, one more never lets an account back earlier
\* than those before it did.  From the 56th on ReportFailure does (the run of
\* FailureCools shows it), hence the hypothesis on the bound of the count.
THEOREM FailuresOnlyLengthenHolds ==
  ASSUME MaxFailures <= 55
  PROVE  Spec => FailuresOnlyLengthen
<1>1. Init => CoolsWithin
  BY DEF Init, CoolsWithin
<1>2. ASSUME EntriesOK, CoolsWithin, [Next]_vars
      PROVE  \A a \in Accounts : failures'[a] > failures[a] => cooling'[a] >= cooling[a]
  <2> SUFFICES ASSUME NEW a \in Accounts, failures'[a] > failures[a]
               PROVE  cooling'[a] >= cooling[a]
    OBVIOUS
  <2>0. /\ failures[a] \in 0..MaxFailures /\ cooling[a] \in 0..MaxBackoff
        /\ MaxFailures \in Nat /\ MaxBackoff \in Nat
    BY <1>2, CooldownAssumption DEF EntriesOK
  <2>1. ReportFailure(a)
    <3>1. failures' # failures
      BY <2>0
    <3>2. PICK c \in Accounts : ReportFailure(c) \/ ReportSuccess(c)
      BY <1>2, <3>1 DEF Next, vars, Pick, PickSticky, PickDrawn, entryVars,
                        FitnessChanges, Tick
    <3>3. c = a
      BY <1>2, <2>0, <3>2 DEF ReportFailure, ReportSuccess, EntriesOK
    <3>4. ~ReportSuccess(a)
      BY <1>2, <2>0 DEF ReportSuccess, EntriesOK
    <3> QED
      BY <3>2, <3>3, <3>4
  <2>2. /\ failures[a] + 1 \in 1..MaxFailures
        /\ cooling'[a] = Backoff(failures[a] + 1)
        /\ Backoff(failures[a] + 1) \in 0..MaxBackoff
    BY <1>2, <2>1, FailureStep DEF EntriesOK
  <2>3. CASE failures[a] = 0
    <3>1. cooling[a] <= 0
      BY <1>2, <2>3 DEF CoolsWithin
    <3> QED
      BY <2>0, <2>2, <3>1
  <2>4. CASE failures[a] # 0
    <3>1. failures[a] \in Nat \ {0} /\ failures[a] < 55
      BY <2>0, <2>2, <2>4
    <3>2. Backoff(failures[a]) <= Backoff(failures[a] + 1) /\ Backoff(failures[a]) \in Int
      BY <2>0, <3>1, BackoffBounds
    <3>3. cooling[a] <= Backoff(failures[a])
      BY <1>2, <2>4 DEF CoolsWithin
    <3> QED
      BY <2>0, <2>2, <3>2, <3>3
  <2> QED
    BY <2>3, <2>4
<1>3. EntriesOK /\ CoolsWithin /\ [Next]_vars => CoolsWithin'
  BY CoolsWithinStep
<1> DEFINE Lengthen ==
      \A a \in Accounts : failures'[a] > failures[a] => cooling'[a] >= cooling[a]
<1>4. EntriesOK /\ CoolsWithin /\ [Next]_vars => [Lengthen]_vars
  BY <1>2
<1> QED
  BY <1>1, <1>3, <1>4, EntriesAlwaysOK, PTL DEF Spec, FailuresOnlyLengthen

=============================================================================
