--------------------------- MODULE AccountsProofs ---------------------------
(***************************************************************************)
(* Theorems about Accounts for any identities, IDs, administrators and     *)
(* callers, and any number of tokens.                                      *)
(***************************************************************************)
EXTENDS Accounts, FiniteSetTheorems, TLAPS

\* What the pool and the callers refer to: exactly the Client objects there
\* are, each of an account that was given an ID.
Refs ==
  /\ DOMAIN client = Referred(entries, uses)
  /\ \A id \in DOMAIN entries : AccountOf(entries[id].client) = id
  /\ \A c \in DOMAIN client : AccountOf(c) \in spent

\* What a caller of AccessToken carries.
Calling == \A k \in Callers :
  IF pc[k] = "idle" THEN uses[k] = None /\ token[k] = None
  ELSE uses[k] \in DOMAIN client /\ token[k] \in Tokens

\* What a request of the administrator carries.
Working == \A a \in Admins :
  /\ step[a] \in {"update", "insert"} => job[a].op = "add" /\ job[a].token \in Tokens
  /\ step[a] \in {"update", "change"} => job[a].id \in spent
  /\ step[a] = "change" => job[a].op \in Changes
  /\ step[a] = "idle" => job[a] = NoJob

Inv == TypeOK /\ Refs /\ Calling /\ Working

-----------------------------------------------------------------------------
(* Reload.                                                                 *)

\* An account without an entry always finds a fresh name for its Client: of
\* one more names than there are callers, one is not in use.
LEMMA FreshType ==
  ASSUME NEW es, NEW us, NEW taken, NEW id \in Ids,
         us \in [Callers -> taken \cup {None}],
         taken = Referred(es, us), id \notin DOMAIN es,
         \A x \in DOMAIN es : AccountOf(es[x].client) = x
  PROVE  /\ Fresh(id, taken) \in Clients \ taken
         /\ AccountOf(Fresh(id, taken)) = id
<1> DEFINE N == Cardinality(Callers)
<1>1. N \in Nat
  BY CallersAssumption, FS_CardinalityType
<1>2. \E n \in 0..N : <<id, n>> \notin taken
  <2> SUFFICES ASSUME \A n \in 0..N : <<id, n>> \in taken PROVE FALSE
    OBVIOUS
  <2>1. \A n \in 0..N : \E k \in Callers : us[k] = <<id, n>>
    <3> SUFFICES ASSUME NEW n \in 0..N PROVE \E k \in Callers : us[k] = <<id, n>>
      OBVIOUS
    <3>1. \A x \in DOMAIN es : es[x].client # <<id, n>>
      BY DEF AccountOf
    <3> QED
      BY <3>1 DEF Referred
  <2> DEFINE f == [n \in 0..N |-> CHOOSE k \in Callers : us[k] = <<id, n>>]
  <2>2. \A n \in 0..N : f[n] \in Callers /\ us[f[n]] = <<id, n>>
    BY <2>1
  <2>3. f \in [0..N -> Callers]
    BY <2>2
  <2> HIDE DEF f
  <2>4. \A m, n \in 0..N : f[m] = f[n] => m = n
    <3> SUFFICES ASSUME NEW m \in 0..N, NEW n \in 0..N, f[m] = f[n] PROVE m = n
      OBVIOUS
    <3>1. <<id, m>> = <<id, n>>
      BY <2>2
    <3> QED
      BY <3>1
  <2>5. IsFiniteSet(0..N) /\ Cardinality(Callers) < Cardinality(0..N)
    BY <1>1, FS_Interval
  <2> DEFINE D == 0..N
  <2>6. IsFiniteSet(D) /\ Cardinality(Callers) < Cardinality(D) /\ f \in [D -> Callers]
    BY <2>3, <2>5
  <2> HIDE DEF D
  <2>7. \E m, n \in D : m # n /\ f[m] = f[n]
    BY <2>6, CallersAssumption, FS_PigeonHole
  <2> QED
    BY <2>4, <2>7 DEF D
<1>3. PICK n \in 0..N : Fresh(id, taken) = <<id, n>> /\ <<id, n>> \notin taken
  BY <1>2 DEF Fresh
<1> QED
  BY <1>3 DEF Clients, AccountOf

\* What Reload makes of a pool old over objects, given a list of accounts.
LEMMA Reloaded ==
  ASSUME NEW old, NEW objects, NEW list,
         spent \subseteq Ids, IsMap(list, spent, Rows),
         DOMAIN objects = Referred(old, uses'),
         uses' \in [Callers -> DOMAIN objects \cup {None}],
         \A id \in DOMAIN old : AccountOf(old[id].client) = id,
         \A c \in DOMAIN objects : c \in Clients /\ objects[c] \in Objects
                                   /\ AccountOf(c) \in spent,
         Reload(old, objects, list)
  PROVE  /\ DOMAIN entries' = DOMAIN list
         /\ \A id \in DOMAIN list :
              /\ entries'[id] \in Entries
              /\ entries'[id].enabled = list[id].enabled
              /\ AccountOf(entries'[id].client) = id
              /\ id \in DOMAIN old => entries'[id].client = old[id].client
         /\ DOMAIN client' = Referred(entries', uses')
         /\ \A c \in DOMAIN client' :
              /\ c \in Clients /\ AccountOf(c) \in spent /\ client'[c] \in Objects
              /\ \/ c \in DOMAIN objects /\ client'[c] = objects[c]
                 \/ /\ AccountOf(c) \in DOMAIN list
                    /\ client'[c].token = list[AccountOf(c)].token
<1> DEFINE taken == DOMAIN objects
           ClientFor(id) == IF id \in DOMAIN old THEN old[id].client ELSE Fresh(id, taken)
<1>1. \A id \in DOMAIN list : id \in Ids /\ id \in spent /\ list[id] \in Rows
  BY DEF IsMap
<1>2. \A id \in DOMAIN list :
        ClientFor(id) \in Clients /\ AccountOf(ClientFor(id)) = id
  <2> SUFFICES ASSUME NEW id \in DOMAIN list
               PROVE  ClientFor(id) \in Clients /\ AccountOf(ClientFor(id)) = id
    OBVIOUS
  <2>1. CASE id \in DOMAIN old
    BY <2>1 DEF Referred
  <2>2. CASE id \notin DOMAIN old
    BY <1>1, <2>2, FreshType
  <2> QED
    BY <2>1, <2>2
<1>3. entries' = [id \in DOMAIN list |-> [client |-> ClientFor(id), enabled |-> list[id].enabled]]
  BY DEF Reload, Known, Seen
<1>4. DOMAIN client' = Referred(entries', uses')
  BY DEF Reload
<1>5. \A c \in DOMAIN client' : c \in taken \/ \E id \in DOMAIN list : c = ClientFor(id)
  BY <1>3, <1>4 DEF Referred
<1>6. \A c \in DOMAIN client' :
        client'[c] = IF c \in taken THEN objects[c]
                     ELSE [token |-> list[AccountOf(c)].token, access |-> FALSE]
  BY <1>4 DEF Reload
<1>7. \A id \in DOMAIN list :
        /\ entries'[id] \in Entries
        /\ entries'[id].enabled = list[id].enabled
        /\ AccountOf(entries'[id].client) = id
        /\ id \in DOMAIN old => entries'[id].client = old[id].client
  BY <1>1, <1>2, <1>3 DEF Entries, Rows
<1>8. ASSUME NEW c \in DOMAIN client'
      PROVE  /\ c \in Clients /\ AccountOf(c) \in spent /\ client'[c] \in Objects
             /\ \/ c \in DOMAIN objects /\ client'[c] = objects[c]
                \/ /\ AccountOf(c) \in DOMAIN list
                   /\ client'[c].token = list[AccountOf(c)].token
  <2>1. CASE c \in taken
    BY <1>6, <2>1
  <2>2. CASE c \notin taken
    <3>1. c \in Clients /\ AccountOf(c) \in DOMAIN list
      BY <1>2, <1>5, <2>2
    <3>2. list[AccountOf(c)].token \in Tokens
      BY <1>1, <3>1 DEF Rows
    <3>3. client'[c] = [token |-> list[AccountOf(c)].token, access |-> FALSE]
      BY <1>6, <2>2
    <3>4. client'[c] \in Objects /\ client'[c].token = list[AccountOf(c)].token
      BY <3>2, <3>3 DEF Objects
    <3> QED
      BY <1>1, <3>1, <3>4
  <2> QED
    BY <2>1, <2>2
<1>9. DOMAIN entries' = DOMAIN list
  BY <1>3
<1> HIDE DEF ClientFor, taken
<1> QED
  BY <1>4, <1>7, <1>8, <1>9

-----------------------------------------------------------------------------
(* The steps of the administrator's requests.                              *)

\* No step but Reload, Restart and those of the callers touches the pool or
\* the Client objects.
LEMMA PoolStays ==
  ASSUME Inv, UNCHANGED <<entries, client, callVars>>, spent \subseteq spent', spent' \subseteq Ids,
         rows' = rows \/ IsMap(rows', spent', Rows)
  PROVE  /\ Refs' /\ Calling'
         /\ IsMap(rows', spent', Rows) /\ IsMap(entries', spent', Entries)
         /\ IsMap(client', Clients, Objects)
         /\ \A id \in DOMAIN entries' : entries'[id].client \in DOMAIN client'
         /\ pc' \in [Callers -> {"idle", "sent", "answered", "rotated"}]
         /\ uses' \in [Callers -> DOMAIN client' \cup {None}]
         /\ token' \in [Callers -> Tokens \cup {None}]
<1>1. Refs' /\ Calling'
  BY DEF Inv, Refs, Calling, callVars, Referred
<1> QED
  BY <1>1 DEF Inv, TypeOK, IsMap, callVars

\* A new request carries a token that fits, for an account that was looked up.
LEMMA BeginAddStep ==
  ASSUME Inv, NEW a \in Admins, BeginAdd(a)
  PROVE  Inv'
<1>1. PICK i \in Identities, id \in Ids \cup {None}, s \in {"update", "insert"} :
        /\ issued[i] + 1 <= MaxIssued
        /\ issued' = [issued EXCEPT ![i] = issued[i] + 1]
        /\ Begin(a, [op |-> "add", id |-> id, token |-> [of |-> i, n |-> issued[i] + 1]], s)
        /\ s = "update" => id \in spent
        /\ doubled' = IF Adding(i) = {} THEN doubled ELSE doubled \cup {i}
  BY DEF BeginAdd, SameIdentity, Inv, TypeOK, IsMap
<1>2. UNCHANGED <<rows, entries, client, listed, callVars, spent, crossed>>
  BY DEF BeginAdd
<1>3. issued[i] \in 0..MaxIssued
  BY DEF Inv, TypeOK
<1>4. [of |-> i, n |-> issued[i] + 1] \in Tokens
  BY <1>1, <1>3, MaxIssuedAssumption DEF Tokens
<1>5. [op |-> "add", id |-> id, token |-> [of |-> i, n |-> issued[i] + 1]] \in Jobs
  BY <1>4 DEF Jobs, Changes
<1>6. issued' \in [Identities -> 0..MaxIssued]
  BY <1>1, <1>3, MaxIssuedAssumption DEF Inv, TypeOK
<1>7. /\ step' = [step EXCEPT ![a] = s]
      /\ job' = [job EXCEPT ![a] = [op |-> "add", id |-> id,
                                    token |-> [of |-> i, n |-> issued[i] + 1]]]
      /\ clean' \in BOOLEAN
  BY <1>1 DEF Begin, Goto, Alone
<1>8. TypeOK'
  <2>1. /\ step' \in [Admins -> {"idle", "update", "insert", "readBack",
                                 "change", "list", "apply"}]
        /\ job' \in [Admins -> Jobs]
    BY <1>5, <1>7 DEF Inv, TypeOK
  <2>2. doubled' \subseteq Identities
    BY <1>1 DEF Inv, TypeOK
  <2> QED
    BY <1>2, <1>6, <1>7, <2>1, <2>2, PoolStays DEF Inv, TypeOK, IsMap
<1>9. Working'
  BY <1>1, <1>2, <1>4, <1>7 DEF Inv, Working, TypeOK
<1> QED
  BY <1>2, <1>8, <1>9, PoolStays DEF Inv, TypeOK

\* The other steps of the administrator move no Client and add no token.
LEMMA AdminStep ==
  ASSUME Inv, NEW a \in Admins,
         Update(a) \/ Insert(a) \/ ReadBack(a) \/ BeginChange(a) \/ Change(a)
         \/ List(a) \/ AdminFails(a)
  PROVE  Inv'
<1> USE DEF Inv, TypeOK, Working
<1>1. UNCHANGED <<entries, client, callVars, issued>>
  BY DEF Update, Insert, ReadBack, BeginChange, Change, List, AdminFails
<1>2. /\ spent \subseteq spent' /\ spent' \subseteq Ids
      /\ clean' \in BOOLEAN /\ doubled' \subseteq Identities
      /\ crossed' \subseteq spent'
  BY DEF Update, Insert, ReadBack, BeginChange, Change, List, AdminFails, Begin, Alone
<1>3. rows' = rows \/ IsMap(rows', spent', Rows)
  <2>1. CASE Update(a)
    BY <2>1 DEF Update, SetToken, IsMap, Rows
  <2>2. CASE Insert(a)
    <3>1. job[a].token \in Tokens /\ job[a].token.of \in Identities
      BY <2>2 DEF Insert, Tokens
    <3>2. \A id : [who |-> job[a].token.of, token |-> job[a].token, enabled |-> TRUE] \in Rows
      BY <3>1 DEF Rows
    <3>3. PICK id \in Ids \ spent :
            /\ rows' = [x \in DOMAIN rows \cup {id} |->
                 IF x = id
                 THEN [who |-> job[a].token.of, token |-> job[a].token, enabled |-> TRUE]
                 ELSE rows[x]]
            /\ spent' = spent \cup {id}
      BY <2>2 DEF Insert
    <3>4. IsMap(rows, spent, Rows)
      OBVIOUS
    <3> HIDE DEF Inv, TypeOK, Working
    <3>5. \A x \in DOMAIN rows' : x \in spent' /\ rows'[x] \in Rows
      BY <3>2, <3>3, <3>4 DEF IsMap
    <3> QED
      BY <3>5 DEF IsMap
  <2>3. CASE Change(a)
    <3>1. \/ rows' = rows
          \/ rows' = Restrict(rows, DOMAIN rows \ {job[a].id})
          \/ job[a].id \in DOMAIN rows
             /\ rows' = [rows EXCEPT ![job[a].id].enabled = (job[a].op = "enable")]
      BY <2>3 DEF Change
    <3>2. IsMap(rows, spent, Rows) /\ spent' = spent
      BY <2>3 DEF Change
    <3> HIDE DEF Inv, TypeOK, Working
    <3>3. \A row \in Rows, b \in BOOLEAN : [row EXCEPT !.enabled = b] \in Rows
      BY DEF Rows
    <3>4. DOMAIN rows' \subseteq DOMAIN rows
          /\ \A x \in DOMAIN rows' :
               rows'[x] = rows[x] \/ \E b \in BOOLEAN : rows'[x] = [rows[x] EXCEPT !.enabled = b]
      BY <3>1 DEF Restrict
    <3>5. \A x \in DOMAIN rows' : x \in spent' /\ rows'[x] \in Rows
      BY <3>2, <3>3, <3>4 DEF IsMap
    <3> QED
      BY <3>5 DEF IsMap
  <2>4. CASE ReadBack(a) \/ BeginChange(a) \/ List(a) \/ AdminFails(a)
    BY <2>4 DEF ReadBack, BeginChange, List, AdminFails
  <2> QED
    BY <2>1, <2>2, <2>3, <2>4
<1>4. DOMAIN listed' = Admins /\ \A b \in Admins : IsMap(listed'[b], spent', Rows)
  <2>1. CASE List(a)
    BY <2>1 DEF List, IsMap
  <2>2. CASE AdminFails(a)
    BY <2>2 DEF AdminFails, Done, IsMap
  <2>3. CASE Update(a) \/ Insert(a) \/ ReadBack(a) \/ BeginChange(a) \/ Change(a)
    BY <1>2, <2>3 DEF Update, Insert, ReadBack, BeginChange, Change, IsMap
  <2> QED
    BY <2>1, <2>2, <2>3
<1>5. /\ step' \in [Admins -> {"idle", "update", "insert", "readBack",
                               "change", "list", "apply"}]
      /\ job' \in [Admins -> Jobs]
      /\ Working'
  <2>1. CASE Update(a) \/ ReadBack(a) \/ Change(a) \/ List(a)
    BY <2>1, <1>2 DEF Update, ReadBack, Change, List, Goto
  <2>2. CASE AdminFails(a)
    <3>1. NoJob \in Jobs
      BY DEF NoJob, Jobs
    <3> QED
      BY <2>2, <3>1 DEF AdminFails, Done, Goto
  <2>3. CASE BeginChange(a)
    <3>1. PICK id \in DOMAIN rows, op \in Changes :
            Begin(a, [op |-> op, id |-> id, token |-> None], "change")
      BY <2>3 DEF BeginChange
    <3>2. id \in spent /\ [op |-> op, id |-> id, token |-> None] \in Jobs
      BY DEF IsMap, Jobs
    <3> QED
      BY <2>3, <3>1, <3>2 DEF BeginChange, Begin, Goto
  <2>4. CASE Insert(a)
    <3>1. PICK id \in Ids : job' = [job EXCEPT ![a].id = id]
      BY <2>4 DEF Insert
    <3>2. job' \in [Admins -> Jobs]
      BY <3>1 DEF Jobs
    <3>3. step' = [step EXCEPT ![a] = "readBack"]
      BY <2>4 DEF Insert, Goto
    <3> QED
      BY <1>2, <3>1, <3>2, <3>3
  <2> QED
    BY <2>1, <2>2, <2>3, <2>4
<1>6. /\ Refs' /\ Calling'
      /\ IsMap(rows', spent', Rows) /\ IsMap(entries', spent', Entries)
      /\ IsMap(client', Clients, Objects)
      /\ \A id \in DOMAIN entries' : entries'[id].client \in DOMAIN client'
      /\ pc' \in [Callers -> {"idle", "sent", "answered", "rotated"}]
      /\ uses' \in [Callers -> DOMAIN client' \cup {None}]
      /\ token' \in [Callers -> Tokens \cup {None}]
  <2> HIDE DEF Inv, TypeOK, Working
  <2> QED
    BY <1>1, <1>2, <1>3, PoolStays
<1> QED
  BY <1>1, <1>2, <1>4, <1>5, <1>6

\* A Reload of a request, and that of the next process.
LEMMA AppliedEntries ==
  ASSUME Inv, NEW a \in Admins, Apply(a)
  PROVE  /\ DOMAIN entries' = DOMAIN listed[a]
         /\ \A id \in DOMAIN listed[a] :
              /\ entries'[id] \in Entries /\ AccountOf(entries'[id].client) = id
              /\ entries'[id].enabled = listed[a][id].enabled
              /\ id \in DOMAIN entries => entries'[id].client = entries[id].client
         /\ DOMAIN client' = Referred(entries', uses')
         /\ \A c \in DOMAIN client' :
              /\ c \in Clients /\ AccountOf(c) \in spent /\ client'[c] \in Objects
              /\ \/ c \in DOMAIN client /\ client'[c] = client[c]
                 \/ /\ AccountOf(c) \in DOMAIN listed[a]
                    /\ client'[c].token = listed[a][AccountOf(c)].token
<1>1. uses' = uses /\ Reload(entries, client, listed[a])
  BY DEF Apply, callVars
<1>2. /\ IsMap(listed[a], spent, Rows) /\ spent \subseteq Ids
      /\ DOMAIN client = Referred(entries, uses')
      /\ uses' \in [Callers -> DOMAIN client \cup {None}]
      /\ \A id \in DOMAIN entries : AccountOf(entries[id].client) = id
      /\ \A c \in DOMAIN client : /\ c \in Clients /\ client[c] \in Objects
                                  /\ AccountOf(c) \in spent
  BY <1>1 DEF Inv, TypeOK, Refs, IsMap
<1> QED
  BY <1>1, <1>2, Reloaded

\* What pool.New makes of the table: a Client for every row, and no other.
LEMMA RestartedEntries ==
  ASSUME Inv, Restart
  PROVE  /\ DOMAIN entries' = DOMAIN rows
         /\ \A id \in DOMAIN rows :
              /\ entries'[id] \in Entries /\ AccountOf(entries'[id].client) = id
              /\ entries'[id].enabled = rows[id].enabled
         /\ DOMAIN client' = Referred(entries', uses')
         /\ \A c \in DOMAIN client' :
              /\ c \in Clients /\ AccountOf(c) \in spent /\ client'[c] \in Objects
              /\ AccountOf(c) \in DOMAIN rows
              /\ client'[c].token = rows[AccountOf(c)].token
<1>1. uses' = [k \in Callers |-> None] /\ Reload(<< >>, << >>, rows)
  BY DEF Restart
<1>2. DOMAIN << >> = {}
  OBVIOUS
<1>3. Referred(<< >>, uses') = {}
  BY <1>1, <1>2 DEF Referred
<1>4. /\ DOMAIN << >> = Referred(<< >>, uses')
      /\ uses' \in [Callers -> DOMAIN << >> \cup {None}]
      /\ spent \subseteq Ids /\ IsMap(rows, spent, Rows)
  BY <1>1, <1>2, <1>3 DEF Inv, TypeOK
<1> QED
  BY <1>1, <1>2, <1>4, Reloaded

\* The next process, and the Reload of a request, build a pool of Clients that
\* are all known.
LEMMA ReloadStep ==
  ASSUME Inv, (\E a \in Admins : Apply(a)) \/ Restart
  PROVE  Inv'
<1> USE DEF Inv, TypeOK
<1>1. CASE Restart
  <2>1. uses' = [k \in Callers |-> None]
    BY <1>1 DEF Restart
  <2>3. /\ DOMAIN entries' = DOMAIN rows
        /\ \A id \in DOMAIN rows : entries'[id] \in Entries /\ AccountOf(entries'[id].client) = id
        /\ DOMAIN client' = Referred(entries', uses')
        /\ \A c \in DOMAIN client' :
             c \in Clients /\ AccountOf(c) \in spent /\ client'[c] \in Objects
    <3> HIDE DEF Inv, TypeOK
    <3> QED
      BY <1>1, RestartedEntries
  <2>4. NoJob \in Jobs
    BY DEF NoJob, Jobs
  <2>5. /\ step' = [b \in Admins |-> "idle"] /\ job' = [b \in Admins |-> NoJob]
        /\ listed' = [b \in Admins |-> << >>]
        /\ pc' = [k \in Callers |-> "idle"] /\ token' = [k \in Callers |-> None]
        /\ clean' = TRUE /\ crossed' = {} /\ UNCHANGED <<rows, issued, spent, doubled>>
    BY <1>1 DEF Restart
  <2>6. Refs' /\ Calling' /\ Working'
    BY <2>1, <2>3, <2>5 DEF Refs, Calling, Working
  <2>7. TypeOK'
    BY <2>1, <2>3, <2>4, <2>5 DEF IsMap, Referred
  <2> QED
    BY <2>6, <2>7
<1>2. ASSUME NEW a \in Admins, Apply(a) PROVE Inv'
  <2>1. /\ UNCHANGED <<pc, uses, token, rows, issued, spent, clean, doubled>>
        /\ Reload(entries, client, listed[a])
        /\ step' = [step EXCEPT ![a] = "idle"] /\ job' = [job EXCEPT ![a] = NoJob]
        /\ listed' = [listed EXCEPT ![a] = << >>]
        /\ crossed' = crossed \cup Revived(listed[a])
    BY <1>2 DEF Apply, Done, Goto, callVars
  <2>2. /\ DOMAIN entries' = DOMAIN listed[a]
        /\ \A id \in DOMAIN listed[a] :
             entries'[id] \in Entries /\ AccountOf(entries'[id].client) = id
        /\ DOMAIN client' = Referred(entries', uses')
        /\ \A c \in DOMAIN client' :
             c \in Clients /\ AccountOf(c) \in spent /\ client'[c] \in Objects
    <3> HIDE DEF Inv, TypeOK
    <3> QED
      BY <1>2, AppliedEntries
  <2>3. \A k \in Callers : uses'[k] # None => uses'[k] \in DOMAIN client'
    BY <2>2 DEF Referred
  <2>4. NoJob \in Jobs
    BY DEF NoJob, Jobs
  <2>5. \A k \in Callers : pc[k] # "idle" => uses[k] # None
    BY NoneAssumption DEF Calling, IsMap
  <2>6. Refs' /\ Calling' /\ Working'
    BY <2>1, <2>2, <2>3, <2>5 DEF Refs, Calling, Working
  <2>7. \A b \in Admins : IsMap(listed'[b], spent', Rows)
    BY <2>1 DEF IsMap
  <2>8. Revived(listed[a]) \subseteq spent
    BY DEF Revived, IsMap
  <2>9. TypeOK'
    BY <2>1, <2>2, <2>3, <2>4, <2>7, <2>8 DEF IsMap, Referred
  <2> QED
    BY <2>6, <2>9
<1> QED
  BY <1>1, <1>2

-----------------------------------------------------------------------------
(* The steps of the callers of AccessToken.                                *)

\* A step of a caller k leaves the administrator and the IDs alone.
LEMMA CallerLeaves ==
  ASSUME Inv, UNCHANGED <<entries, adminVars, spent, clean, doubled>>,
         IsMap(rows', spent, Rows), crossed' \subseteq spent,
         issued' \in [Identities -> 0..MaxIssued],
         IsMap(client', Clients, Objects), DOMAIN client' = Referred(entries, uses'),
         \A c \in DOMAIN client' : c \in DOMAIN client,
         pc' \in [Callers -> {"idle", "sent", "answered", "rotated"}],
         uses' \in [Callers -> DOMAIN client' \cup {None}],
         token' \in [Callers -> Tokens \cup {None}],
         Calling'
  PROVE  Inv'
<1> USE DEF Inv, TypeOK
<1>1. Refs' /\ Working'
  BY DEF Refs, Working, adminVars
<1>2. \A id \in DOMAIN entries' : entries'[id].client \in DOMAIN client'
  BY DEF Referred
<1> QED
  BY <1>1, <1>2 DEF adminVars, IsMap

\* AccessToken notes the Client and the token that it sends.
LEMMA SendStep ==
  ASSUME Inv, NEW k \in Callers, Send(k)
  PROVE  Inv'
<1> USE DEF Inv, TypeOK
<1>1. PICK id \in DOMAIN entries :
        /\ uses' = [uses EXCEPT ![k] = entries[id].client]
        /\ token' = [token EXCEPT ![k] = client[entries[id].client].token]
        /\ crossed' = IF UsersOf(id) = {} THEN crossed ELSE crossed \cup {id}
  BY DEF Send
<1>2. PICK c \in DOMAIN client : c = entries[id].client /\ c \in Clients /\ client[c].token \in Tokens
  BY DEF IsMap, Objects
<1>3. c # None /\ id \in spent
  BY <1>2, NoneAssumption DEF IsMap
<1>4. pc' = [pc EXCEPT ![k] = "sent"]
  BY DEF Send, CallerGoto
<1>5. UNCHANGED <<rows, issued, entries, client, adminVars, spent, clean, doubled>>
  BY DEF Send
<1>6. uses[k] = None
  BY DEF Send, Calling
<1>7. Referred(entries, uses') = Referred(entries, uses)
  BY <1>1, <1>2, <1>3, <1>6 DEF Referred
<1>8. Calling'
  BY <1>1, <1>2, <1>4, <1>5 DEF Calling
<1>9. /\ pc' \in [Callers -> {"idle", "sent", "answered", "rotated"}]
      /\ uses' \in [Callers -> DOMAIN client' \cup {None}]
      /\ token' \in [Callers -> Tokens \cup {None}]
  BY <1>1, <1>2, <1>4, <1>5
<1>10. crossed' \subseteq spent
  BY <1>1, <1>3
<1> QED
  BY <1>5, <1>7, <1>8, <1>9, <1>10, CallerLeaves DEF Refs

\* An answer only changes what the caller carries.
LEMMA AuthAnswersStep ==
  ASSUME Inv, NEW k \in Callers, AuthAnswers(k)
  PROVE  Inv'
<1> USE DEF Inv, TypeOK
<1>1. /\ pc' = [pc EXCEPT ![k] = "answered"] /\ pc[k] = "sent"
      /\ UNCHANGED <<rows, entries, client, adminVars, uses, spent, clean, doubled, crossed>>
  BY DEF AuthAnswers, CallerGoto
<1>2. token[k] \in Tokens
  BY <1>1 DEF Calling
<1>3. /\ issued' \in [Identities -> 0..MaxIssued]
      /\ token' \in [Callers -> Tokens \cup {None}]
      /\ \A q \in Callers : IF q = k THEN token'[q] \in Tokens ELSE token'[q] = token[q]
  <2>1. CASE UNCHANGED <<issued, token>>
    BY <1>2, <2>1
  <2>2. CASE /\ issued[token[k].of] < MaxIssued
             /\ issued' = [issued EXCEPT ![token[k].of] = @ + 1]
             /\ token' = [token EXCEPT ![k].n = issued'[token[k].of]]
    <3>1. PICK i \in Identities : i = token[k].of /\ issued[i] \in 0..MaxIssued
      BY <1>2 DEF Tokens
    <3>2. issued' \in [Identities -> 0..MaxIssued] /\ issued'[i] \in 1..MaxIssued
      BY <2>2, <3>1, MaxIssuedAssumption
    <3>3. [token[k] EXCEPT !.n = issued'[i]] \in Tokens
      BY <1>2, <3>2 DEF Tokens
    <3>4. token' = [token EXCEPT ![k] = [token[k] EXCEPT !.n = issued'[i]]]
      BY <2>2, <3>1
    <3> QED
      BY <3>2, <3>3, <3>4
  <2> QED
    BY <2>1, <2>2 DEF AuthAnswers
<1>4. Calling'
  BY <1>1, <1>3 DEF Calling
<1>5. pc' \in [Callers -> {"idle", "sent", "answered", "rotated"}]
  BY <1>1
<1> QED
  BY <1>1, <1>3, <1>4, <1>5, CallerLeaves DEF Refs

\* AccessToken returns, over Client objects that are those of before.
LEMMA ReturnsStep ==
  ASSUME Inv, NEW k \in Callers, NEW objects, Returns(k, objects),
         IsMap(objects, Clients, Objects), DOMAIN objects = DOMAIN client,
         UNCHANGED <<issued, entries, adminVars, spent, clean, doubled>>,
         IsMap(rows', spent, Rows), crossed' \subseteq spent
  PROVE  Inv'
<1> USE DEF Inv, TypeOK
<1>1. /\ pc' = [pc EXCEPT ![k] = "idle"]
      /\ uses' = [uses EXCEPT ![k] = None] /\ token' = [token EXCEPT ![k] = None]
      /\ client' = [c \in Referred(entries, uses') |-> objects[c]]
  BY DEF Returns, CallerGoto, Restrict
<1>2. DOMAIN client' = Referred(entries, uses') /\ DOMAIN client' \subseteq DOMAIN client
  BY <1>1 DEF Referred, Refs
<1>3. IsMap(client', Clients, Objects)
  BY <1>1, <1>2 DEF IsMap
<1>4. \A q \in Callers : uses'[q] # None => uses'[q] \in DOMAIN client'
  BY <1>2 DEF Referred
<1>5. uses' \in [Callers -> DOMAIN client' \cup {None}]
  BY <1>1, <1>4
<1>6. \A q \in Callers : pc[q] # "idle" => uses[q] # None
  BY NoneAssumption DEF Calling, IsMap
<1>7. Calling'
  BY <1>1, <1>4, <1>6 DEF Calling
<1>8. /\ pc' \in [Callers -> {"idle", "sent", "answered", "rotated"}]
      /\ token' \in [Callers -> Tokens \cup {None}]
  BY <1>1
<1>9. issued' \in [Identities -> 0..MaxIssued]
  OBVIOUS
<1> HIDE DEF Inv, TypeOK
<1> QED
  BY <1>2, <1>3, <1>5, <1>7, <1>8, <1>9, CallerLeaves

\* Storing the answer leaves the Client in use, or returns.
LEMMA StoreStep ==
  ASSUME Inv, NEW k \in Callers, Store(k)
  PROVE  Inv'
<1> USE DEF Inv, TypeOK
<1> DEFINE c == uses[k]
           stored == [client EXCEPT ![c].token = token[k], ![c].access = TRUE]
<1>1. /\ pc[k] = "answered" /\ c \in DOMAIN client /\ token[k] \in Tokens
      /\ UNCHANGED <<rows, issued, entries, adminVars, spent, clean, doubled, crossed>>
  BY DEF Store, Calling
<1>2. IsMap(stored, Clients, Objects) /\ DOMAIN stored = DOMAIN client
  BY <1>1 DEF IsMap, Objects
<1>3. \/ client' = stored /\ CallerGoto(k, "rotated") /\ UNCHANGED <<uses, token>>
      \/ Returns(k, stored)
  BY DEF Store
<1> HIDE DEF stored
<1>4. CASE client' = stored /\ CallerGoto(k, "rotated") /\ UNCHANGED <<uses, token>>
  <2>1. Calling' /\ pc' \in [Callers -> {"idle", "sent", "answered", "rotated"}]
    BY <1>1, <1>2, <1>4 DEF Calling, CallerGoto
  <2> QED
    BY <1>1, <1>2, <1>4, <2>1, CallerLeaves DEF Refs
<1>5. CASE Returns(k, stored)
  <2>1. IsMap(rows', spent, Rows) /\ crossed' \subseteq spent
    BY <1>1
  <2> HIDE DEF Inv, TypeOK
  <2> QED
    BY <1>1, <1>2, <1>5, <2>1, ReturnsStep
<1> QED
  BY <1>3, <1>4, <1>5

\* OnRotate writes a token that the caller carries, and returns.
LEMMA OnRotateStep ==
  ASSUME Inv, NEW k \in Callers, OnRotate(k) \/ RefreshFails(k)
  PROVE  Inv'
<1> USE DEF Inv, TypeOK
<1>1. /\ Returns(k, client) /\ uses[k] \in DOMAIN client /\ token[k] \in Tokens
      /\ UNCHANGED <<issued, entries, adminVars, spent, clean, doubled>>
  BY DEF OnRotate, RefreshFails, Calling
<1>2. IsMap(rows', spent, Rows)
  BY <1>1 DEF OnRotate, RefreshFails, WriteBack, SetToken, IsMap, Rows
<1>3. crossed' \subseteq spent
  BY <1>1 DEF OnRotate, RefreshFails, Refs
<1>4. IsMap(client, Clients, Objects)
  OBVIOUS
<1> HIDE DEF Inv, TypeOK
<1> QED
  BY <1>1, <1>2, <1>3, <1>4, ReturnsStep

\* A Client without an access token is still one.
LEMMA AccessExpiresStep ==
  ASSUME Inv, NEW c \in DOMAIN client, AccessExpires(c)
  PROVE  Inv'
<1> USE DEF Inv, TypeOK
<1>1. /\ client' = [client EXCEPT ![c].access = FALSE]
      /\ UNCHANGED <<rows, issued, entries, adminVars, callVars, spent, clean, doubled, crossed>>
  BY DEF AccessExpires
<1>2. IsMap(client', Clients, Objects) /\ DOMAIN client' = DOMAIN client
  BY <1>1 DEF IsMap, Objects
<1>3. Calling'
  BY <1>1, <1>2 DEF Calling, callVars
<1> QED
  BY <1>1, <1>2, <1>3, CallerLeaves DEF Refs, callVars

-----------------------------------------------------------------------------
(* The invariant.                                                          *)

\* The pool that a first start builds.
LEMMA InitInv == Init => Inv
<1> SUFFICES ASSUME Init PROVE Inv
  OBVIOUS
<1>1. PICK ids \in UNION {Injection(I, Ids) : I \in SUBSET Identities} :
        LET first == [i \in DOMAIN ids |-> [of |-> i, n |-> 1]]
            who == AntiFunction(ids)
        IN  /\ spent = Range(ids)
            /\ rows = [id \in spent |->
                 [who |-> who[id], token |-> first[who[id]], enabled |-> TRUE]]
            /\ issued = [i \in Identities |-> IF i \in DOMAIN ids THEN 1 ELSE 0]
            /\ entries = [id \in spent |-> [client |-> <<id, 0>>, enabled |-> TRUE]]
            /\ client = [c \in {<<id, 0>> : id \in spent} |->
                 [token |-> first[who[AccountOf(c)]], access |-> FALSE]]
  BY DEF Init
<1> DEFINE I == DOMAIN ids
<1>2. I \subseteq Identities /\ ids \in [I -> Ids] /\ spent = Range(ids) /\ spent \subseteq Ids
  BY <1>1 DEF Injection, Range
<1> DEFINE who == AntiFunction(ids)
<1>3. \A id \in spent : who[id] \in I
  BY <1>2 DEF AntiFunction, Inverse, Range
<1> HIDE DEF who
<1>4. \A i \in I : [of |-> i, n |-> 1] \in Tokens
  BY <1>2, MaxIssuedAssumption DEF Tokens
<1>5. rows = [id \in spent |->
        [who |-> who[id], token |-> [of |-> who[id], n |-> 1], enabled |-> TRUE]]
  BY <1>1, <1>2, <1>3 DEF who
<1>6. IsMap(rows, spent, Rows)
  BY <1>2, <1>3, <1>4, <1>5 DEF IsMap, Rows
<1>7. /\ entries = [id \in spent |-> [client |-> <<id, 0>>, enabled |-> TRUE]]
      /\ DOMAIN client = {<<id, 0>> : id \in spent}
      /\ \A id \in spent : client[<<id, 0>>] = [token |-> [of |-> who[id], n |-> 1],
                                                access |-> FALSE]
  BY <1>1, <1>2, <1>3 DEF who, AccountOf
<1>8. 0 \in 0..Cardinality(Callers)
  BY CallersAssumption, FS_CardinalityType
<1>9. \A c \in DOMAIN client : c \in Clients /\ client[c] \in Objects /\ AccountOf(c) \in spent
  <2>1. \A id \in spent : [token |-> [of |-> who[id], n |-> 1], access |-> FALSE] \in Objects
    BY <1>3, <1>4 DEF Objects
  <2>2. \A id \in spent : <<id, 0>> \in Clients /\ AccountOf(<<id, 0>>) = id
    BY <1>2, <1>8 DEF Clients, AccountOf
  <2> QED
    BY <1>7, <2>1, <2>2
<1>10. IsMap(entries, spent, Entries) /\ IsMap(client, Clients, Objects)
  BY <1>2, <1>7, <1>8, <1>9 DEF IsMap, Entries, Clients
<1>11. issued \in [Identities -> 0..MaxIssued]
  BY <1>1, MaxIssuedAssumption
<1>12. /\ step = [a \in Admins |-> "idle"] /\ job = [a \in Admins |-> NoJob]
       /\ listed = [a \in Admins |-> << >>]
       /\ pc = [k \in Callers |-> "idle"] /\ uses = [k \in Callers |-> None]
       /\ token = [k \in Callers |-> None]
       /\ clean = TRUE /\ doubled = {} /\ crossed = {}
  BY DEF Init
<1>13. NoJob \in Jobs
  BY DEF NoJob, Jobs
<1>14. \A a \in Admins : IsMap(listed[a], spent, Rows)
  BY <1>12 DEF IsMap
<1>15. Refs
  <2>1. {uses[k] : k \in Callers} \ {None} = {}
    BY <1>12
  <2>2. {entries[id].client : id \in DOMAIN entries} = {<<id, 0>> : id \in spent}
    BY <1>7
  <2> QED
    BY <1>7, <1>9, <2>1, <2>2 DEF Refs, Referred, AccountOf
<1>16. Calling /\ Working
  BY <1>12 DEF Calling, Working
<1>17. TypeOK
  BY <1>2, <1>6, <1>7, <1>10, <1>11, <1>12, <1>13, <1>14 DEF TypeOK
<1> QED
  BY <1>15, <1>16, <1>17 DEF Inv

\* Nothing happens.
LEMMA StutterStep ==
  ASSUME Inv, UNCHANGED vars
  PROVE  Inv'
BY DEF Inv, TypeOK, Refs, Calling, Working, vars, adminVars, callVars, IsMap, Referred

\* The invariant of types and references.
LEMMA Invariance == Spec => []Inv
<1>1. Init => Inv
  BY InitInv
<1>2. Inv /\ [Next]_vars => Inv'
  <2> SUFFICES ASSUME Inv, [Next]_vars PROVE Inv'
    OBVIOUS
  <2>1. CASE \E a \in Admins : Admin(a)
    BY <2>1, BeginAddStep, AdminStep, ReloadStep DEF Admin
  <2>2. CASE \E k \in Callers : Call(k)
    BY <2>2, SendStep, AuthAnswersStep, StoreStep, OnRotateStep DEF Call
  <2>3. CASE \E c \in DOMAIN client : AccessExpires(c)
    BY <2>3, AccessExpiresStep
  <2>4. CASE Restart
    BY <2>4, ReloadStep
  <2>5. CASE UNCHANGED vars
    BY <2>5, StutterStep
  <2> QED
    BY <2>1, <2>2, <2>3, <2>4, <2>5 DEF Next
<1> QED
  BY <1>1, <1>2, PTL DEF Spec

\* Every variable of the model keeps its type; in particular Reload always
\* names a new Client, and what a caller or an entry refers to is there.
THEOREM AccountsTypeCorrect == Spec => []TypeOK
<1>1. Inv => TypeOK
  BY DEF Inv
<1> QED
  BY <1>1, Invariance, PTL

-----------------------------------------------------------------------------
(* What the steps do to the table.                                         *)

\* Rows keep their identity and their switch.
LEMMA CallersKeepRows ==
  ASSUME Inv,
         (\E k \in Callers : Call(k)) \/ (\E c \in DOMAIN client : AccessExpires(c))
         \/ UNCHANGED vars
  PROVE  /\ UNCHANGED <<entries, step, job, listed, clean, doubled, spent>>
         /\ DOMAIN rows' = DOMAIN rows
         /\ \A id \in DOMAIN rows :
              rows'[id].who = rows[id].who /\ rows'[id].enabled = rows[id].enabled
<1>1. CASE \E k \in Callers : Send(k) \/ AuthAnswers(k) \/ Store(k) \/ RefreshFails(k)
  BY <1>1 DEF Send, AuthAnswers, Store, RefreshFails, adminVars
<1>2. CASE \E k \in Callers : OnRotate(k)
  BY <1>2 DEF OnRotate, WriteBack, SetToken, adminVars, Inv, TypeOK, IsMap, Rows
<1>3. CASE \E c \in DOMAIN client : AccessExpires(c)
  BY <1>3 DEF AccessExpires, adminVars
<1>4. CASE UNCHANGED vars
  BY <1>4 DEF vars, adminVars
<1> QED
  BY <1>1, <1>2, <1>3, <1>4 DEF Call

\* Only Insert makes a row, under an ID that was never given before.
LEMMA RowsStep ==
  ASSUME Inv, [Next]_vars
  PROVE  \/ /\ DOMAIN rows' \subseteq DOMAIN rows
            /\ \A id \in DOMAIN rows' : rows'[id].who = rows[id].who
         \/ \E a \in Admins : Insert(a)
<1>1. CASE \E a \in Admins : BeginAdd(a) \/ ReadBack(a) \/ BeginChange(a) \/ List(a)
                            \/ Apply(a) \/ AdminFails(a)
  BY <1>1 DEF BeginAdd, ReadBack, BeginChange, List, Apply, AdminFails
<1>2. CASE \E a \in Admins : Update(a)
  BY <1>2 DEF Update, SetToken, Inv, TypeOK, IsMap, Rows
<1>3. CASE \E a \in Admins : Change(a)
  BY <1>3 DEF Change, Restrict, Inv, TypeOK, IsMap, Rows
<1>4. CASE Restart
  BY <1>4 DEF Restart
<1> QED
  BY <1>1, <1>2, <1>3, <1>4, CallersKeepRows DEF Next, Admin

\* SetToken is an UPDATE ... WHERE id = ?, so no rotation or login that comes
\* late puts an account back that was deleted meanwhile.
THEOREM DeletedStaysDeletedHolds == Spec => DeletedStaysDeleted
<1>1. Inv /\ [Next]_vars =>
        [\A id \in spent : id \notin DOMAIN rows => id \notin DOMAIN rows']_vars
  <2> SUFFICES ASSUME Inv, [Next]_vars, NEW id \in spent, id \notin DOMAIN rows
               PROVE  id \notin DOMAIN rows'
    OBVIOUS
  <2>1. ASSUME NEW a \in Admins, Insert(a) PROVE id \notin DOMAIN rows'
    <3>1. PICK new \in Ids \ spent : DOMAIN rows' = DOMAIN rows \cup {new}
      BY <2>1 DEF Insert
    <3> QED
      BY <3>1
  <2> QED
    BY <2>1, RowsStep
<1> QED
  BY <1>1, Invariance, PTL DEF Spec, DeletedStaysDeleted

-----------------------------------------------------------------------------
(* The pool and the table.                                                 *)

SameAccounts(list) ==
  /\ DOMAIN list = DOMAIN rows
  /\ \A id \in DOMAIN rows : list[id].enabled = rows[id].enabled

\* While the latest request runs alone nobody else changes which accounts
\* there are, so the list it applies is the table.
CleanInv == clean =>
  /\ \A a, b \in Admins : step[a] # "idle" /\ step[b] # "idle" => a = b
  /\ \A a \in Admins : step[a] = "apply" => SameAccounts(listed[a])
  /\ NoAdmin => SameAccounts(entries)

\* A request that begins alone and does not fail is followed to its end.
LEMMA CleanStep ==
  ASSUME Inv, CleanInv, [Next]_vars
  PROVE  CleanInv'
<1> USE DEF Inv, TypeOK
<1>1. ASSUME NEW a \in Admins, BeginAdd(a) \/ BeginChange(a)
      PROVE  CleanInv'
  <2>1. PICK s \in {"update", "insert", "change"} :
          step' = [step EXCEPT ![a] = s] /\ clean' = Alone(a)
    BY <1>1 DEF BeginAdd, BeginChange, Begin, Goto
  <2> QED
    BY <2>1 DEF CleanInv, Alone, NoAdmin
<1>2. ASSUME NEW a \in Admins, Update(a) \/ Insert(a) \/ ReadBack(a) \/ Change(a)
      PROVE  CleanInv'
  <2>1. PICK s \in {"readBack", "list"} : step' = [step EXCEPT ![a] = s]
    BY <1>2 DEF Update, Insert, ReadBack, Change, Goto
  <2>2. step[a] \notin {"idle", "apply"} /\ clean' = clean
    BY <1>2 DEF Update, Insert, ReadBack, Change
  <2> QED
    BY <2>1, <2>2 DEF CleanInv, NoAdmin
<1>3. ASSUME NEW a \in Admins, List(a)
      PROVE  CleanInv'
  <2>1. /\ step[a] = "list" /\ step' = [step EXCEPT ![a] = "apply"]
        /\ listed' = [listed EXCEPT ![a] = rows] /\ UNCHANGED <<rows, clean>>
    BY <1>3 DEF List, Goto
  <2>2. clean => \A b \in Admins : step'[b] = "apply" => b = a
    BY <2>1 DEF CleanInv
  <2>3. listed'[a] = rows
    BY <2>1
  <2> QED
    BY <2>1, <2>2, <2>3 DEF CleanInv, NoAdmin, SameAccounts
<1>4. ASSUME NEW a \in Admins, AdminFails(a)
      PROVE  CleanInv'
  BY <1>4 DEF AdminFails, CleanInv
<1>5. ASSUME NEW a \in Admins, Apply(a)
      PROVE  CleanInv'
  <2>1. /\ step[a] = "apply" /\ step' = [step EXCEPT ![a] = "idle"]
        /\ UNCHANGED <<rows, clean>>
    BY <1>5 DEF Apply, Done, Goto
  <2>2. clean => SameAccounts(listed[a]) /\ \A b \in Admins : step'[b] = "idle"
    BY <2>1 DEF CleanInv
  <2>3. clean => SameAccounts(entries)'
    <3> HIDE DEF Inv, TypeOK
    <3> QED
      BY <1>5, <2>1, <2>2, AppliedEntries DEF SameAccounts
  <2> QED
    BY <2>1, <2>2, <2>3 DEF CleanInv
<1>6. CASE Restart
  BY <1>6, RestartedEntries DEF Restart, CleanInv, SameAccounts
<1>7. ASSUME UNCHANGED <<entries, step, job, listed, clean, doubled, spent>>,
             DOMAIN rows' = DOMAIN rows,
             \A id \in DOMAIN rows :
               rows'[id].who = rows[id].who /\ rows'[id].enabled = rows[id].enabled
      PROVE  CleanInv'
  BY <1>7 DEF CleanInv, SameAccounts, NoAdmin
<1> HIDE DEF Inv, TypeOK
<1> QED
  BY <1>1, <1>2, <1>3, <1>4, <1>5, <1>6, <1>7, CallersKeepRows DEF Next, Admin

\* In the first state every ID that was given has its row and its entry, and
\* an identity has at most one.
LEMMA InitTables ==
  ASSUME Init
  PROVE  /\ SameAccounts(entries)
         /\ \A x, y \in DOMAIN rows : rows[x].who = rows[y].who => x = y
<1>1. PICK ids \in UNION {Injection(I, Ids) : I \in SUBSET Identities} :
        LET first == [i \in DOMAIN ids |-> [of |-> i, n |-> 1]]
            who == AntiFunction(ids)
        IN  /\ spent = Range(ids)
            /\ rows = [id \in spent |->
                 [who |-> who[id], token |-> first[who[id]], enabled |-> TRUE]]
            /\ entries = [id \in spent |-> [client |-> <<id, 0>>, enabled |-> TRUE]]
  BY DEF Init
<1> DEFINE who == AntiFunction(ids)
<1>2. \A id \in Range(ids) : ids[who[id]] = id
  BY DEF AntiFunction, Inverse, Range
<1> HIDE DEF who
<1>3. /\ DOMAIN rows = Range(ids)
      /\ \A id \in Range(ids) : rows[id].who = who[id] /\ rows[id].enabled = TRUE
  BY <1>1 DEF who
<1>4. SameAccounts(entries)
  BY <1>1, <1>3 DEF SameAccounts
<1> QED
  BY <1>2, <1>3, <1>4

\* And so the clean state follows the table.
LEMMA CleanInvariance == Spec => [](Inv /\ CleanInv)
<1>1. Init => CleanInv
  <2> SUFFICES ASSUME Init PROVE CleanInv
    OBVIOUS
  <2>1. \A a \in Admins : step[a] = "idle"
    BY DEF Init
  <2>2. SameAccounts(entries)
    BY InitTables
  <2> QED
    BY <2>1, <2>2 DEF CleanInv
<1>2. Inv /\ CleanInv /\ [Next]_vars => CleanInv'
  BY CleanStep
<1> QED
  BY <1>1, <1>2, Invariance, PTL DEF Spec

\* A request that runs alone and to its end leaves the pool with the accounts
\* of the table, each with its switch, for any number of administrators and
\* whatever they did to each other before.
THEOREM PoolFollowsTableHolds == Spec => []PoolFollowsTable
<1>1. CleanInv => PoolFollowsTable
  BY DEF CleanInv, PoolFollowsTable, SameAccounts
<1> QED
  BY <1>1, CleanInvariance, PTL

\* Such a request keeps the Client, and with it the tokens and the cached
\* access token, of every account that stays.
THEOREM ClientsKeptHolds == Spec => ClientsKept
<1>1. Inv /\ CleanInv =>
        [clean' /\ (\E a \in Admins : Apply(a)) =>
           \A id \in DOMAIN entries \cap DOMAIN rows :
             id \in DOMAIN entries' /\ entries'[id].client = entries[id].client]_vars
  <2> SUFFICES ASSUME Inv, CleanInv, clean', NEW a \in Admins, Apply(a),
                      NEW id \in DOMAIN entries \cap DOMAIN rows
               PROVE  id \in DOMAIN entries' /\ entries'[id].client = entries[id].client
    OBVIOUS
  <2>1. clean /\ step[a] = "apply"
    BY DEF Apply
  <2>2. id \in DOMAIN listed[a]
    BY <2>1 DEF CleanInv, SameAccounts
  <2> QED
    BY <2>2, AppliedEntries
<1> QED
  BY <1>1, CleanInvariance, PTL DEF Spec, ClientsKept

-----------------------------------------------------------------------------
(* One account for each identity.                                          *)

\* Unless two requests were adding an identity at once, the one that is about
\* to insert its row has seen that there is none, and nobody else makes one.
SingleInv == \A i \in Identities \ doubled :
  /\ \A x, y \in DOMAIN rows : rows[x].who = i /\ rows[y].who = i => x = y
  /\ \A a, b \in Adding(i) : a = b
  /\ \A a \in Adding(i) :
       step[a] = "insert" => \A x \in DOMAIN rows : rows[x].who # i

\* An identity that only one request adds gets no second row.
LEMMA SingleStep ==
  ASSUME Inv, SingleInv, [Next]_vars
  PROVE  SingleInv'
<1>1. ASSUME NEW a \in Admins, BeginAdd(a)
      PROVE  SingleInv'
  <2>1. PICK i \in Identities, id \in DOMAIN rows \cup {None}, s \in {"update", "insert"} :
          /\ Begin(a, [op |-> "add", id |-> id, token |-> [of |-> i, n |-> issued[i] + 1]], s)
          /\ s = "insert" => \A x \in DOMAIN rows : rows[x].who # i
          /\ doubled' = IF Adding(i) = {} THEN doubled ELSE doubled \cup {i}
    BY <1>1 DEF BeginAdd, SameIdentity
  <2>2. /\ rows' = rows /\ step' = [step EXCEPT ![a] = s]
        /\ job' = [job EXCEPT ![a] =
             [op |-> "add", id |-> id, token |-> [of |-> i, n |-> issued[i] + 1]]]
    BY <1>1, <2>1 DEF BeginAdd, Begin, Goto
  <2>3. \A b \in Admins : IF b = a THEN job'[b].op = "add" /\ job'[b].token.of = i
                                    /\ step'[b] = s
                           ELSE job'[b] = job[b] /\ step'[b] = step[b]
    BY <2>2 DEF Inv, TypeOK
  <2>4. job[a].op = "none"
    BY <2>1 DEF Begin, Inv, Working, NoJob
  <2>5. \A j : Adding(j)' = IF j = i THEN Adding(j) \cup {a} ELSE Adding(j)
    BY <2>3, <2>4 DEF Adding
  <2> QED
    BY <2>1, <2>2, <2>3, <2>5 DEF SingleInv, Adding
<1>2. ASSUME NEW a \in Admins, Insert(a)
      PROVE  SingleInv'
  <2> DEFINE i == job[a].token.of
  <2>1. PICK id \in Ids \ spent :
          /\ rows' = [x \in DOMAIN rows \cup {id} |->
               IF x = id THEN [who |-> i, token |-> job[a].token, enabled |-> TRUE]
               ELSE rows[x]]
          /\ job' = [job EXCEPT ![a].id = id]
    BY <1>2 DEF Insert
  <2>2. /\ step[a] = "insert" /\ step' = [step EXCEPT ![a] = "readBack"]
        /\ doubled' = doubled
    BY <1>2 DEF Insert, Goto
  <2>3. \A j : Adding(j)' = Adding(j)
    BY <2>1 DEF Adding, Inv, TypeOK, Jobs
  <2>4. a \in Adding(i)
    BY <2>2 DEF Adding, Inv, Working
  <2>5. /\ \A x \in DOMAIN rows : rows'[x] = rows[x]
        /\ DOMAIN rows' = DOMAIN rows \cup {id} /\ rows'[id].who = i
    BY <2>1 DEF Inv, TypeOK, IsMap
  <2> HIDE DEF i
  <2>6. \A b \in Admins : step'[b] = IF b = a THEN "readBack" ELSE step[b]
    BY <2>2 DEF Inv, TypeOK
  <2> SUFFICES ASSUME NEW j \in Identities \ doubled
               PROVE  /\ \A x, y \in DOMAIN rows' :
                           rows'[x].who = j /\ rows'[y].who = j => x = y
                      /\ \A b \in Adding(j) :
                           step'[b] = "insert" => \A x \in DOMAIN rows' : rows'[x].who # j
    BY <2>2, <2>3 DEF SingleInv
  <2>7. CASE j = i
    <3>1. \A x \in DOMAIN rows : rows[x].who # j
      BY <2>2, <2>4, <2>7 DEF SingleInv
    <3>2. \A b \in Adding(j) : b = a
      BY <2>4, <2>7 DEF SingleInv
    <3> QED
      BY <2>5, <2>6, <3>1, <3>2
  <2>8. CASE j # i
    BY <2>5, <2>6, <2>8 DEF SingleInv, Adding
  <2> QED
    BY <2>7, <2>8
<1>3. ASSUME UNCHANGED <<step, job, doubled>>,
             DOMAIN rows' \subseteq DOMAIN rows,
             \A id \in DOMAIN rows' : rows'[id].who = rows[id].who
      PROVE  SingleInv'
  BY <1>3 DEF SingleInv, Adding
<1>4. ASSUME NEW a \in Admins,
             Update(a) \/ ReadBack(a) \/ BeginChange(a) \/ Change(a) \/ List(a)
             \/ Apply(a) \/ AdminFails(a),
             DOMAIN rows' \subseteq DOMAIN rows,
             \A id \in DOMAIN rows' : rows'[id].who = rows[id].who
      PROVE  SingleInv'
  <2>1. /\ doubled' = doubled
        /\ \A b \in Admins : step'[b] = "insert" => step[b] = "insert"
        /\ \A j : Adding(j)' \subseteq Adding(j)
    BY <1>4 DEF Update, ReadBack, BeginChange, Change, List, Apply, AdminFails, Begin,
                Done, Goto, Adding, NoJob, Changes, Inv, TypeOK
  <2> SUFFICES ASSUME NEW j \in Identities \ doubled
               PROVE  /\ \A x, y \in DOMAIN rows' :
                           rows'[x].who = j /\ rows'[y].who = j => x = y
                      /\ \A b, c \in Adding(j)' : b = c
                      /\ \A b \in Adding(j)' :
                           step'[b] = "insert" => \A x \in DOMAIN rows' : rows'[x].who # j
    BY <2>1 DEF SingleInv
  <2>2. \A b \in Adding(j)' : b \in Adding(j) /\ b \in Admins
    BY <2>1 DEF Adding
  <2> QED
    BY <1>4, <2>1, <2>2 DEF SingleInv
<1>5. CASE Restart
  BY <1>5 DEF Restart, SingleInv, Adding, NoJob
<1>6. \/ \E a \in Admins : Insert(a)
      \/ /\ DOMAIN rows' \subseteq DOMAIN rows
         /\ \A id \in DOMAIN rows' : rows'[id].who = rows[id].who
  BY RowsStep
<1> QED
  BY <1>1, <1>2, <1>3, <1>4, <1>5, <1>6, CallersKeepRows DEF Next, Admin

\* AddAccount looks for the identity before it inserts, and no deletion,
\* rotation or restart in between gives an identity a second row: only two
\* requests adding it at once can.
THEOREM OneAccountEachHolds == Spec => []OneAccountEach
<1>1. Init => SingleInv
  <2> SUFFICES ASSUME Init PROVE SingleInv
    OBVIOUS
  <2>1. \A a \in Admins : job[a].op = "none"
    BY DEF Init, NoJob
  <2>2. \A i : Adding(i) = {}
    BY <2>1 DEF Adding
  <2>3. \A x, y \in DOMAIN rows : rows[x].who = rows[y].who => x = y
    BY InitTables
  <2> QED
    BY <2>2, <2>3 DEF SingleInv
<1>2. Inv /\ SingleInv /\ [Next]_vars => SingleInv'
  BY SingleStep
<1>3. SingleInv => OneAccountEach
  <2> SUFFICES ASSUME SingleInv, NEW i \in Identities \ doubled
               PROVE  Cardinality({id \in DOMAIN rows : rows[id].who = i}) <= 1
    BY DEF OneAccountEach
  <2> DEFINE S == {id \in DOMAIN rows : rows[id].who = i}
  <2>1. \A x \in S : S = {x}
    BY DEF SingleInv
  <2> HIDE DEF S
  <2>2. S = {} \/ \E x : S = {x}
    BY <2>1
  <2>3. \A x : Cardinality({x}) = 1
    BY FS_Singleton
  <2>4. Cardinality({}) = 0
    BY FS_EmptySet
  <2>5. Cardinality(S) \in {0, 1}
    BY <2>2, <2>3, <2>4
  <2>6. Cardinality(S) <= 1
    BY <2>5
  <2> QED
    BY <2>6 DEF S
<1> QED
  BY <1>1, <1>2, <1>3, Invariance, PTL DEF Spec

-----------------------------------------------------------------------------
(* Tokens stay with their identity.                                        *)

\* h gives the identity of every ID that was given: wherever a token is - in a
\* row, a list, a Client, a request or a call - it is of that identity.
HomeOfRows(h) == \A id \in DOMAIN rows : rows[id].who = h[id] /\ rows[id].token.of = h[id]
HomeOfClients(h) == \A c \in DOMAIN client : client[c].token.of = h[AccountOf(c)]
HomeOfCalls(h) == \A k \in Callers : pc[k] # "idle" => token[k].of = h[AccountOf(uses[k])]
HomeOfLists(h) ==
  \A a \in Admins : \A id \in DOMAIN listed[a] : listed[a][id].token.of = h[id]
HomeOfJobs(h) == \A a \in Admins : step[a] = "update" => job[a].token.of = h[job[a].id]

Home(h) == /\ HomeOfRows(h) /\ HomeOfClients(h) /\ HomeOfCalls(h)
           /\ HomeOfLists(h) /\ HomeOfJobs(h)

\* Requests that make no account and leave the pool alone move tokens only to their own row.
LEMMA AdminKeepsHome ==
  ASSUME Inv, NEW h, Home(h), NEW a \in Admins,
         BeginAdd(a) \/ Update(a) \/ ReadBack(a) \/ BeginChange(a) \/ Change(a)
         \/ List(a) \/ AdminFails(a)
  PROVE  Home(h)'
<1> USE DEF Inv, TypeOK
<1>1. UNCHANGED <<client, pc, token, uses>>
  BY DEF BeginAdd, Update, ReadBack, BeginChange, Change, List, AdminFails, callVars
<1>2. HomeOfClients(h)' /\ HomeOfCalls(h)'
  BY <1>1 DEF Home, HomeOfClients, HomeOfCalls
<1>3. CASE BeginAdd(a)
  <2>1. PICK i \in Identities, id \in DOMAIN rows \cup {None}, s \in {"update", "insert"} :
          /\ Begin(a, [op |-> "add", id |-> id, token |-> [of |-> i, n |-> issued[i] + 1]], s)
          /\ s = "update" => id \in DOMAIN rows /\ rows[id].who = i
    BY <1>3 DEF BeginAdd, SameIdentity
  <2>2. /\ step' = [step EXCEPT ![a] = s]
        /\ job' = [job EXCEPT ![a] =
             [op |-> "add", id |-> id, token |-> [of |-> i, n |-> issued[i] + 1]]]
        /\ UNCHANGED <<rows, listed>>
    BY <1>3, <2>1 DEF BeginAdd, Begin, Goto
  <2>3. HomeOfJobs(h)'
    BY <2>1, <2>2 DEF Home, HomeOfJobs, HomeOfRows
  <2> QED
    BY <1>2, <2>2, <2>3 DEF Home, HomeOfRows, HomeOfLists
<1>4. CASE Update(a)
  <2>1. /\ step[a] = "update" /\ SetToken(job[a].id, job[a].token)
        /\ step' = [step EXCEPT ![a] = "readBack"] /\ UNCHANGED <<job, listed>>
    BY <1>4 DEF Update, Goto
  <2>2. HomeOfRows(h)'
    BY <2>1 DEF SetToken, Home, HomeOfRows, HomeOfJobs, IsMap, Rows
  <2>3. HomeOfJobs(h)' /\ HomeOfLists(h)'
    BY <2>1 DEF Home, HomeOfLists, HomeOfJobs
  <2> QED
    BY <1>2, <2>2, <2>3 DEF Home
<1>5. CASE ReadBack(a) \/ BeginChange(a)
  <2>1. /\ UNCHANGED <<rows, listed>>
        /\ \A b \in Admins : step'[b] = "update" => step[b] = "update" /\ job'[b] = job[b]
    BY <1>5 DEF ReadBack, BeginChange, Begin, Goto
  <2> QED
    BY <1>2, <2>1 DEF Home, HomeOfRows, HomeOfLists, HomeOfJobs
<1>6. CASE Change(a)
  <2>1. /\ UNCHANGED <<job, listed>>
        /\ \A b \in Admins : step'[b] = "update" => step[b] = "update"
    BY <1>6 DEF Change, Goto
  <2>2. HomeOfRows(h)'
    BY <1>6 DEF Change, Restrict, Home, HomeOfRows, IsMap, Rows
  <2> QED
    BY <1>2, <2>1, <2>2 DEF Home, HomeOfLists, HomeOfJobs
<1>7. CASE List(a)
  <2>1. /\ UNCHANGED <<job, rows>> /\ listed' = [listed EXCEPT ![a] = rows]
        /\ \A b \in Admins : step'[b] = "update" => step[b] = "update"
    BY <1>7 DEF List, Goto
  <2> QED
    BY <1>2, <2>1 DEF Home, HomeOfRows, HomeOfLists, HomeOfJobs
<1>8. CASE AdminFails(a)
  <2>1. /\ rows' = rows /\ listed' = [listed EXCEPT ![a] = << >>]
        /\ \A b \in Admins : step'[b] = "update" => step[b] = "update" /\ job'[b] = job[b]
    BY <1>8 DEF AdminFails, Done, Goto
  <2> QED
    BY <1>2, <2>1 DEF Home, HomeOfRows, HomeOfLists, HomeOfJobs
<1> QED
  BY <1>3, <1>4, <1>5, <1>6, <1>7, <1>8

\* The new ID gets the identity of the request; nothing refers to it yet.
LEMMA InsertKeepsHome ==
  ASSUME Inv, NEW h, Home(h), NEW a \in Admins, Insert(a)
  PROVE  \E g : Home(g)'
<1> USE DEF Inv, TypeOK
<1>1. PICK id \in Ids \ spent :
        /\ rows' = [x \in DOMAIN rows \cup {id} |->
             IF x = id
             THEN [who |-> job[a].token.of, token |-> job[a].token, enabled |-> TRUE]
             ELSE rows[x]]
        /\ job' = [job EXCEPT ![a].id = id]
  BY DEF Insert
<1>2. step' = [step EXCEPT ![a] = "readBack"] /\ UNCHANGED <<client, pc, uses, token, listed>>
  BY DEF Insert, Goto, callVars
<1>3. PICK g : g = [x \in Ids |-> IF x = id THEN job[a].token.of ELSE h[x]]
  OBVIOUS
<1>4. g[id] = job[a].token.of /\ \A x \in spent : g[x] = h[x]
  BY <1>3
<1>5. HomeOfRows(g)'
  BY <1>1, <1>4 DEF Home, HomeOfRows, IsMap
<1>6. HomeOfClients(g)'
  BY <1>2, <1>4 DEF Home, HomeOfClients, Refs
<1>7. HomeOfCalls(g)'
  BY <1>2, <1>4 DEF Home, HomeOfCalls, Refs, Calling
<1>8. HomeOfLists(g)'
  BY <1>2, <1>4 DEF Home, HomeOfLists, IsMap
<1>9. HomeOfJobs(g)'
  BY <1>1, <1>2, <1>4 DEF Home, HomeOfJobs, Working
<1> QED
  BY <1>5, <1>6, <1>7, <1>8, <1>9 DEF Home

\* New Clients get the token of their own row.
LEMMA ReloadKeepsHome ==
  ASSUME Inv, NEW h, Home(h), (\E a \in Admins : Apply(a)) \/ Restart
  PROVE  Home(h)'
<1>1. ASSUME NEW a \in Admins, Apply(a) PROVE Home(h)'
  <2>1. /\ UNCHANGED <<rows, pc, uses, token>>
        /\ listed' = [listed EXCEPT ![a] = << >>]
        /\ \A b \in Admins : step'[b] = "update" => step[b] = "update" /\ job'[b] = job[b]
    BY <1>1 DEF Apply, Done, Goto, callVars, Inv, TypeOK
  <2>2. HomeOfClients(h)'
    BY <1>1, AppliedEntries DEF Home, HomeOfClients, HomeOfLists
  <2>3. HomeOfLists(h)'
    BY <2>1 DEF Home, HomeOfLists, Inv, TypeOK
  <2> QED
    BY <2>1, <2>2, <2>3 DEF Home, HomeOfRows, HomeOfCalls, HomeOfJobs
<1>2. CASE Restart
  <2>1. HomeOfClients(h)'
    BY <1>2, RestartedEntries DEF Home, HomeOfClients, HomeOfRows
  <2>2. /\ rows' = rows /\ \A k \in Callers : pc'[k] = "idle"
        /\ \A a \in Admins : step'[a] = "idle" /\ listed'[a] = << >>
    BY <1>2 DEF Restart
  <2> QED
    BY <2>1, <2>2 DEF Home, HomeOfRows, HomeOfCalls, HomeOfLists, HomeOfJobs
<1> QED
  BY <1>1, <1>2

\* A caller writes back to the account of its Client.
LEMMA CallersKeepHome ==
  ASSUME Inv, NEW h, Home(h),
         (\E k \in Callers : Call(k)) \/ (\E c \in DOMAIN client : AccessExpires(c))
         \/ UNCHANGED vars
  PROVE  Home(h)'
<1> USE DEF Inv, TypeOK
<1>1. HomeOfLists(h)' /\ HomeOfJobs(h)'
  <2> HIDE DEF Inv, TypeOK
  <2> QED
    BY CallersKeepRows DEF Home, HomeOfLists, HomeOfJobs
<1>2. ASSUME NEW k \in Callers, Send(k) PROVE Home(h)'
  <2>1. PICK id \in DOMAIN entries :
          /\ uses' = [uses EXCEPT ![k] = entries[id].client]
          /\ token' = [token EXCEPT ![k] = client[entries[id].client].token]
    BY <1>2 DEF Send
  <2>2. pc' = [pc EXCEPT ![k] = "sent"] /\ UNCHANGED <<rows, client>>
    BY <1>2 DEF Send, CallerGoto
  <2>3. HomeOfCalls(h)'
    BY <2>1, <2>2 DEF Home, HomeOfCalls, HomeOfClients
  <2> QED
    BY <1>1, <2>2, <2>3 DEF Home, HomeOfRows, HomeOfClients
<1>3. ASSUME NEW k \in Callers, AuthAnswers(k) PROVE Home(h)'
  <2>1. /\ pc[k] = "sent" /\ pc' = [pc EXCEPT ![k] = "answered"]
        /\ UNCHANGED <<rows, client, uses>>
    BY <1>3 DEF AuthAnswers, CallerGoto
  <2>2. token[k] \in Tokens
    BY <2>1 DEF Calling
  <2>3. \A q \in Callers : pc[q] # "idle" => token'[q].of = token[q].of
    BY <1>3, <2>2 DEF AuthAnswers, Tokens
  <2>4. HomeOfCalls(h)'
    BY <2>1, <2>3 DEF Home, HomeOfCalls
  <2> QED
    BY <1>1, <2>1, <2>4 DEF Home, HomeOfRows, HomeOfClients
<1>4. ASSUME NEW k \in Callers, NEW objects, Returns(k, objects),
             DOMAIN objects = DOMAIN client, entries' = entries,
             \A c \in DOMAIN client : objects[c].token.of = h[AccountOf(c)]
      PROVE  HomeOfCalls(h)' /\ HomeOfClients(h)'
  <2>1. /\ pc' = [pc EXCEPT ![k] = "idle"]
        /\ uses' = [uses EXCEPT ![k] = None] /\ token' = [token EXCEPT ![k] = None]
        /\ client' = [c \in Referred(entries, uses') |-> objects[c]]
    BY <1>4 DEF Returns, CallerGoto, Restrict
  <2>2. Referred(entries, uses') \subseteq DOMAIN client
    BY <2>1 DEF Referred, Refs
  <2>3. HomeOfClients(h)'
    BY <1>4, <2>1, <2>2 DEF HomeOfClients
  <2>4. HomeOfCalls(h)'
    BY <2>1 DEF Home, HomeOfCalls
  <2> QED
    BY <2>3, <2>4
<1>5. ASSUME NEW k \in Callers, Store(k) PROVE Home(h)'
  <2> DEFINE c == uses[k]
             stored == [client EXCEPT ![c].token = token[k], ![c].access = TRUE]
  <2>1. /\ pc[k] = "answered" /\ c \in DOMAIN client
        /\ UNCHANGED <<rows, entries>>
    BY <1>5 DEF Store, Calling
  <2>2. DOMAIN stored = DOMAIN client
    OBVIOUS
  <2>3. \A d \in DOMAIN client : stored[d].token.of = h[AccountOf(d)]
    BY <2>1 DEF Home, HomeOfClients, HomeOfCalls, IsMap, Objects
  <2>4. \/ client' = stored /\ pc' = [pc EXCEPT ![k] = "rotated"] /\ UNCHANGED <<uses, token>>
        \/ Returns(k, stored)
    BY <1>5 DEF Store, CallerGoto
  <2> HIDE DEF stored
  <2>5. CASE client' = stored /\ pc' = [pc EXCEPT ![k] = "rotated"] /\ UNCHANGED <<uses, token>>
    BY <1>1, <2>1, <2>2, <2>3, <2>5 DEF Home, HomeOfRows, HomeOfClients, HomeOfCalls
  <2>6. CASE Returns(k, stored)
    BY <1>1, <1>4, <2>1, <2>2, <2>3, <2>6 DEF Home, HomeOfRows
  <2> QED
    BY <2>4, <2>5, <2>6
<1>6. ASSUME NEW k \in Callers, OnRotate(k) \/ RefreshFails(k) PROVE Home(h)'
  <2>1. Returns(k, client) /\ pc[k] # "idle" /\ entries' = entries
    BY <1>6 DEF OnRotate, RefreshFails
  <2>2. HomeOfCalls(h)' /\ HomeOfClients(h)'
    BY <1>4, <2>1 DEF Home, HomeOfClients
  <2>3. HomeOfRows(h)'
    BY <1>6, <2>1 DEF OnRotate, RefreshFails, WriteBack, SetToken, Home, HomeOfRows,
                      HomeOfCalls, IsMap, Rows
  <2> QED
    BY <1>1, <2>2, <2>3 DEF Home
<1>7. ASSUME NEW c \in DOMAIN client, AccessExpires(c) PROVE Home(h)'
  <2>1. /\ client' = [client EXCEPT ![c].access = FALSE]
        /\ UNCHANGED <<rows, pc, uses, token>>
    BY <1>7 DEF AccessExpires, callVars
  <2>2. HomeOfClients(h)'
    BY <2>1 DEF Home, HomeOfClients, IsMap, Objects
  <2> QED
    BY <1>1, <2>1, <2>2 DEF Home, HomeOfRows, HomeOfCalls
<1>8. CASE UNCHANGED vars
  BY <1>1, <1>8 DEF vars, callVars, Home, HomeOfRows, HomeOfClients, HomeOfCalls
<1> QED
  BY <1>2, <1>3, <1>5, <1>6, <1>7, <1>8 DEF Call

\* The first tokens are those of the rows.
LEMMA InitTokens ==
  ASSUME Init
  PROVE  /\ \A id \in DOMAIN rows : rows[id].token.of = rows[id].who
         /\ \A c \in DOMAIN client : /\ AccountOf(c) \in DOMAIN rows
                                     /\ client[c].token = rows[AccountOf(c)].token
<1>1. PICK ids \in UNION {Injection(I, Ids) : I \in SUBSET Identities} :
        LET first == [i \in DOMAIN ids |-> [of |-> i, n |-> 1]]
            who == AntiFunction(ids)
        IN  /\ spent = Range(ids)
            /\ rows = [id \in spent |->
                 [who |-> who[id], token |-> first[who[id]], enabled |-> TRUE]]
            /\ client = [c \in {<<id, 0>> : id \in spent} |->
                 [token |-> first[who[AccountOf(c)]], access |-> FALSE]]
  BY DEF Init
<1> DEFINE who == AntiFunction(ids)
           first == [i \in DOMAIN ids |-> [of |-> i, n |-> 1]]
<1>2. \A id \in spent : who[id] \in DOMAIN ids
  BY <1>1 DEF AntiFunction, Inverse, Range
<1>3. \A id \in spent : first[who[id]].of = who[id]
  BY <1>2
<1> HIDE DEF who, first
<1>4. /\ DOMAIN rows = spent
      /\ \A id \in spent : rows[id].who = who[id] /\ rows[id].token = first[who[id]]
  BY <1>1 DEF who, first
<1>5. \A c \in DOMAIN client :
        AccountOf(c) \in spent /\ client[c].token = first[who[AccountOf(c)]]
  BY <1>1 DEF who, first, AccountOf
<1> QED
  BY <1>3, <1>4, <1>5

\* A token never reaches the row or the Client of another identity: a Client
\* that outlives its account writes to no other one, for any number of
\* accounts deleted and added meanwhile.
THEOREM TokensStayHomeHolds == Spec => []TokensStayHome
<1>1. Init => \E h : Home(h)
  <2> SUFFICES ASSUME Init PROVE \E h : Home(h)
    OBVIOUS
  <2>1. PICK h : h = [id \in DOMAIN rows |-> rows[id].who]
    OBVIOUS
  <2>2. /\ HomeOfRows(h)
        /\ \A c \in DOMAIN client : /\ AccountOf(c) \in DOMAIN rows
                                    /\ client[c].token = rows[AccountOf(c)].token
    BY <2>1, InitTokens DEF HomeOfRows
  <2>3. HomeOfClients(h)
    BY <2>2 DEF HomeOfClients, HomeOfRows
  <2>4. HomeOfCalls(h) /\ HomeOfLists(h) /\ HomeOfJobs(h)
    BY DEF Init, HomeOfCalls, HomeOfLists, HomeOfJobs
  <2> QED
    BY <2>2, <2>3, <2>4 DEF Home
<1>2. Inv /\ (\E h : Home(h)) /\ [Next]_vars => (\E h : Home(h))'
  <2> SUFFICES ASSUME Inv, NEW h, Home(h), [Next]_vars PROVE \E g : Home(g)'
    OBVIOUS
  <2>1. CASE \E a \in Admins : Insert(a)
    BY <2>1, InsertKeepsHome
  <2>2. CASE Home(h)'
    BY <2>2
  <2> QED
    BY <2>1, <2>2, AdminKeepsHome, ReloadKeepsHome, CallersKeepHome DEF Next, Admin
<1>3. Inv /\ (\E h : Home(h)) => TokensStayHome
  BY DEF Inv, TypeOK, Refs, Home, HomeOfRows, HomeOfClients, TokensStayHome
<1> QED
  BY <1>1, <1>2, <1>3, Invariance, PTL DEF Spec

-----------------------------------------------------------------------------
(* A rotated refresh token reaches the table.                              *)

\* At most one refresh of the account is under way,
Lone(id) == \A j, k \in UsersOf(id) : j = k

\* with the Client that the pool has,
SameClient(id) ==
  id \in DOMAIN entries => \A k \in UsersOf(id) : uses[k] = entries[id].client

\* it reports the token that it has stored,
Carries(id) ==
  \A k \in UsersOf(id) : pc[k] = "rotated" => token[k] = client[uses[k]].token

\* and but for its report the table has the Client's token.
Written(id) ==
  id \in DOMAIN entries \cap DOMAIN rows =>
    \/ rows[id].token = client[entries[id].client].token
    \/ \E k \in UsersOf(id) : pc[k] = "rotated"

InStep(id) == Lone(id) /\ SameClient(id) /\ Carries(id) /\ Written(id)
Rotation == \A id \in spent \ crossed : InStep(id)

-----------------------------------------------------------------------------
(* The administrator's requests.                                           *)

\* Those that leave the pool alone change the token of an account that is
\* crossed then, or of one that the pool does not have yet.
LEMMA AdminKeepsTokens ==
  ASSUME Inv, NEW a \in Admins,
         BeginAdd(a) \/ Update(a) \/ Insert(a) \/ ReadBack(a) \/ BeginChange(a)
         \/ Change(a) \/ List(a) \/ AdminFails(a)
  PROVE  /\ UNCHANGED <<entries, client, pc, uses, token>>
         /\ crossed \subseteq crossed'
         /\ \A id \in (DOMAIN entries \cap DOMAIN rows') \ crossed' :
              id \in DOMAIN rows /\ rows'[id].token = rows[id].token
<1> USE DEF Inv, TypeOK, callVars, IsMap, Rows
<1>1. CASE BeginAdd(a) \/ ReadBack(a) \/ BeginChange(a) \/ List(a) \/ AdminFails(a)
  BY <1>1 DEF BeginAdd, ReadBack, BeginChange, List, AdminFails
<1>2. CASE Update(a)
  BY <1>2 DEF Update, SetToken
<1>3. CASE Insert(a)
  BY <1>3 DEF Insert
<1>4. CASE Change(a)
  BY <1>4 DEF Change, Restrict
<1> QED
  BY <1>1, <1>2, <1>3, <1>4

\* So they keep the accounts in step.
LEMMA AdminKeepsRotation ==
  ASSUME Inv, Rotation, NEW a \in Admins,
         BeginAdd(a) \/ Update(a) \/ Insert(a) \/ ReadBack(a) \/ BeginChange(a)
         \/ Change(a) \/ List(a) \/ AdminFails(a)
  PROVE  Rotation'
<1> SUFFICES ASSUME NEW id \in spent' \ crossed' PROVE InStep(id)'
  BY DEF Rotation
<1>1. UNCHANGED <<entries, client, pc, uses, token>> /\ UsersOf(id)' = UsersOf(id)
  BY AdminKeepsTokens DEF UsersOf
<1>2. CASE id \in spent
  <2>1. InStep(id)
    BY <1>2, AdminKeepsTokens DEF Rotation
  <2> QED
    BY <1>1, <2>1, AdminKeepsTokens DEF InStep, Lone, SameClient, Carries, Written
<1>3. CASE id \notin spent
  <2>1. id \notin DOMAIN entries /\ UsersOf(id) = {}
    BY <1>3 DEF Inv, TypeOK, IsMap, Refs, UsersOf
  <2> QED
    BY <1>1, <2>1 DEF InStep, Lone, SameClient, Carries, Written
<1> QED
  BY <1>2, <1>3

-----------------------------------------------------------------------------
(* Reload.                                                                 *)

\* A Client that exists keeps its tokens.
LEMMA AppliedClients ==
  ASSUME NEW a \in Admins, Apply(a)
  PROVE  \A c \in DOMAIN client \cap DOMAIN client' : client'[c] = client[c]
BY DEF Apply, Reload

\* An account that enters the pool has no Client in use and the token of the
\* table, unless it is crossed then; one that stays keeps its Client.
LEMMA ApplyKeepsRotation ==
  ASSUME Inv, Rotation, NEW a \in Admins, Apply(a)
  PROVE  Rotation'
<1> SUFFICES ASSUME NEW id \in spent' \ crossed' PROVE InStep(id)'
  BY DEF Rotation
<1>1. /\ UNCHANGED <<rows, spent, pc, uses, token>>
      /\ crossed' = crossed \cup Revived(listed[a])
  BY DEF Apply, callVars
<1>2. InStep(id) /\ UsersOf(id)' = UsersOf(id) /\ id \notin Revived(listed[a])
  BY <1>1 DEF Rotation, UsersOf
<1>3. DOMAIN entries' = DOMAIN listed[a] /\ DOMAIN client' = Referred(entries', uses')
  BY AppliedEntries
<1>4. \A k \in UsersOf(id) : client'[uses[k]] = client[uses[k]]
  <2>1. \A k \in UsersOf(id) : uses[k] \in DOMAIN client /\ uses[k] \in DOMAIN client'
    BY <1>1, <1>3 DEF Inv, TypeOK, UsersOf, Referred
  <2> QED
    BY <2>1, AppliedClients
<1>5. Lone(id)' /\ Carries(id)'
  BY <1>1, <1>2, <1>4 DEF InStep, Lone, Carries
<1>6. CASE id \notin DOMAIN listed[a]
  BY <1>3, <1>5, <1>6 DEF InStep, SameClient, Written
<1>7. CASE id \in DOMAIN listed[a] /\ id \in DOMAIN entries
  <2>1. entries'[id].client = entries[id].client
    BY <1>7, AppliedEntries
  <2>2. client'[entries[id].client] = client[entries[id].client]
    <3>1. entries[id].client \in DOMAIN client /\ entries[id].client \in DOMAIN client'
      BY <1>3, <1>7, <2>1 DEF Inv, TypeOK, Referred
    <3> QED
      BY <3>1, AppliedClients
  <2> QED
    BY <1>1, <1>2, <1>5, <1>7, <2>1, <2>2 DEF InStep, SameClient, Written
<1>8. CASE id \in DOMAIN listed[a] /\ id \notin DOMAIN entries
  <2>1. UsersOf(id) = {}
    BY <1>2, <1>8 DEF Revived, UsersOf
  <2> DEFINE c == entries'[id].client
  <2>2. AccountOf(c) = id /\ c \in DOMAIN client'
    BY <1>3, <1>8, AppliedEntries DEF Referred
  <2>3. c \notin DOMAIN client
    <3>1. \A d \in DOMAIN client : AccountOf(d) # id
      BY <1>8, <2>1 DEF Inv, Refs, Referred, UsersOf
    <3> QED
      BY <2>2, <3>1
  <2>4. client'[c].token = listed[a][id].token
    BY <2>2, <2>3, AppliedEntries
  <2>5. id \in DOMAIN rows => rows[id].token = listed[a][id].token
    BY <1>2, <1>8 DEF Revived
  <2> QED
    BY <1>1, <1>2, <1>5, <2>1, <2>4, <2>5 DEF InStep, SameClient, Written
<1> QED
  BY <1>6, <1>7, <1>8

\* A new process begins with the tokens of the table.
LEMMA RestartKeepsRotation ==
  ASSUME Inv, Restart
  PROVE  Rotation'
<1> SUFFICES ASSUME NEW id \in spent' \ crossed' PROVE InStep(id)'
  BY DEF Rotation
<1>1. rows' = rows /\ UsersOf(id)' = {}
  BY DEF Restart, UsersOf
<1>2. ASSUME id \in DOMAIN entries'
      PROVE  client'[entries'[id].client].token = rows[id].token
  BY <1>2, RestartedEntries DEF Referred
<1> QED
  BY <1>1, <1>2 DEF InStep, Lone, SameClient, Carries, Written

-----------------------------------------------------------------------------
(* Callers.                                                                *)

\* The second refresh of an account crosses it.
LEMMA SendKeepsRotation ==
  ASSUME Inv, Rotation, NEW k \in Callers, Send(k)
  PROVE  Rotation'
<1> SUFFICES ASSUME NEW id \in spent' \ crossed' PROVE InStep(id)'
  BY DEF Rotation
<1>1. PICK x \in DOMAIN entries :
        /\ uses' = [uses EXCEPT ![k] = entries[x].client]
        /\ crossed' = IF UsersOf(x) = {} THEN crossed ELSE crossed \cup {x}
  BY DEF Send
<1>2. /\ pc[k] = "idle" /\ pc' = [pc EXCEPT ![k] = "sent"]
      /\ \A j \in Callers \ {k} : token'[j] = token[j]
      /\ UNCHANGED <<rows, entries, client, spent>>
  BY DEF Send, CallerGoto, Inv, TypeOK
<1>3. uses[k] = None /\ AccountOf(entries[x].client) = x /\ k \notin UsersOf(id)
  BY <1>2 DEF Inv, Calling, Refs, UsersOf
<1>4. InStep(id)
  BY <1>1, <1>2 DEF Rotation
<1>5. UsersOf(id)' \subseteq UsersOf(id) \cup {k} /\ UsersOf(id) \subseteq UsersOf(id)'
  BY <1>1, <1>3 DEF UsersOf, Inv, TypeOK
<1>6. k \in UsersOf(id)' => id = x /\ UsersOf(id) = {}
  BY <1>1, <1>3 DEF UsersOf, Inv, TypeOK
<1>7. Lone(id)' /\ SameClient(id)'
  BY <1>1, <1>2, <1>4, <1>5, <1>6 DEF InStep, Lone, SameClient, UsersOf, Inv, TypeOK
<1>8. Carries(id)'
  BY <1>1, <1>2, <1>4, <1>5 DEF InStep, Carries, UsersOf, Inv, TypeOK
<1>9. Written(id)'
  BY <1>2, <1>3, <1>4, <1>5 DEF InStep, Written, UsersOf, Inv, TypeOK
<1> QED
  BY <1>7, <1>8, <1>9 DEF InStep

\* An answer is not stored yet.
LEMMA AuthAnswersKeepsRotation ==
  ASSUME Inv, Rotation, NEW k \in Callers, AuthAnswers(k)
  PROVE  Rotation'
<1> SUFFICES ASSUME NEW id \in spent' \ crossed' PROVE InStep(id)'
  BY DEF Rotation
<1>1. /\ pc[k] = "sent" /\ pc' = [pc EXCEPT ![k] = "answered"]
      /\ \A j \in Callers \ {k} : token'[j] = token[j]
      /\ UNCHANGED <<rows, entries, client, uses, spent, crossed>>
  BY DEF AuthAnswers, CallerGoto, Inv, TypeOK
<1>2. InStep(id) /\ UsersOf(id)' = UsersOf(id)
  BY <1>1 DEF Rotation, UsersOf
<1> QED
  BY <1>1, <1>2 DEF InStep, Lone, SameClient, Carries, Written, UsersOf, Inv, TypeOK

\* A caller that returns leaves all Clients that are still referred to.
LEMMA ReturnedClients ==
  ASSUME Inv, NEW k \in Callers, NEW objects, Returns(k, objects), entries' = entries
  PROVE  /\ \A id : UsersOf(id)' = UsersOf(id) \ {k}
         /\ \A j \in Callers \ {k} : /\ pc'[j] = pc[j] /\ uses'[j] = uses[j]
                                     /\ token'[j] = token[j]
                                     /\ uses[j] # None => client'[uses[j]] = objects[uses[j]]
         /\ \A id \in DOMAIN entries : client'[entries[id].client] = objects[entries[id].client]
<1>1. /\ pc' = [pc EXCEPT ![k] = "idle"] /\ uses' = [uses EXCEPT ![k] = None]
      /\ token' = [token EXCEPT ![k] = None]
      /\ client' = [c \in Referred(entries, uses') |-> objects[c]]
  BY DEF Returns, CallerGoto, Restrict
<1>2. /\ \A id : UsersOf(id)' = UsersOf(id) \ {k}
      /\ \A j \in Callers \ {k} : pc'[j] = pc[j] /\ uses'[j] = uses[j] /\ token'[j] = token[j]
  BY <1>1 DEF UsersOf, Inv, TypeOK
<1>3. /\ \A j \in Callers \ {k} : uses[j] # None => uses[j] \in Referred(entries, uses')
      /\ \A id \in DOMAIN entries : entries[id].client \in Referred(entries, uses')
  BY <1>2 DEF Referred
<1> QED
  BY <1>1, <1>2, <1>3

\* The one that rotated stores the token and goes on to report it; the one
\* that got the same token back changes none.
LEMMA StoreKeepsRotation ==
  ASSUME Inv, Rotation, NEW k \in Callers, Store(k)
  PROVE  Rotation'
<1> SUFFICES ASSUME NEW id \in spent' \ crossed' PROVE InStep(id)'
  BY DEF Rotation
<1> DEFINE c == uses[k]
           stored == [client EXCEPT ![c].token = token[k], ![c].access = TRUE]
<1>1. pc[k] = "answered" /\ c \in DOMAIN client /\ UNCHANGED <<rows, entries, spent, crossed>>
  BY DEF Store, Inv, Calling
<1>2. InStep(id)
  BY <1>1 DEF Rotation
<1>3. /\ stored[c].token = token[k]
      /\ \A d \in DOMAIN client \ {c} : stored[d] = client[d]
  BY <1>1 DEF Inv, TypeOK, IsMap, Objects
<1>4. \A j \in UsersOf(id) \ {k} : uses[j] \in DOMAIN client
  BY DEF Inv, TypeOK, UsersOf
<1>5. id \in DOMAIN entries => entries[id].client \in DOMAIN client /\ AccountOf(entries[id].client) = id
  BY DEF Inv, TypeOK, Refs
<1>6. c # None /\ k \in Callers
  BY <1>1, NoneAssumption DEF Inv, TypeOK, IsMap
<1> HIDE DEF stored
<1>7. CASE Rotated(k)
  <2>1. client' = stored /\ pc' = [pc EXCEPT ![k] = "rotated"] /\ UNCHANGED <<uses, token>>
    BY <1>7 DEF Store, CallerGoto, stored
  <2>2. UsersOf(id)' = UsersOf(id)
    BY <2>1 DEF UsersOf
  <2>3. CASE AccountOf(c) = id
    <3>1. UsersOf(id) = {k}
      BY <1>2, <1>6, <2>3 DEF InStep, Lone, UsersOf
    <3> QED
      BY <1>1, <1>2, <1>3, <2>1, <2>2, <3>1
      DEF InStep, Lone, SameClient, Carries, Written, Inv, TypeOK
  <2>4. CASE AccountOf(c) # id
    <3>1. k \notin UsersOf(id) /\ \A j \in UsersOf(id) : uses[j] # c
      BY <2>4 DEF UsersOf
    <3>2. \A j \in UsersOf(id) : client'[uses[j]] = client[uses[j]] /\ pc'[j] = pc[j]
      BY <1>3, <1>4, <2>1, <3>1 DEF UsersOf, Inv, TypeOK
    <3>3. id \in DOMAIN entries => client'[entries[id].client] = client[entries[id].client]
      BY <1>3, <1>5, <2>1, <2>4
    <3> QED
      BY <1>1, <1>2, <2>1, <2>2, <3>2, <3>3 DEF InStep, Lone, SameClient, Carries, Written
  <2> QED
    BY <2>3, <2>4
<1>8. CASE ~Rotated(k)
  <2>1. Returns(k, stored)
    BY <1>8 DEF Store, stored
  <2>2. \A d \in DOMAIN client : stored[d].token = client[d].token
    BY <1>3, <1>8 DEF Rotated
  <2>3. \A j \in UsersOf(id) \ {k} : /\ pc'[j] = pc[j] /\ uses'[j] = uses[j] /\ token'[j] = token[j]
                                     /\ client'[uses[j]].token = client[uses[j]].token
    BY <1>1, <1>4, <2>1, <2>2, ReturnedClients DEF UsersOf
  <2>4. id \in DOMAIN entries =>
          client'[entries[id].client].token = client[entries[id].client].token
    BY <1>1, <1>5, <2>1, <2>2, ReturnedClients
  <2>5. UsersOf(id)' = UsersOf(id) \ {k}
    BY <1>1, <2>1, ReturnedClients
  <2> QED
    BY <1>1, <1>2, <2>3, <2>4, <2>5 DEF InStep, Lone, SameClient, Carries, Written
<1> QED
  BY <1>7, <1>8

\* OnRotate writes what the Client has, or crosses the account.
LEMMA ReturnKeepsRotation ==
  ASSUME Inv, Rotation, NEW k \in Callers, OnRotate(k) \/ RefreshFails(k)
  PROVE  Rotation'
<1> SUFFICES ASSUME NEW id \in spent' \ crossed' PROVE InStep(id)'
  BY DEF Rotation
<1>1. /\ Returns(k, client) /\ UNCHANGED <<entries, spent>> /\ crossed \subseteq crossed'
      /\ pc[k] # "idle"
  BY DEF OnRotate, RefreshFails
<1>2. InStep(id)
  BY <1>1 DEF Rotation
<1>3. /\ UsersOf(id)' = UsersOf(id) \ {k}
      /\ \A j \in UsersOf(id) \ {k} : /\ pc'[j] = pc[j] /\ uses'[j] = uses[j]
                                      /\ token'[j] = token[j]
                                      /\ client'[uses[j]] = client[uses[j]]
      /\ id \in DOMAIN entries => client'[entries[id].client] = client[entries[id].client]
  BY <1>1, ReturnedClients DEF UsersOf
<1>4. Lone(id)' /\ SameClient(id)' /\ Carries(id)'
  BY <1>1, <1>2, <1>3 DEF InStep, Lone, SameClient, Carries
<1>5. Written(id)'
  <2>1. CASE k \in UsersOf(id) /\ pc[k] = "rotated"
    <3>1. OnRotate(k) /\ AccountOf(uses[k]) = id
      BY <2>1 DEF OnRotate, RefreshFails, UsersOf
    <3>2. SetToken(id, token[k])
      BY <3>1 DEF OnRotate, WriteBack
    <3>3. id \in DOMAIN entries => token[k] = client[entries[id].client].token
      BY <1>2, <2>1 DEF InStep, SameClient, Carries
    <3> QED
      BY <1>1, <1>3, <3>2, <3>3 DEF Written, SetToken, Inv, TypeOK, IsMap, Rows
  <2>2. CASE ~(k \in UsersOf(id) /\ pc[k] = "rotated")
    <3>1. uses[k] # None
      BY <1>1, NoneAssumption DEF Inv, TypeOK, Calling, IsMap
    <3>2. OnRotate(k) => pc[k] = "rotated" /\ AccountOf(uses[k]) # id
      BY <2>2, <3>1 DEF OnRotate, UsersOf
    <3>3. id \in DOMAIN rows' => id \in DOMAIN rows /\ rows'[id].token = rows[id].token
      BY <3>2 DEF OnRotate, RefreshFails, WriteBack, SetToken
    <3> QED
      BY <1>1, <1>2, <1>3, <2>2, <3>3 DEF InStep, Written
  <2> QED
    BY <2>1, <2>2
<1> QED
  BY <1>4, <1>5 DEF InStep

\* An access token that expires changes no refresh token.
LEMMA ExpiryKeepsRotation ==
  ASSUME Inv, Rotation, NEW c \in DOMAIN client, AccessExpires(c)
  PROVE  Rotation'
<1> SUFFICES ASSUME NEW id \in spent' \ crossed' PROVE InStep(id)'
  BY DEF Rotation
<1>1. /\ client' = [client EXCEPT ![c].access = FALSE]
      /\ UNCHANGED <<rows, entries, pc, uses, token, spent, crossed>>
  BY DEF AccessExpires, callVars
<1>2. InStep(id) /\ UsersOf(id)' = UsersOf(id)
  BY <1>1 DEF Rotation, UsersOf
<1>3. \A d \in DOMAIN client : client'[d].token = client[d].token
  BY <1>1 DEF Inv, TypeOK, IsMap, Objects
<1>4. /\ \A k \in UsersOf(id) : uses[k] \in DOMAIN client
      /\ id \in DOMAIN entries => entries[id].client \in DOMAIN client
  BY DEF Inv, TypeOK, UsersOf
<1> QED
  BY <1>1, <1>2, <1>3, <1>4 DEF InStep, Lone, SameClient, Carries, Written

-----------------------------------------------------------------------------

\* Every step keeps the accounts in step.
LEMMA RotationStep ==
  ASSUME Inv, Rotation, [Next]_vars
  PROVE  Rotation'
<1>1. CASE UNCHANGED vars
  BY <1>1
  DEF vars, callVars, Rotation, InStep, Lone, SameClient, Carries, Written, UsersOf
<1> QED
  BY <1>1, AdminKeepsRotation, ApplyKeepsRotation, RestartKeepsRotation, SendKeepsRotation,
     AuthAnswersKeepsRotation, StoreKeepsRotation, ReturnKeepsRotation, ExpiryKeepsRotation
  DEF Next, Admin, Call

\* OnRotate brings every rotated token to the table: the table has the Client's
\* token or a caller is about to write it, unless refreshes of the account
\* overlapped, another writer came between or the write failed.
THEOREM TokenWrittenBackHolds == Spec => []TokenWrittenBack
<1>1. Init => Rotation
  <2> SUFFICES ASSUME Init, NEW id \in spent \ crossed PROVE InStep(id)
    BY DEF Rotation
  <2>1. UsersOf(id) = {}
    BY DEF Init, UsersOf
  <2>2. Inv
    BY InitInv
  <2>3. id \in DOMAIN entries => client[entries[id].client].token = rows[id].token
    BY <2>2, InitTokens DEF Inv, TypeOK, Refs
  <2> QED
    BY <2>1, <2>3 DEF InStep, Lone, SameClient, Carries, Written
<1>2. Inv /\ Rotation /\ [Next]_vars => Rotation'
  BY RotationStep
<1>3. Inv /\ Rotation => TokenWrittenBack
  BY DEF Inv, TypeOK, Rotation, InStep, SameClient, Carries, Written, TokenWrittenBack,
         UsersOf, IsMap
<1> QED
  BY <1>1, <1>2, <1>3, Invariance, PTL DEF Spec

=============================================================================
