------------------------------ MODULE Accounts ------------------------------
(***************************************************************************)
(* The accounts of the relay: the table accounts (internal/store), the     *)
(* pool that Reload builds from it (internal/pool), the refresh token that *)
(* each mirasim.Client keeps and rotates (internal/mirasim), and the       *)
(* administrator's requests that add, switch and delete accounts           *)
(* (internal/admin).  The refresh token lives in the table and in the      *)
(* client; OnRotate writes it back once the client's lock is released.     *)
(*                                                                         *)
(* A database statement is one step: the store has one connection.  Tokens *)
(* are numbered per identity in the order of their issue.  Names, limits   *)
(* and cooldowns of an account are left out (see Pool).                    *)
(***************************************************************************)
EXTENDS Naturals, FiniteSets, Functions

CONSTANTS Identities,   \* pairs of email and provider
          Ids,          \* account IDs: the values of randomID considered
          Admins,       \* goroutines of the administrator's requests
          Callers,      \* goroutines that want an access token
          MaxIssued,    \* bound on the tokens of an identity
          None

ASSUME MaxIssuedAssumption == MaxIssued \in Nat \ {0}
ASSUME CallersAssumption == IsFiniteSet(Callers)

\* A mirasim.Client is named after its account and, as an account may get
\* another while callers hold the last, numbered.
Clients == Ids \X (0..Cardinality(Callers))
AccountOf(c) == c[1]

ASSUME NoneAssumption == None \notin Ids \cup Clients

VARIABLES
  \* The database, and how many tokens the auth server has issued.
  rows,      \* table accounts: ID to identity, token and enabled
  issued,
  \* The pool and the Client objects in use.
  entries,   \* Pool.entries: ID to Entry.Client and Account.Enabled
  client,    \* object to refreshToken and accessToken # ""
  \* The administrator's requests.
  step, job,
  listed,    \* what ListAccounts returned
  \* Callers of AccessToken.
  pc,
  uses,      \* the Client
  token,     \* the refresh token sent, later the one received
  \* History.
  spent,     \* the IDs given so far; randomID repeats none
  clean,     \* the latest administrator's request ran alone and to its end
  doubled,   \* identities that two requests were adding at once
  crossed    \* accounts whose token two writers wrote, or a write failed

adminVars == <<step, job, listed>>
callVars == <<pc, uses, token>>
vars == <<rows, issued, entries, client, adminVars, callVars,
          spent, clean, doubled, crossed>>

Tokens == [of : Identities, n : 1..MaxIssued]
Rows == [who : Identities, token : Tokens, enabled : BOOLEAN]
Entries == [client : Clients, enabled : BOOLEAN]
Objects == [token : Tokens, access : BOOLEAN]

Changes == {"enable", "disable", "delete"}
Jobs == [op : Changes \cup {"none", "add"}, id : Ids \cup {None},
         token : Tokens \cup {None}]
NoJob == [op |-> "none", id |-> None, token |-> None]

IsMap(f, keys, values) ==
  DOMAIN f \subseteq keys /\ \A x \in DOMAIN f : f[x] \in values

TypeOK ==
  /\ IsMap(rows, spent, Rows)
  /\ issued \in [Identities -> 0..MaxIssued]
  /\ IsMap(entries, spent, Entries)
  /\ IsMap(client, Clients, Objects)
  /\ \A id \in DOMAIN entries : entries[id].client \in DOMAIN client
  /\ step \in [Admins -> {"idle", "update", "insert", "readBack",
                          "change", "list", "apply"}]
  /\ job \in [Admins -> Jobs]
  /\ DOMAIN listed = Admins /\ \A a \in Admins : IsMap(listed[a], spent, Rows)
  /\ pc \in [Callers -> {"idle", "sent", "answered", "rotated"}]
  /\ uses \in [Callers -> DOMAIN client \cup {None}]
  /\ token \in [Callers -> Tokens \cup {None}]
  /\ spent \subseteq Ids
  /\ clean \in BOOLEAN
  /\ doubled \subseteq Identities
  /\ crossed \subseteq spent

-----------------------------------------------------------------------------
(* Reload.                                                                 *)

\* The objects that an entry or a caller refers to; the others are garbage.
Referred(es, us) ==
  {es[id].client : id \in DOMAIN es} \cup ({us[k] : k \in Callers} \ {None})

\* Variant with a bug: no account is found among the entries.
NoneKnown(old, id) == FALSE
Known(old, id) == id \in DOMAIN old

\* Variant with a bug: accounts that are gone from the list stay.
KeepAll(old, list) == DOMAIN old \cup DOMAIN list
Seen(old, list) == DOMAIN list

\* NewClientFunc allocates.
Fresh(id, taken) ==
  <<id, CHOOSE n \in 0..Cardinality(Callers) : <<id, n>> \notin taken>>

\* Accounts without an entry get one, with a new Client that has the token of
\* the list; the others keep their Client; entries not in the list go.
Reload(old, objects, list) ==
  LET taken == DOMAIN objects
      ClientFor(id) == IF Known(old, id) THEN old[id].client ELSE Fresh(id, taken)
  IN  /\ entries' = [id \in Seen(old, list) |->
           IF id \in DOMAIN list
           THEN [client |-> ClientFor(id), enabled |-> list[id].enabled]
           ELSE old[id]]
      /\ client' = [c \in Referred(entries', uses') |->
           IF c \in taken THEN objects[c]
           ELSE [token |-> list[AccountOf(c)].token, access |-> FALSE]]

\* Tables of earlier runs: one account per identity, each with its first
\* token, which its Client has.
Init ==
  /\ \E ids \in UNION {Injection(I, Ids) : I \in SUBSET Identities} :
       LET first == [i \in DOMAIN ids |-> [of |-> i, n |-> 1]]
           who == AntiFunction(ids)
       IN  /\ spent = Range(ids)
           /\ rows = [id \in spent |->
                [who |-> who[id], token |-> first[who[id]], enabled |-> TRUE]]
           /\ issued = [i \in Identities |-> IF i \in DOMAIN ids THEN 1 ELSE 0]
           /\ entries = [id \in spent |-> [client |-> <<id, 0>>, enabled |-> TRUE]]
           /\ client = [c \in {<<id, 0>> : id \in spent} |->
                [token |-> first[who[AccountOf(c)]], access |-> FALSE]]
  /\ step = [a \in Admins |-> "idle"]
  /\ job = [a \in Admins |-> NoJob]
  /\ listed = [a \in Admins |-> << >>]
  /\ pc = [k \in Callers |-> "idle"]
  /\ uses = [k \in Callers |-> None]
  /\ token = [k \in Callers |-> None]
  /\ clean = TRUE
  /\ doubled = {}
  /\ crossed = {}

-----------------------------------------------------------------------------
(* The administrator's requests.                                           *)

Goto(a, s) == step' = [step EXCEPT ![a] = s]

Alone(a) == \A b \in Admins \ {a} : step[b] = "idle"

Begin(a, j, s) ==
  /\ step[a] = "idle"
  /\ job' = [job EXCEPT ![a] = j]
  /\ Goto(a, s)
  /\ clean' = Alone(a)

Done(a) ==
  /\ Goto(a, "idle")
  /\ job' = [job EXCEPT ![a] = NoJob]
  /\ listed' = [listed EXCEPT ![a] = << >>]

Adding(i) == {a \in Admins : job[a].op = "add" /\ job[a].token.of = i}

\* Variant with a bug: the lookup goes by the token.
SameToken(i, t) == {id \in DOMAIN rows : rows[id].token = t}
SameIdentity(i, t) == {id \in DOMAIN rows : rows[id].who = i}

\* addAccount with the token of a new login; AddAccount first looks for an
\* account of the identity.
BeginAdd(a) ==
  \E i \in Identities :
    LET t == [of |-> i, n |-> issued[i] + 1]
        same == SameIdentity(i, t)
    IN  /\ t.n <= MaxIssued
        /\ issued' = [issued EXCEPT ![i] = t.n]
        /\ \/ \E id \in same : Begin(a, [op |-> "add", id |-> id, token |-> t], "update")
           \/ /\ same = {}
              /\ Begin(a, [op |-> "add", id |-> None, token |-> t], "insert")
        /\ doubled' = IF Adding(i) = {} THEN doubled ELSE doubled \cup {i}
        /\ UNCHANGED <<rows, entries, client, listed, callVars, spent, crossed>>

\* Variant with a bug: an account that is gone is put back, with its token only.
PutToken(id, t) ==
  rows' = [x \in DOMAIN rows \cup {id} |->
             IF x # id THEN rows[x]
             ELSE IF x \in DOMAIN rows THEN [rows[x] EXCEPT !.token = t]
             ELSE [who |-> t.of, token |-> t, enabled |-> None]]

\* UPDATE ... WHERE id = ?: an account that is gone stays so.
SetToken(id, t) ==
  rows' = IF id \in DOMAIN rows THEN [rows EXCEPT ![id].token = t] ELSE rows

Update(a) ==
  /\ step[a] = "update"
  /\ SetToken(job[a].id, job[a].token)
  /\ crossed' = crossed \cup {job[a].id}
  /\ Goto(a, "readBack")
  /\ UNCHANGED <<issued, entries, client, job, listed, callVars, spent, clean, doubled>>

Insert(a) ==
  /\ step[a] = "insert"
  /\ \E id \in Ids \ spent :
       /\ rows' = [x \in DOMAIN rows \cup {id} |->
            IF x = id
            THEN [who |-> job[a].token.of, token |-> job[a].token, enabled |-> TRUE]
            ELSE rows[x]]
       /\ spent' = spent \cup {id}
       /\ job' = [job EXCEPT ![a].id = id]
  /\ Goto(a, "readBack")
  /\ UNCHANGED <<issued, entries, client, listed, callVars, clean, doubled, crossed>>

\* AddAccount ends with getAccount.
ReadBack(a) ==
  /\ step[a] = "readBack"
  /\ job[a].id \in DOMAIN rows
  /\ Goto(a, "list")
  /\ UNCHANGED <<rows, issued, entries, client, job, listed, callVars, spent,
                 clean, doubled, crossed>>

\* handleAccountPatch and handleAccountDelete, once they have seen the account.
BeginChange(a) ==
  /\ \E id \in DOMAIN rows, op \in Changes :
       Begin(a, [op |-> op, id |-> id, token |-> None], "change")
  /\ UNCHANGED <<rows, issued, entries, client, listed, callVars, spent,
                 doubled, crossed>>

\* SetAccountEnabled and DeleteAccount; no account, no change.
Change(a) ==
  /\ step[a] = "change"
  /\ LET id == job[a].id IN
       rows' = IF id \notin DOMAIN rows THEN rows
               ELSE IF job[a].op = "delete" THEN Restrict(rows, DOMAIN rows \ {id})
               ELSE [rows EXCEPT ![id].enabled = (job[a].op = "enable")]
  /\ Goto(a, "list")
  /\ UNCHANGED <<issued, entries, client, job, listed, callVars, spent, clean,
                 doubled, crossed>>

\* Reload reads the table first, and takes the pool's lock later.
List(a) ==
  /\ step[a] = "list"
  /\ listed' = [listed EXCEPT ![a] = rows]
  /\ Goto(a, "apply")
  /\ UNCHANGED <<rows, issued, entries, client, job, callVars, spent, clean,
                 doubled, crossed>>

\* Accounts that get a second Client while the first is in use, or one with a
\* token that is not the table's any more.
Revived(list) ==
  {id \in DOMAIN list \ DOMAIN entries :
     \/ id \in DOMAIN rows /\ rows[id].token # list[id].token
     \/ \E k \in Callers : uses[k] # None /\ AccountOf(uses[k]) = id}

Apply(a) ==
  /\ step[a] = "apply"
  /\ UNCHANGED callVars
  /\ Reload(entries, client, listed[a])
  /\ crossed' = crossed \cup Revived(listed[a])
  /\ Done(a)
  /\ UNCHANGED <<rows, issued, spent, clean, doubled>>

\* A database call fails, or finds no account: the request answers an error
\* and leaves the rest undone.
AdminFails(a) ==
  /\ step[a] \notin {"idle", "apply"}
  /\ Done(a)
  /\ clean' = FALSE
  /\ UNCHANGED <<rows, issued, entries, client, callVars, spent, doubled, crossed>>

-----------------------------------------------------------------------------
(* Client.AccessToken and OnRotate.                                        *)

CallerGoto(k, s) == pc' = [pc EXCEPT ![k] = s]

UsersOf(id) == {k \in Callers : uses[k] # None /\ AccountOf(uses[k]) = id}

\* No access token is cached: the refresh token is read under the lock and
\* sent without it.
Send(k) ==
  /\ pc[k] = "idle"
  /\ \E id \in DOMAIN entries :
       LET c == entries[id].client IN
       /\ ~client[c].access
       /\ uses' = [uses EXCEPT ![k] = c]
       /\ token' = [token EXCEPT ![k] = client[c].token]
       /\ crossed' = IF UsersOf(id) = {} THEN crossed ELSE crossed \cup {id}
  /\ CallerGoto(k, "sent")
  /\ UNCHANGED <<rows, issued, entries, client, adminVars, spent, clean, doubled>>

\* The auth server answers, with another refresh token or the same.
AuthAnswers(k) ==
  /\ pc[k] = "sent"
  /\ LET i == token[k].of IN
       \/ /\ issued[i] < MaxIssued
          /\ issued' = [issued EXCEPT ![i] = @ + 1]
          /\ token' = [token EXCEPT ![k].n = issued'[i]]
       \/ UNCHANGED <<issued, token>>
  /\ CallerGoto(k, "answered")
  /\ UNCHANGED <<rows, entries, client, adminVars, uses, spent, clean, doubled, crossed>>

\* AccessToken returns; its Client may be garbage then.
Returns(k, objects) ==
  /\ CallerGoto(k, "idle")
  /\ uses' = [uses EXCEPT ![k] = None]
  /\ token' = [token EXCEPT ![k] = None]
  /\ client' = Restrict(objects, Referred(entries, uses'))

\* Variant with a bug: the new refresh token is stored and not reported.
NeverReported(k) == FALSE
Rotated(k) == token[k] # client[uses[k]].token

\* The answer is stored under the lock.
Store(k) ==
  /\ pc[k] = "answered"
  /\ LET c == uses[k]
         stored == [client EXCEPT ![c].token = token[k], ![c].access = TRUE]
     IN  IF Rotated(k)
         THEN /\ client' = stored
              /\ CallerGoto(k, "rotated")
              /\ UNCHANGED <<uses, token>>
         ELSE Returns(k, stored)
  /\ UNCHANGED <<rows, issued, entries, adminVars, spent, clean, doubled, crossed>>

\* Variant with a bug: the callbacks share their variable, which has the ID
\* of another account.
WriteBackElsewhere(c, t) ==
  LET others == DOMAIN entries \ {AccountOf(c)}
  IN  IF others = {} THEN SetToken(AccountOf(c), t)
      ELSE SetToken(CHOOSE id \in others : TRUE, t)
\* OnRotate has the ID of its own account.
WriteBack(c, t) == SetToken(AccountOf(c), t)

\* OnRotate calls UpdateAccountToken and ignores its error.
OnRotate(k) ==
  /\ pc[k] = "rotated"
  /\ LET c == uses[k] IN
       \/ WriteBack(c, token[k]) /\ UNCHANGED crossed
       \/ crossed' = crossed \cup {AccountOf(c)} /\ UNCHANGED rows
  /\ Returns(k, client)
  /\ UNCHANGED <<issued, entries, adminVars, spent, clean, doubled>>

\* The refresh fails, or its answer is lost.
RefreshFails(k) ==
  /\ pc[k] \in {"sent", "answered"}
  /\ Returns(k, client)
  /\ UNCHANGED <<rows, issued, entries, adminVars, spent, clean, doubled, crossed>>

\* The access token comes within accessTokenEarlyRefresh of its expiry.
AccessExpires(c) ==
  /\ client[c].access
  /\ client' = [client EXCEPT ![c].access = FALSE]
  /\ UNCHANGED <<rows, issued, entries, adminVars, callVars, spent, clean,
                 doubled, crossed>>

-----------------------------------------------------------------------------

\* The process ends, whatever it is doing, and the next builds its pool.
Restart ==
  /\ step' = [a \in Admins |-> "idle"]
  /\ job' = [a \in Admins |-> NoJob]
  /\ listed' = [a \in Admins |-> << >>]
  /\ pc' = [k \in Callers |-> "idle"]
  /\ uses' = [k \in Callers |-> None]
  /\ token' = [k \in Callers |-> None]
  /\ Reload(<< >>, << >>, rows)
  /\ clean' = TRUE
  /\ crossed' = {}
  /\ UNCHANGED <<rows, issued, spent, doubled>>

Admin(a) ==
  \/ BeginAdd(a) \/ Update(a) \/ Insert(a) \/ ReadBack(a)
  \/ BeginChange(a) \/ Change(a)
  \/ List(a) \/ Apply(a) \/ AdminFails(a)

Call(k) == Send(k) \/ AuthAnswers(k) \/ Store(k) \/ OnRotate(k) \/ RefreshFails(k)

Next ==
  \/ \E a \in Admins : Admin(a)
  \/ \E k \in Callers : Call(k)
  \/ \E c \in DOMAIN client : AccessExpires(c)
  \/ Restart

Spec == Init /\ [][Next]_vars

-----------------------------------------------------------------------------
(* Properties.                                                             *)

NoAdmin == \A a \in Admins : step[a] = "idle"
NoCaller == \A k \in Callers : pc[k] = "idle"

\* Whatever requests of the administrator overlapped before, one that runs
\* alone leaves the pool with exactly the accounts of the table, each enabled
\* as it is there.
PoolFollowsTable ==
  clean /\ NoAdmin =>
    /\ DOMAIN entries = DOMAIN rows
    /\ \A id \in DOMAIN rows : entries[id].enabled = rows[id].enabled

\* An identity has one account, unless two requests were adding it at once:
\* no overlap with a deletion, a rotation or a restart doubles it.
OneAccountEach ==
  \A i \in Identities \ doubled : Cardinality({id \in DOMAIN rows : rows[id].who = i}) <= 1

\* A token never gets to the row or the client of another identity, whatever
\* was deleted, added or loaded again while the refresh was on its way.
TokensStayHome ==
  /\ \A id \in DOMAIN rows : rows[id].token.of = rows[id].who
  /\ \A id \in DOMAIN entries \cap DOMAIN rows :
       client[entries[id].client].token.of = rows[id].who

\* A deleted account does not come back, though its Client may be refreshing
\* and its row about to be updated.
DeletedStaysDeleted ==
  [][\A id \in spent : id \notin DOMAIN rows => id \notin DOMAIN rows']_vars

\* What an account has learnt at run time lives in its entry and Client: a
\* request of the administrator that runs alone takes neither away from an
\* account that stays in the table.
ClientsKept ==
  [][clean' /\ (\E a \in Admins : Apply(a)) =>
       \A id \in DOMAIN entries \cap DOMAIN rows :
         id \in DOMAIN entries' /\ entries'[id].client = entries[id].client]_vars

\* The table has the token the Client works with, but for a write that is on
\* its way: unless two refreshes overlapped, an Add wrote another token, the
\* write failed or overlapping Reloads made a second Client.
TokenWrittenBack ==
  \A id \in (DOMAIN entries \cap DOMAIN rows) \ crossed :
    LET c == entries[id].client IN
    \/ rows[id].token = client[c].token
    \/ \E k \in Callers : uses[k] = c /\ pc[k] = "rotated" /\ token[k] = client[c].token

\* accounts.go:202: addAccount brings the token into the pool.  When nothing
\* is going on no Client works with a token older than the table's.
AddedTokenUsed ==
  clean /\ NoAdmin /\ NoCaller =>
    \A id \in DOMAIN entries \cap DOMAIN rows :
      client[entries[id].client].token.n >= rows[id].token.n

=============================================================================
