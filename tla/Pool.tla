-------------------------------- MODULE Pool --------------------------------
(***************************************************************************)
(* The scheduler of internal/pool: Pool.Pick with its sticky sessions and  *)
(* their LRU list, and the cooldowns of ReportFailure and ReportSuccess.   *)
(*                                                                         *)
(* Times are relative to now: a sticky entry keeps what is left of its     *)
(* TTL, -1 once time.Now is after expiresAt, and an account what is left   *)
(* of its cooldown.  Whether an account is in the pool, enabled and within *)
(* its limits is the set fit, which Reload and RefreshLimits may change at *)
(* any moment.  The weighted draw may return any candidate: a weight is at *)
(* least minWeight.                                                        *)
(***************************************************************************)
EXTENDS Backoff, Integers, SequencesExt

CONSTANTS Accounts,
          Keys,          \* affinity keys; NoKey is the empty one
          NoKey,
          NoAccount,     \* Pick returned nil
          MaxSticky,     \* stickyMaxEntries
          StickyTTL,     \* stickyTTL in ticks of baseBackoff
          MaxBackoff,    \* maxBackoff in ticks of baseBackoff
          MaxFailures    \* bound on Entry.failures

ASSUME StickyAssumption ==
  MaxSticky \in Nat \ {0} /\ StickyTTL \in Nat \ {0} /\ NoKey \notin Keys
ASSUME CooldownAssumption == MaxBackoff \in Nat \ {0} /\ MaxFailures \in Nat

VARIABLES
  fit,        \* accounts in the pool, enabled, not suspended, with quota left
  failures,   \* Entry.failures
  cooling,    \* Entry.cooldownUntil - now, 0 when past
  sticky,     \* Pool.sticky: affinity keys to account and time left
  lru,        \* Pool.lru, its front the least recently used key
  last        \* history: the latest Pick

entryVars == <<fit, failures, cooling>>
vars == <<fit, failures, cooling, sticky, lru, last>>

Bound == DOMAIN sticky
Bindings == [account : Accounts, left : -1..StickyTTL]

Picks == [key : Keys \cup {NoKey}, exclude : SUBSET Accounts,
          account : Accounts \cup {NoAccount}]
NoPick == [key |-> NoKey, exclude |-> {}, account |-> NoAccount]

TypeOK ==
  /\ fit \subseteq Accounts
  /\ failures \in [Accounts -> 0..MaxFailures]
  /\ cooling \in [Accounts -> 0..MaxBackoff]
  /\ Bound \subseteq Keys
  /\ sticky \in [Bound -> Bindings]
  /\ lru \in Seq(Keys)
  /\ last \in Picks

Init ==
  /\ fit \in SUBSET Accounts
  /\ failures = [a \in Accounts |-> 0]
  /\ cooling = [a \in Accounts |-> 0]
  /\ sticky = << >>
  /\ lru = << >>
  /\ last = NoPick

-----------------------------------------------------------------------------
(* Pick.                                                                   *)

Usable(a) == a \in fit /\ cooling[a] = 0

Candidates(exclude) == {a \in Accounts \ exclude : Usable(a)}

\* Variant with a bug: an entry at its expiry counts as expired.
ExpiredEarly(k) == sticky[k].left <= 0
Expired(k) == sticky[k].left < 0

\* Variant with a bug: a session's account is not checked again.
ServesUnlessExcluded(k, exclude) ==
  k \in Bound /\ ~Expired(k) /\ sticky[k].account \notin exclude

\* The session is bound to an account that can serve it.
StickyServes(k, exclude) ==
  k \in Bound /\ ~Expired(k) /\ sticky[k].account \in Candidates(exclude)

\* The map and the list as one value.
Table == [map |-> sticky, list |-> lru]

\* The list without the element of k, whose address the map's entry keeps.
Unlink(t, k) ==
  IF k \in DOMAIN t.map
  THEN RemoveAt(t.list, CHOOSE i \in DOMAIN t.list : t.list[i] = k)
  ELSE t.list

\* Variant with a bug: the key stays in the list.
DropFromMap(t, k) ==
  [map |-> Restrict(t.map, DOMAIN t.map \ {k}), list |-> t.list]
removeSticky(t, k) ==
  [map |-> Restrict(t.map, DOMAIN t.map \ {k}), list |-> Unlink(t, k)]

\* Variant with a bug: a bound key keeps its place in the list.
BindInPlace(t, k, a) ==
  [map  |-> [x \in DOMAIN t.map \cup {k} |->
               IF x = k THEN [account |-> a, left |-> StickyTTL] ELSE t.map[x]],
   list |-> IF k \in DOMAIN t.map THEN t.list ELSE Append(t.list, k)]

\* Bind k to a for another TTL; its list element is the last one.
Bind(t, k, a) ==
  [map  |-> [x \in DOMAIN t.map \cup {k} |->
               IF x = k THEN [account |-> a, left |-> StickyTTL] ELSE t.map[x]],
   list |-> Append(Unlink(t, k), k)]

\* The loop of setSticky that makes room for one more entry.
Surplus(t) == Cardinality(DOMAIN t.map) - MaxSticky + 1
Evict(t) ==
  IF Surplus(t) <= 0 THEN t
  ELSE LET gone == SubSeq(t.list, 1, Surplus(t))
       IN  [map  |-> Restrict(t.map, DOMAIN t.map \ ToSet(gone)),
            list |-> SubSeq(t.list, Surplus(t) + 1, Len(t.list))]

MakeRoom(t, k) == IF k \in DOMAIN t.map THEN t ELSE Evict(t)

setSticky(t, k, a) == Bind(MakeRoom(t, k), k, a)

Becomes(t) == sticky' = t.map /\ lru' = t.list

Returns(k, exclude, a) ==
  last' = [key |-> k, exclude |-> exclude, account |-> a]

\* The session's account serves it again.
PickSticky(k, exclude) ==
  /\ StickyServes(k, exclude)
  /\ Becomes(Bind(Table, k, sticky[k].account))
  /\ Returns(k, exclude, sticky[k].account)
  /\ UNCHANGED entryVars

\* Otherwise the weighted draw; an expired binding is removed first.
PickDrawn(k, exclude) ==
  /\ ~StickyServes(k, exclude)
  /\ LET t == IF k \in Bound /\ Expired(k) THEN removeSticky(Table, k) ELSE Table
     IN  \/ /\ Candidates(exclude) = {}
            /\ Becomes(t)
            /\ Returns(k, exclude, NoAccount)
         \/ \E a \in Candidates(exclude) :
              /\ Becomes(IF k = NoKey THEN t ELSE setSticky(t, k, a))
              /\ Returns(k, exclude, a)
  /\ UNCHANGED entryVars

Pick ==
  \E k \in Keys \cup {NoKey}, exclude \in SUBSET Accounts :
    PickSticky(k, exclude) \/ PickDrawn(k, exclude)

-----------------------------------------------------------------------------
(* Cooldowns.                                                              *)

\* Variant with a bug: no upper bound.
BackoffUncapped(n) == 2^(n - 1)
\* Variant with a bug: beyond the cap it starts over.
BackoffStartsAgain(n) == IF 2^(n - 1) <= MaxBackoff THEN 2^(n - 1) ELSE 1

\* Backoff64 in ticks of baseBackoff.
Backoff(n) ==
  CASE Backoff64(n) = {} -> 0
    [] Backoff64(n) = MaxBackoff64 -> MaxBackoff
    [] OTHER -> IF 2^(n - 1) <= MaxBackoff THEN 2^(n - 1) ELSE MaxBackoff

\* An error that is no HTTP status of 500 and above: those change neither
\* the count nor the cooldown.
ReportFailure(a) ==
  /\ failures[a] < MaxFailures
  /\ failures' = [failures EXCEPT ![a] = @ + 1]
  /\ cooling' = [cooling EXCEPT ![a] = Backoff(failures'[a])]
  /\ last' = NoPick
  /\ UNCHANGED <<fit, sticky, lru>>

ReportSuccess(a) ==
  /\ failures' = [failures EXCEPT ![a] = 0]
  /\ cooling' = [cooling EXCEPT ![a] = 0]
  /\ last' = NoPick
  /\ UNCHANGED <<fit, sticky, lru>>

-----------------------------------------------------------------------------

\* Reload, or a new snapshot of the limits.
FitnessChanges ==
  /\ \E a \in Accounts : fit' = (fit \cup {a}) \ (fit \cap {a})
  /\ last' = NoPick
  /\ UNCHANGED <<failures, cooling, sticky, lru>>

Tick ==
  /\ cooling' = [a \in Accounts |-> IF cooling[a] = 0 THEN 0 ELSE cooling[a] - 1]
  /\ sticky' = [k \in Bound |->
                  [sticky[k] EXCEPT !.left = IF @ < 0 THEN -1 ELSE @ - 1]]
  /\ last' = NoPick
  /\ UNCHANGED <<fit, failures, lru>>

Next == \/ Pick
        \/ \E a \in Accounts : ReportFailure(a) \/ ReportSuccess(a)
        \/ FitnessChanges
        \/ Tick

Spec == Init /\ [][Next]_vars

-----------------------------------------------------------------------------
(* Properties.                                                             *)

\* The map and the list stay two views of one table: the list holds every
\* bound key once, and no more than stickyMaxEntries are kept.
ListMatchesMap ==
  /\ ToSet(lru) = Bound
  /\ Len(lru) = Cardinality(Bound)
  /\ Len(lru) <= MaxSticky

\* The list is in the order of expiry, so what setSticky evicts to make room
\* is the session that would have expired first.
ListByExpiry ==
  \A i, j \in 1..Len(lru) :
    i < j => sticky[lru[i]].left <= sticky[lru[j]].left

\* Pick hands out no account that is cooling, unfit or excluded, however
\* recently the session was bound to it.
PickedIsUsable ==
  last.account # NoAccount => last.account \in Candidates(last.exclude)

\* A session moves to another account only if its own could not serve it or
\* its binding was older than stickyTTL.
SessionsStay ==
  [][\A k \in Bound :
       /\ last' # NoPick /\ last'.key = k
       /\ sticky[k].left >= 0
       /\ sticky[k].account \in Candidates(last'.exclude)
       => last'.account = sticky[k].account]_vars

\* One more failure never lets an account back earlier than the failures
\* before it did.
FailuresOnlyLengthen ==
  [][\A a \in Accounts : failures'[a] > failures[a] => cooling'[a] >= cooling[a]]_vars

\* pool.go:361: a failure that counts cools the account down for at least
\* baseBackoff.
FailureCools ==
  [][\A a \in Accounts : failures'[a] > failures[a] => cooling'[a] > 0]_vars

=============================================================================
