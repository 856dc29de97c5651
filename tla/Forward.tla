------------------------------ MODULE Forward ------------------------------
(***************************************************************************)
(* The forwarding loop of the gateway: Handler.forward and                 *)
(* Handler.tryEntry (internal/gateway/forward.go) run by many requests at  *)
(* once over the shared accounts of internal/pool.  A request picks an     *)
(* account, takes one of its concurrency slots with a load and a           *)
(* compare-and-swap, signs, sends, retries on lack of capacity, switches   *)
(* account after a 401 or a transport error, and answers its client.       *)
(*                                                                         *)
(* Abstracted: bodies, headers and token counts; time (a cooldown ends and *)
(* a ticket expires at any moment); the order in which Pick prefers the    *)
(* accounts, which Pool models: here any usable account is picked.         *)
(***************************************************************************)
EXTENDS Naturals, FiniteSets

CONSTANTS Requests,            \* requests that have passed the key limits
          Accounts,            \* account IDs of the pool
          NoAccount,           \* the empty AccountID of a fresh usage log
          MaxConc,             \* Config.AccountMaxConcurrency
          MaxCapacityRetries   \* largest capacity_retries setting considered

ASSUME RequestsAssumption == IsFiniteSet(Requests)
ASSUME AccountsAssumption == NoAccount \notin Accounts
ASSUME MaxConcAssumption == MaxConc \in Nat \ {0}
ASSUME RetriesAssumption == MaxCapacityRetries \in Nat

VARIABLES
  \* The pool, shared by all requests.
  inflight,         \* Entry.Inflight of each account
  cooled,           \* now is before Entry.cooldownUntil
  fit,              \* enabled, not suspended and quota left
  ticket,           \* Client.ticket is cached and not about to expire
  \* The locals of forward and tryEntry, per request.
  pc, acct, cur, exclude, retried401, sawTransportErr,
  attempt, capacityRetries, res,
  status,           \* log.Status
  logAccount,       \* log.AccountID
  connected,        \* r.Context() is not cancelled
  \* History of the request, read by the properties only.
  outcome           \* what each account turned out to be for the request

poolVars == <<inflight, cooled, fit, ticket>>
loopVars == <<exclude, retried401, sawTransportErr>>
tryVars  == <<attempt, capacityRetries, res, status, logAccount, outcome>>
vars == <<inflight, cooled, fit, ticket, pc, acct, cur, exclude, retried401,
          sawTransportErr, attempt, capacityRetries, res, status, logAccount,
          connected, outcome>>

-----------------------------------------------------------------------------

Steps == {"idle", "pick", "load", "cas", "sign", "ticket", "send",
          "backoff", "stream", "unwind", "done"}

\* The steps of tryEntry, which runs between TryAcquire and Release.
Holding == {"sign", "ticket", "send", "backoff", "stream", "unwind"}

RelayStatus == {"ok", "capacity", "broken", "rejected", "unauthorized"}
Status == RelayStatus \cup {"none", "gone", "bad_gateway", "unavailable"}

Results == {"none", "responded", "unauthorized", "transportErr"}

Outcomes == {"untried", "full", "trying", "answered", "unauthorized",
             "failed", "left"}

TypePool ==
  /\ inflight \in [Accounts -> Nat]
  /\ cooled \in [Accounts -> BOOLEAN]
  /\ fit \in [Accounts -> BOOLEAN]
  /\ ticket \in [Accounts -> BOOLEAN]

TypeLoop ==
  /\ pc \in [Requests -> Steps]
  /\ acct \in [Requests -> Accounts \cup {NoAccount}]
  /\ cur \in [Requests -> Nat]
  /\ exclude \in [Requests -> SUBSET Accounts]
  /\ retried401 \in [Requests -> BOOLEAN]
  /\ sawTransportErr \in [Requests -> BOOLEAN]
  /\ connected \in [Requests -> BOOLEAN]

TypeTry ==
  /\ attempt \in [Requests -> 0..MaxCapacityRetries]
  /\ capacityRetries \in [Requests -> 0..MaxCapacityRetries]
  /\ res \in [Requests -> Results]
  /\ status \in [Requests -> Status]
  /\ logAccount \in [Requests -> Accounts \cup {NoAccount}]

TypeOutcome == outcome \in [Requests -> [Accounts -> Outcomes]]

TypeOK == TypePool /\ TypeLoop /\ TypeTry /\ TypeOutcome

Init ==
  /\ inflight = [a \in Accounts |-> 0]
  /\ cooled = [a \in Accounts |-> FALSE]
  /\ fit \in [Accounts -> BOOLEAN]
  /\ ticket = [a \in Accounts |-> FALSE]
  /\ pc = [r \in Requests |-> "idle"]
  /\ acct = [r \in Requests |-> NoAccount]
  /\ cur = [r \in Requests |-> 0]
  /\ exclude = [r \in Requests |-> {}]
  /\ retried401 = [r \in Requests |-> FALSE]
  /\ sawTransportErr = [r \in Requests |-> FALSE]
  /\ attempt = [r \in Requests |-> 0]
  /\ capacityRetries = [r \in Requests |-> 0]
  /\ res = [r \in Requests |-> "none"]
  /\ status = [r \in Requests |-> "none"]
  /\ logAccount = [r \in Requests |-> NoAccount]
  /\ connected = [r \in Requests |-> TRUE]
  /\ outcome = [r \in Requests |-> [a \in Accounts |-> "untried"]]

-----------------------------------------------------------------------------
(* The loop of forward.                                                    *)

Goto(r, step) == pc' = [pc EXCEPT ![r] = step]
Judge(r, a, what) == outcome' = [outcome EXCEPT ![r][a] = what]

\* forward returns: its locals are gone.
Return(r) ==
  /\ exclude' = [exclude EXCEPT ![r] = {}]
  /\ retried401' = [retried401 EXCEPT ![r] = FALSE]
  /\ sawTransportErr' = [sawTransportErr EXCEPT ![r] = FALSE]
  /\ Goto(r, "done")

\* handleModel calls forward.
Arrive(r) ==
  /\ pc[r] = "idle"
  /\ Goto(r, "pick")
  /\ UNCHANGED <<poolVars, acct, cur, loopVars, tryVars, connected>>

\* Entry.usable, without the clock.
Usable(a) == fit[a] /\ ~cooled[a]

Candidates(r) == {a \in Accounts \ exclude[r] : Usable(a)}

\* Pool.Pick returns an entry.
PickEntry(r) ==
  /\ pc[r] = "pick"
  /\ \E a \in Candidates(r) : acct' = [acct EXCEPT ![r] = a]
  /\ Goto(r, "load")
  /\ UNCHANGED <<poolVars, cur, loopVars, tryVars, connected>>

\* Pool.Pick returns nil: 502 after a transport error, else 503.
NoEntry(r) ==
  /\ pc[r] = "pick"
  /\ Candidates(r) = {}
  /\ status' = [status EXCEPT ![r] =
                  IF sawTransportErr[r] THEN "bad_gateway" ELSE "unavailable"]
  /\ Return(r)
  /\ UNCHANGED <<poolVars, acct, cur, attempt, capacityRetries, res,
                 logAccount, outcome, connected>>

\* Variant with a bug: one slot more than the limit.
FullOffByOne(a) == inflight[a] > MaxConc
\* TryAcquire's first look at the counter.
Full(a) == inflight[a] >= MaxConc

\* Variant with a bug: a plain store in place of the compare-and-swap.
StoreWithoutCompare(r) == TRUE
\* And its second one.
Unchanged(r) == inflight[acct[r]] = cur[r]

\* TryAcquire reads the counter; a full account is excluded and the loop
\* goes back to Pick.
LoadInflight(r) ==
  /\ pc[r] = "load"
  /\ LET a == acct[r] IN
       \/ /\ Full(a)
          /\ exclude' = [exclude EXCEPT ![r] = @ \cup {a}]
          /\ Judge(r, a, "full")
          /\ acct' = [acct EXCEPT ![r] = NoAccount]
          /\ Goto(r, "pick")
          /\ UNCHANGED cur
       \/ /\ ~Full(a)
          /\ cur' = [cur EXCEPT ![r] = inflight[a]]
          /\ Goto(r, "cas")
          /\ UNCHANGED <<exclude, outcome, acct>>
  /\ UNCHANGED <<poolVars, retried401, sawTransportErr, attempt,
                 capacityRetries, res, status, logAccount, connected>>

\* Variant with a bug: the log keeps the account tried first.
FirstNameInLog(r, a) ==
  logAccount' = [logAccount EXCEPT ![r] = IF @ = NoAccount THEN a ELSE @]
NameInLog(r, a) == logAccount' = [logAccount EXCEPT ![r] = a]

\* TryAcquire's compare-and-swap succeeds and tryEntry begins: it names the
\* account in the log and reads the capacity_retries setting of the moment.
Acquire(r) ==
  /\ pc[r] = "cas"
  /\ LET a == acct[r] IN
       /\ Unchanged(r)
       /\ inflight' = [inflight EXCEPT ![a] = @ + 1]
       /\ NameInLog(r, a)
       /\ Judge(r, a, "trying")
  /\ \E n \in 0..MaxCapacityRetries :
       capacityRetries' = [capacityRetries EXCEPT ![r] = n]
  /\ attempt' = [attempt EXCEPT ![r] = 0]
  /\ cur' = [cur EXCEPT ![r] = 0]
  /\ Goto(r, "sign")
  /\ UNCHANGED <<cooled, fit, ticket, acct, loopVars, res, status, connected>>

\* The compare-and-swap fails: TryAcquire loads again.
AcquireRaced(r) ==
  /\ pc[r] = "cas"
  /\ ~Unchanged(r)
  /\ Goto(r, "load")
  /\ UNCHANGED <<poolVars, acct, cur, loopVars, tryVars, connected>>

-----------------------------------------------------------------------------
(* tryEntry.                                                               *)

\* entry.Client.SignedRequest: the cached ticket signs without any network.
SignCached(r) ==
  /\ pc[r] = "sign"
  /\ ticket[acct[r]]
  /\ Goto(r, "send")
  /\ UNCHANGED <<poolVars, acct, cur, loopVars, tryVars, connected>>

\* Without a cached ticket Client.Ticket asks the relay for one.
SignUncached(r) ==
  /\ pc[r] = "sign"
  /\ ~ticket[acct[r]]
  /\ Goto(r, "ticket")
  /\ UNCHANGED <<poolVars, acct, cur, loopVars, tryVars, connected>>

TicketGranted(r) ==
  /\ pc[r] = "ticket"
  /\ ticket' = [ticket EXCEPT ![acct[r]] = TRUE]
  /\ Goto(r, "send")
  /\ UNCHANGED <<inflight, cooled, fit, acct, cur, loopVars, tryVars, connected>>

\* Variant with a bug: a 5xx cools the account too.
FailureOfAnyStatus(a, is5xx) == cooled' = [cooled EXCEPT ![a] = TRUE]

\* Pool.ReportFailure: an HTTP status of 500 and above does not cool down.
ReportFailure(a, is5xx) == cooled' = [cooled EXCEPT ![a] = @ \/ ~is5xx]

\* SignedRequest fails: a refusal, a timeout, or the client has gone and its
\* context fails the call.  The code does not tell them apart.
TicketFails(r) ==
  /\ pc[r] = "ticket"
  /\ \E is5xx \in BOOLEAN :
       /\ is5xx => connected[r]
       /\ ReportFailure(acct[r], is5xx)
  /\ res' = [res EXCEPT ![r] = "transportErr"]
  /\ Judge(r, acct[r], "failed")
  /\ Goto(r, "unwind")
  /\ UNCHANGED <<inflight, fit, ticket, acct, cur, loopVars, attempt,
                 capacityRetries, status, logAccount, connected>>

\* http.Do fails for the relay's or the network's reasons.
SendFails(r) ==
  /\ pc[r] = "send"
  /\ connected[r]
  /\ ReportFailure(acct[r], FALSE)
  /\ res' = [res EXCEPT ![r] = "transportErr"]
  /\ Judge(r, acct[r], "failed")
  /\ Goto(r, "unwind")
  /\ UNCHANGED <<inflight, fit, ticket, acct, cur, loopVars, attempt,
                 capacityRetries, status, logAccount, connected>>

\* The client has gone: 499 in the log, nothing is written, no retry.
ClientGone(r) ==
  /\ status' = [status EXCEPT ![r] = "gone"]
  /\ res' = [res EXCEPT ![r] = "responded"]
  /\ Judge(r, acct[r], "left")
  /\ Goto(r, "unwind")
  /\ UNCHANGED <<poolVars, acct, cur, loopVars, attempt, capacityRetries,
                 logAccount, connected>>

\* Variant with a bug: the request is sent without r.Context().
SentWithoutContext(r) == FALSE

\* The call or the sleep runs under r.Context().
ContextDone(r) == ~connected[r]

\* http.Do fails and ctx.Err() is set.
SendAborted(r) == pc[r] = "send" /\ ContextDone(r) /\ ClientGone(r)

\* sleepCtx returns false.
BackoffAborted(r) == pc[r] = "backoff" /\ ContextDone(r) /\ ClientGone(r)

\* Variant with a bug: one retry more than the setting.
OneRetryTooMany(r) == attempt[r] <= capacityRetries[r]
RetriesLeft(r) == attempt[r] < capacityRetries[r]

\* 503 model_capacity_exhausted with retries left: wait on the same account.
CapacityRetry(r) ==
  /\ pc[r] = "send"
  /\ RetriesLeft(r)
  /\ Goto(r, "backoff")
  /\ UNCHANGED <<poolVars, acct, cur, loopVars, tryVars, connected>>

\* sleepCtx returns true; select may prefer the timer to a cancelled context.
BackoffOver(r) ==
  /\ pc[r] = "backoff"
  /\ attempt' = [attempt EXCEPT ![r] = @ + 1]
  /\ Goto(r, "sign")
  /\ UNCHANGED <<poolVars, acct, cur, loopVars, capacityRetries, res, status,
                 logAccount, outcome, connected>>

\* 401: drop the account's ticket and switch.
Unauthorized(r) ==
  /\ pc[r] = "send"
  /\ ticket' = [ticket EXCEPT ![acct[r]] = FALSE]
  /\ res' = [res EXCEPT ![r] = "unauthorized"]
  /\ Judge(r, acct[r], "unauthorized")
  /\ Goto(r, "unwind")
  /\ UNCHANGED <<inflight, cooled, fit, acct, cur, loopVars, attempt,
                 capacityRetries, status, logAccount, connected>>

\* 2xx: ReportSuccess, then the body goes to the client.
Success(r) ==
  /\ pc[r] = "send"
  /\ cooled' = [cooled EXCEPT ![acct[r]] = FALSE]
  /\ status' = [status EXCEPT ![r] = "ok"]
  /\ Judge(r, acct[r], "answered")
  /\ Goto(r, "stream")
  /\ UNCHANGED <<inflight, fit, ticket, acct, cur, loopVars, attempt,
                 capacityRetries, res, logAccount, connected>>

\* The body ends, or its reader fails because the client has gone.
StreamEnds(r) ==
  /\ pc[r] = "stream"
  /\ res' = [res EXCEPT ![r] = "responded"]
  /\ Goto(r, "unwind")
  /\ UNCHANGED <<poolVars, acct, cur, loopVars, attempt, capacityRetries,
                 status, logAccount, outcome, connected>>

\* Any other status goes to the client as it is.  Lack of capacity (its
\* retries spent) is not reported; 5xx is, without cooling; the rest cools.
PassThrough(r) ==
  /\ pc[r] = "send"
  /\ \E s \in {"capacity", "broken", "rejected"} :
       /\ s = "capacity" => ~RetriesLeft(r)
       /\ IF s = "capacity"
          THEN UNCHANGED cooled
          ELSE ReportFailure(acct[r], s = "broken")
       /\ status' = [status EXCEPT ![r] = s]
  /\ res' = [res EXCEPT ![r] = "responded"]
  /\ Judge(r, acct[r], "answered")
  /\ Goto(r, "unwind")
  /\ UNCHANGED <<inflight, fit, ticket, acct, cur, loopVars, attempt,
                 capacityRetries, logAccount, connected>>

-----------------------------------------------------------------------------
(* tryEntry returns: its deferred Release, then forward's switch on the    *)
(* result.                                                                 *)

\* Variant with a bug: a failed try does not release its slot.
SlotKeptOnFailure(r) ==
  inflight' = IF res[r] = "transportErr"
              THEN inflight ELSE [inflight EXCEPT ![acct[r]] = @ - 1]
GiveSlotBack(r) == inflight' = [inflight EXCEPT ![acct[r]] = @ - 1]

\* The locals of tryEntry go with it.
Release(r) ==
  /\ pc[r] = "unwind"
  /\ GiveSlotBack(r)
  /\ acct' = [acct EXCEPT ![r] = NoAccount]
  /\ attempt' = [attempt EXCEPT ![r] = 0]
  /\ capacityRetries' = [capacityRetries EXCEPT ![r] = 0]
  /\ res' = [res EXCEPT ![r] = "none"]
  /\ UNCHANGED <<cooled, fit, ticket, cur, logAccount, outcome, connected>>

\* Variant with a bug: the account is not excluded.
SwitchWithoutExclude(r) ==
  /\ Goto(r, "pick")
  /\ UNCHANGED <<exclude, status>>

\* The account is done with for this request; the loop goes on.
SwitchAccount(r) ==
  /\ exclude' = [exclude EXCEPT ![r] = @ \cup {acct[r]}]
  /\ Goto(r, "pick")
  /\ UNCHANGED status

Responded(r) ==
  /\ Release(r)
  /\ res[r] = "responded"
  /\ Return(r)
  /\ UNCHANGED status

\* Variant with a bug: retried401 is never looked at.
SwitchOnEvery401(r) == TRUE
MaySwitchOn401(r) == ~retried401[r]

\* The first 401 switches account.
FirstUnauthorized(r) ==
  /\ Release(r)
  /\ res[r] = "unauthorized"
  /\ MaySwitchOn401(r)
  /\ retried401' = [retried401 EXCEPT ![r] = TRUE]
  /\ SwitchAccount(r)
  /\ UNCHANGED sawTransportErr

\* The second one goes to the client.
SecondUnauthorized(r) ==
  /\ Release(r)
  /\ res[r] = "unauthorized"
  /\ ~MaySwitchOn401(r)
  /\ status' = [status EXCEPT ![r] = "unauthorized"]
  /\ Return(r)

AfterTransportErr(r) ==
  /\ Release(r)
  /\ res[r] = "transportErr"
  /\ SwitchAccount(r)
  /\ sawTransportErr' = [sawTransportErr EXCEPT ![r] = TRUE]
  /\ UNCHANGED retried401

-----------------------------------------------------------------------------
(* What the requests do not control.                                       *)

\* The client closes its connection: r.Context() is cancelled.
Disconnect(r) ==
  /\ pc[r] \notin {"idle", "done"}
  /\ connected[r]
  /\ connected' = [connected EXCEPT ![r] = FALSE]
  /\ UNCHANGED <<poolVars, pc, acct, cur, loopVars, tryVars>>

\* now reaches Entry.cooldownUntil.
CooldownEnds(a) ==
  /\ cooled[a]
  /\ cooled' = [cooled EXCEPT ![a] = FALSE]
  /\ UNCHANGED <<inflight, fit, ticket, pc, acct, cur, loopVars, tryVars,
                 connected>>

\* A refresh of the limits or a Reload changes whether the account is fit.
FitnessChanges(a) ==
  /\ fit' = [fit EXCEPT ![a] = ~@]
  /\ UNCHANGED <<inflight, cooled, ticket, pc, acct, cur, loopVars, tryVars,
                 connected>>

\* The cached ticket comes within ticketEarlyRefresh of its expiry.
TicketExpires(a) ==
  /\ ticket[a]
  /\ ticket' = [ticket EXCEPT ![a] = FALSE]
  /\ UNCHANGED <<inflight, cooled, fit, pc, acct, cur, loopVars, tryVars,
                 connected>>

-----------------------------------------------------------------------------

Step(r) ==
  \/ Arrive(r) \/ PickEntry(r) \/ NoEntry(r)
  \/ LoadInflight(r) \/ Acquire(r) \/ AcquireRaced(r)
  \/ SignCached(r) \/ SignUncached(r) \/ TicketGranted(r) \/ TicketFails(r)
  \/ SendFails(r) \/ SendAborted(r) \/ CapacityRetry(r) \/ BackoffOver(r)
  \/ BackoffAborted(r) \/ Unauthorized(r) \/ Success(r) \/ StreamEnds(r)
  \/ PassThrough(r)
  \/ Responded(r) \/ FirstUnauthorized(r) \/ SecondUnauthorized(r)
  \/ AfterTransportErr(r)

Environment ==
  \/ \E r \in Requests : Disconnect(r)
  \/ \E a \in Accounts : CooldownEnds(a) \/ FitnessChanges(a) \/ TicketExpires(a)

Next == (\E r \in Requests : Step(r)) \/ Environment

Spec == Init /\ [][Next]_vars

\* Steps a goroutine takes without waiting for the relay: its own
\* instructions, timers, the 60 s timeout of the ticket calls, and the return
\* of a call whose context is cancelled.
Runs(r) ==
  \/ PickEntry(r) \/ NoEntry(r)
  \/ LoadInflight(r) \/ Acquire(r) \/ AcquireRaced(r)
  \/ SignCached(r) \/ SignUncached(r) \/ TicketFails(r) \/ SendAborted(r)
  \/ BackoffOver(r)
  \/ (~connected[r] /\ StreamEnds(r))
  \/ Responded(r) \/ FirstUnauthorized(r) \/ SecondUnauthorized(r)
  \/ AfterTransportErr(r)

\* The scheduler runs every goroutine; nothing is assumed of the relay.
FairSpec == Spec /\ \A r \in Requests : WF_vars(Runs(r))

-----------------------------------------------------------------------------
(* Properties.                                                             *)

Holders(a) == {r \in Requests : pc[r] \in Holding /\ acct[r] = a}

\* The counter of an account is the number of requests inside tryEntry on it:
\* no path of the loop leaks a slot or gives one back twice.
SlotAccounting == \A a \in Accounts : inflight[a] = Cardinality(Holders(a))

\* The load and the compare-and-swap of TryAcquire never let more than
\* AccountMaxConcurrency requests work on an account.
InflightBounded == \A a \in Accounts : inflight[a] <= MaxConc

\* The counter, the load and the compare-and-swap implement one atomic
\* bounded semaphore per account.
Slots == INSTANCE AccountSlots WITH holders <- [a \in Accounts |-> Holders(a)]
ImplementsSlots == Slots!Spec

\* A request turns to an account once: after the account was found full,
\* refused the ticket, failed or answered, the request never tries it again,
\* whatever the pool says of it later.
Settled(o) == o \notin {"untried", "trying"}
NoSecondTry ==
  [][\A r \in Requests, a \in Accounts :
       Settled(outcome[r][a]) => outcome'[r][a] = outcome[r][a]]_vars

Refused(r) == {a \in Accounts : outcome[r][a] = "unauthorized"}

\* A 401 costs a request at most one switch of account: two accounts refuse
\* at most, a client sees 401 exactly when the second one did, and one refusal
\* never hides behind another status once the request is answered 2xx, 4xx or
\* 5xx by the account it names.
TwoRefusalsAtMost ==
  \A r \in Requests :
    /\ Cardinality(Refused(r)) <= 2
    /\ (pc[r] = "done") =>
         (status[r] = "unauthorized" <=> Cardinality(Refused(r)) = 2)

\* The status the client sees tells what happened: 502 only after an account
\* failed, 503 only if none did, a relay status only if one account answered,
\* the account named in the usage log; 499 only if the client has gone.
StatusIsTrue ==
  \A r \in Requests : pc[r] = "done" =>
    CASE status[r] \in {"ok", "capacity", "broken", "rejected"} ->
           {a \in Accounts : outcome[r][a] = "answered"} = {logAccount[r]}
      [] status[r] = "unauthorized" -> logAccount[r] \in Refused(r)
      [] status[r] = "bad_gateway" -> \E a \in Accounts : outcome[r][a] = "failed"
      [] status[r] = "unavailable" ->
           \A a \in Accounts : outcome[r][a] \in {"untried", "full", "unauthorized"}
      [] status[r] = "gone" -> ~connected[r] /\ outcome[r][logAccount[r]] = "left"
      [] OTHER -> FALSE

\* An account starts to cool only because a request holding one of its slots
\* failed on it or was rejected with a status that is neither 401 nor 5xx:
\* lack of capacity, relay faults and ticket refusals cool nothing.
CoolingIsEarned ==
  [][\A a \in Accounts : ~cooled[a] /\ cooled'[a] =>
       \E r \in Holders(a) :
         \/ outcome[r][a] = "trying" /\ outcome'[r][a] = "failed"
         \/ status[r] = "none" /\ status'[r] = "rejected"]_vars

\* A client that leaves is let go and its slot returned, even if the relay
\* never answers anything: what a goroutine waits for ends with its context.
GoneClientsDrain ==
  \A r \in Requests : ~connected[r] ~> pc[r] = "done"

\* forward.go:162: once the client has gone a request does not go on to
\* another account, so it settles no account as failed.
NoRetryOnceGone ==
  [][\A r \in Requests, a \in Accounts :
       ~connected[r] /\ outcome'[r][a] = "failed" => outcome[r][a] = "failed"]_vars

=============================================================================
