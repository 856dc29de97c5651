# mirasim2api in TLA+

mirasim2api is an HTTP gateway that puts a pool of Mirasim accounts behind one
API. A client presents an `sk-` key; the gateway checks the key and its limits,
picks an account, signs and seals the request for the relay, streams the answer
back, and records what it cost. An administrator adds accounts by OAuth, by an
e-mail code or by pasting a refresh token, and manages keys and settings.

These modules model the parts of it that run concurrently or keep state. TLC
checks them on small instances and TLAPS proves the main invariants for every
value of the constants. File names below are relative to the repository.

## 1. The system

### Components

| component | state | operations | what makes it correct |
|---|---|---|---|
| **forwarding loop**, `internal/gateway/forward.go` | per request: excluded accounts, `retried401`, `sawTransportErr`, attempt, the usage log; shared: `Entry.Inflight` | `forward`, `tryEntry`, `TryAcquire`, `Release`, `sleepCtx` | a slot is never lost or given twice; at most `AccountMaxConcurrency` requests per account; one switch per 401; no account twice; a true status in the log; nobody waits for the relay once the client has gone |
| **key limits**, `internal/gateway/auth.go` | `keySlotter.chans`, `rateLimiter.hits` | `authenticate`, `acquireKeyLimits`, `chanFor`, `acquire`, `allow`, release | tokens in a channel are holders, whatever is patched meanwhile; the sliding window is exact |
| **request handling**, `internal/gateway/handler.go`, `errors.go` | none of its own | `handleModel`, `/v1/models`, `/health` | order: normalise, route, authenticate, limits, forward |
| **normalisation**, `internal/gateway/normalize.go` | none | rewriting of JSON bodies | system text lifted in order; for claude-* the fingerprint in it and at most 200 bytes; one affinity key for all turns of a conversation |
| **pool**, `internal/pool/pool.go` | entries with failures, cooldown, limits; sticky map and LRU list | `Pick`, `ReportSuccess`, `ReportFailure`, `Reload`, `RefreshLimits`, limits loop | picks are usable; the map and the list agree; cooldowns grow; the entries follow the table |
| **relay client**, `internal/mirasim/client.go` | refresh token, access token, ticket | `AccessToken`, `Ticket`, `InvalidateTicket`, `SignedRequest` | a rotated token gets to the table, under its own account |
| **cryptography**, `internal/mirasim/crypto.go` | none | signatures, sealing, encryption at rest | (not modelled) |
| **billing recorder**, `internal/billing/billing.go` | the buffer; batches on the stacks of those who flush | `Record`, `Flush`, `loop`, `Close` | every log is written once and counted once; an orderly stop loses none |
| **usage parsing**, `internal/billing/usage.go` | none; `teeStream` keeps the events that mention usage | parsing of SSE and JSON | the largest count of each kind, wherever the stream is cut into events |
| **store**, `internal/store/store.go` | SQLite: accounts, api_keys, usage_logs, settings, device | one statement at a time (`SetMaxOpenConns(1)`) | `AddAccount` is idempotent |
| **admin: accounts**, `internal/admin/accounts.go` | none | list, patch, delete, refresh, `addAccount` | the pool has what the table has |
| **admin: OAuth**, `internal/admin/oauth.go` | flows with listeners and expiry | start, callback, complete, sweeper | a port is open while its flow waits, and no longer; the page that polls is told the truth and never goes back |
| **admin: sessions, keys, settings, usage, summary** | the rows | reads and single writes | |
| **settings**, `internal/runtimecfg`, `internal/config` | settings table over environment over defaults | `Get`, `Set` | effective at the next read |
| **server**, `internal/server/server.go` | the mux, two gateway handlers | `Run`: assembly, `Shutdown`, deferred closes | the order of the stop |
| **desktop shell, autostart, web UI, deployment** | | | (not modelled) |

### How they interact

`server.Run` builds one store, one pool and one recorder, and *two* gateway
handlers, for `/v1/` and for bare paths; each has a `keySlotter` and a
`rateLimiter` of its own. Each HTTP request is a goroutine. It normalises its
body, reads its key's row, takes a slot of the key, passes the rate limiter and
calls `forward`, which
shares the pool's entries with all other requests through an atomic counter, the
entry's mutex and the pool's mutex. Tickets and access tokens are fetched by the
first request that needs them, outside the client's mutex; a new refresh token
comes back to the store through the `OnRotate` callback. The usage log goes to
the recorder, which flushes from whatever goroutine fills the buffer, from the
ticker's loop and from `Close`. Administrator's requests write the store and
call `Pool.Reload`; a login does so from the goroutine that serves its loopback
port, while the administrator's page polls the flow and the sweeper may remove it.

### What is hard here

- **Interleaving**: the load and compare-and-swap of `TryAcquire`; concurrent
  flushes; a key's channel replaced while requests hold its slots; `Reload` that
  reads the table before it takes the pool's lock; refreshes that overlap.
- **Failure half way**: many ways out of `tryEntry`; two writes per usage log; an
  administrator's request that fails between its write and its `Reload`.
- **Timeouts and cancellation**: the client's context ends in any call or sleep;
  `Shutdown` gives up after ten seconds while requests run on.
- **Crash and restart**: the buffer, the batches and a token not yet written back
  are in memory only.
- **Staleness**: sticky bindings, key rows read before a patch, clients that
  outlive their entry.
- **Numbers**: the backoff is a shift of a 64-bit duration; sliding windows have
  boundaries; `time.Now` is taken before a lock.

`PROJECT.json` lists every hazard with its line and the properties for it.

## 2. The modules

```
AccountSlots  <-- Forward  <-- MCForward      (ForwardProofs)
                  KeyLimits <-- MCKeyLimits   (KeyLimitsProofs)
Backoff       <-- Pool     <-- MCPool         (PoolProofs)
Ledger        <-- Billing  <-- MCBilling      (BillingProofs)
                  Accounts <-- MCAccounts     (AccountsProofs)
                  Logins   <-- MCLogins       (LoginsProofs)
Usage                                       (UsageProofs)
Forward, Normalize, Usage <-- Gateway <-- MCGateway   (GatewayProofs)
```

An arrow points to the module that another implements or uses. MC modules add
symmetry; constants get their values in the `.cfg` files. A definition headed
"Variant with a bug" is used by no action: it is a plausible mistake in the
definition below it, kept to show that the properties notice it.

### Forward - the loop of forward and tryEntry

`pc[r]` is where a request's goroutine stands: `pick`, `load` and `cas` in
`TryAcquire`, `sign`, `ticket` and `send` in `tryEntry`, `backoff` in
`sleepCtx`, `stream` in the copy of the body, `unwind` when `tryEntry` returns
(its deferred `Release` and `forward`'s switch are one step, as nothing else of
it is visible in between). The locals of both functions are one variable each.
The relay's answers are actions: `Success`, `Unauthorized`, `CapacityRetry`,
`PassThrough`, `SendFails`. A ticket is fetched (`TicketGranted`,
`TicketFails`), cached per account and dropped on a 401 or when it expires. The
environment disconnects clients, ends cooldowns and changes the fitness of
accounts.

Abstracted: bodies, headers and tokens; time; the order in which `Pick` prefers
accounts (any usable one that is not excluded), which is Pool's subject. The
failures of a 5xx and of others are told apart, as the code does. `outcome` is a
history variable.

`AccountSlots` is the promise: one bounded semaphore per account with atomic
`Take` and `Give`. The mapping makes a request a holder from its successful
compare-and-swap to its `Release`.

### KeyLimits - the limits of one key

Keys share only mutexes, so one key stands for all. Channels are heap objects,
named after the request whose `chanFor` made them; a release receives from the
channel its request sent into, which may have been replaced since. The row is
patched column by column, as `UpdateAPIKey` does. A request is let in once at
most, so a hit in the window is named after its request and its time is
`now` of that request; the window is a set, as the code reads its length and the
times only. `now[r]` is the `time.Now()`
that is evaluated before the rate limiter's lock. The checks for enabled,
expired and allowed models are one flag.

### Pool - sticky sessions and cooldowns

One action per call, as every method runs under a mutex. Times are relative: a
binding keeps what is left of its TTL, an account what is left of its cooldown.
`sticky` and `lru` are two variables because they are two structures in the
code; `Unlink` takes a key out of the list at the place the map's element points
to. The weighted draw may return any candidate, as each weight is at least
`minWeight`. `Backoff` computes the shift in 64-bit words of nanoseconds; a word
is the set of its one bits, since TLC's integers have 32. Its first `ASSUME`,
evaluated on the pool runs, compares it with the documented rule up to the 55th
failure; the second places the first six backoffs below the cap.

### Billing - the recorder and the stop of the server

Requests, the loop and the closing goroutine are all `Flushers`. `Swap` takes
the buffer under the lock; `AddUsageLog` and `AddUsage` are two steps and either
may fail. `Shutdown`, `Drained`, `CutOff`, `LastFlush`, `CloseStore` and `Exit`
are the end of `server.Run` with its deferred calls in order; `CutOff` is the end
of the ten seconds, or a failed `Serve`, with requests still running. `Crash` may
come at any moment, and `Start` is the next process on the same database.
A batch is a set: the order of its logs is left open. Costs, token counts and
the deletion of a key between the two writes are left out.

`Ledger` is the promise: a log is owed, entered, settled or lost, in that order.

### Accounts - table, pool, clients and administrator

`rows` is the table, `entries` the pool's map, `client` the heap of
`mirasim.Client` objects still referred to. An administrator's request is a
sequence of database statements, then `List` and `Apply`, the two halves of
`Reload`: the table is read before the pool's lock is taken. A caller of
`AccessToken` reads the refresh token under the client's lock, sends it without
it, stores the answer under it, and calls `OnRotate` after it. The auth server
issues numbered tokens. `AdminFails` is any database error, or an account that
has gone; `Restart` is the end of the process at any moment followed by
`pool.New`. The look-up of an account is one step with the beginning of its
request, as nothing is done before it.

Abstracted: names, access tokens beyond "cached", and an error of
`newClient` in `Reload`, which `NewClientFunc` never returns.

### Logins - OAuth flows, pasted tokens, e-mail codes

`flows` is `flowStore.flows`; `open` are the flows whose listener is open.
`Start` is `handleOAuthStart`, `Callback`, `TakeProvider`, `AddAccount` and
`Finish` the steps of a goroutine of `serveOAuthCallback`, between which the
store's lock is free. Several callbacks may be in flight, also of one flow, as
`Server.Close` does not wait for handlers. `Sweep` is one round of the sweeper
under the lock, `Expire` the moment `expiresAt` is past, and `Answer` what
`handleOAuthComplete` tells a page that polls. `Paste` and `VerifyEmail` store
an account without any flow, as the code does even for a pasted callback link.
`Restart` loses flows and ports and keeps the table. `started` is a history
variable.

`addAccount` is one step here, with its possible errors; Accounts has its
statements, and what else happens to rows. An account is its e-mail address and
its provider. The two modules share no variable but the table, and the
composition was not worth its states: nothing in Accounts reads a flow.

### Normalize, Usage and Gateway - what goes in and what comes out

`Normalize` has the pure functions of `normalize.go` under their own names:
`normalize`, `normalizeMessages` (hoisting, `top_p`, fingerprint, limit by cloak
mode), `truncateSystemBlocks`, `affinityKey`, and the routing by model family of
`handleModel`. `Usage` has `teeStream`, `sseDataPayloads` and the three parsers,
which differ in names and nesting only. Both are written with folds, not with
recursion, one operator to a step (`KeepBlock`, `SplitLine`, `Frame`); the
messages hoisted and kept are those at some positions (`At`).

A text is a sequence of bytes: the fingerprint has three, a wide character two,
and the limit is five, so that blocks fit, are cut inside the fingerprint, inside
a character, between blocks, or not at all. `PrefixLength` scales the 128 bytes
that `affinityKey` hashes of each value. A stream is a sequence of lines: blank,
data with usage at the top, nested or none, `[DONE]`, or other; all with LF or
all with CRLF. An answer that is not streamed is one document.

`Gateway` puts them around Forward: the body is made before the loop and the same
for every try, the stream is read after it. Its three invariants ask, at the step
of Forward where a body is sent, a key is looked up or a stream has been passed
on, what holds of every body or stream considered there; they quantify over
inputs because the loop's state depends on none of them.

## 3. The runs

| run | instance | shows |
|---|---|---|
| `forward` | 2 requests, 2 accounts, 1 slot each, at most 1 capacity retry | `SlotAccounting`, `InflightBounded`, `StatusIsTrue`, `CoolingIsEarned`, and that Forward implements `AccountSlots` |
| `forward_switch` | 1 request, 3 accounts, with fairness; system blocks up to 2, messages up to 2, both cloak modes; streams up to 5 lines | `TwoRefusalsAtMost`, `NoSecondTry`, `GoneClientsDrain`; `RelayAccepts`, `ConversationSticks`, `StreamsCounted` |
| `forward_gone` | 1 request, 2 accounts | finding 1 |
| `key_limits` | 3 requests, 2 handlers, concurrency 1 or the default of 2, 0 or 1 rpm, window of 2 ticks, 3 ticks | `TokensAreHolders`, `GatewayConcurrency`, `RateIsExact` |
| `key_limits_twice` | the same | finding 2 |
| `pool` | 2 accounts, 3 keys, 2 sticky entries, TTL 2, cap of 4 base backoffs, 4 failures | `ListMatchesMap`, `ListByExpiry`, `PickedIsUsable`, `SessionsStay`, `FailuresOnlyLengthen` |
| `pool_overflow` | 1 account, 60 failures, cap of 40 | finding 3 |
| `billing` | 3 requests, 2 with a key, batches of 2, with fairness | `BilledOnce`, `BufferBounded`, `NothingLostByStop`, `EventuallySettled`, and that Billing implements `Ledger` |
| `accounts` | 2 identities, 2 IDs, 1 administrator, 2 callers, 2 tokens each | `TokensStayHome`, `TokenWrittenBack`, `DeletedStaysDeleted` |
| `accounts_admins` | 1 identity, 2 IDs, 2 administrators, 1 caller | `PoolFollowsTable`, `OneAccountEach`, `ClientsKept` |
| `accounts_relogin` | 1 identity, 1 ID, 1 administrator, 1 caller | finding 4 |
| `logins` | 2 flows, 2 callbacks in flight, 1 address, 4 providers, 1 restart, with fairness | `ListenersOwned`, `DoneIsTrue`, `AnswersOnlyAdvance`, `PortsFreed` |

The first passing run of each component also checks its `TypeOK`.

### Why the bounds are enough

Two requests and one slot are the smallest race for a slot, and the second
account is what a full or failed one is left for. Three accounts and one request
let a second 401 happen with a third account still to try, and a transport error
between the two. In KeyLimits three requests let a channel be replaced while one
request holds a slot of the old one and another waits for the new; `now` may lag
the clock by a whole window. The pool's third key evicts one of two bindings, and
three failures reach the cap. Three logs fill a batch of two and start another
while the first is being written. Two IDs let an account be deleted and added
again; with two tokens the table and a client can differ. Two flows and two
callbacks let one flow be finished twice, or be swept under a callback, while the
other is told from it by its provider; a second address would only rename
accounts. Two system blocks and two messages meet every order of the three
sources of system text. A stream of five lines has two events with usage and one
without, and ends with or without a blank line. `MaxRestarts`, `MaxClock`,
`MaxFailures`, `MaxCapacityRetries`, `MaxIssued` and the number of `Ids` bound
counters that have no bound in the program.

### Fairness

`Forward!FairSpec` asks weak fairness of each goroutine for its own steps
(`Runs`): instructions, timers, the 60-second timeout of ticket calls, and the
return of a call whose context is cancelled. It asks nothing of the relay, which
may stay silent for ever: `http.Client` has no deadline on model requests.
`GoneClientsDrain` rests on this only. `Billing!FairSpec` asks weak fairness for
flushes, the loop with its ticker, and `Close` once the loop has returned; no
request, signal or crash is ever due. `Logins!FairSpec` asks it of the clock
(`Expire`) and of the sweeper's ticker, and nothing of browsers, so `PortsFreed`
is owed to the sweeper alone. Every other run is safety only.

## 4. What is proved

| theorem | statement | in |
|---|---|---|
| `TypeCorrect` | `Spec => []TypeOK` | ForwardProofs |
| `AccountingHolds` | `Spec => []SlotAccounting` | ForwardProofs |
| `BoundHolds` | `Spec => []InflightBounded` | ForwardProofs |
| `SlotsImplemented` | `Spec => ImplementsSlots` | ForwardProofs |
| `StatusIsTrueHolds` | `Spec => []StatusIsTrue` | ForwardProofs |
| `TwoRefusalsHold` | `Spec => []TwoRefusalsAtMost` | ForwardProofs |
| `NoSecondTryHolds` | `Spec => NoSecondTry` | ForwardProofs |
| `CoolingIsEarnedHolds` | `Spec => CoolingIsEarned` | ForwardProofs |
| `TokensHold` | `Spec => []TokensAreHolders` | KeyLimitsProofs |
| `ConcurrencyHolds` | `Spec => []GatewayConcurrency` | KeyLimitsProofs |
| `TypeOKHolds` | `Spec => []TypeOK` | KeyLimitsProofs |
| `RateHolds` | `Spec => RateIsExact` | KeyLimitsProofs |
| `TypeOKHolds` | `Spec => []TypeOK` | PoolProofs |
| `ListMatchesMapHolds` | `Spec => []ListMatchesMap` | PoolProofs |
| `ListByExpiryHolds` | `Spec => []ListByExpiry` | PoolProofs |
| `PickedIsUsableHolds` | `Spec => []PickedIsUsable` | PoolProofs |
| `SessionsStayHolds` | `Spec => SessionsStay` | PoolProofs |
| `FailuresOnlyLengthenHolds` | `Spec => FailuresOnlyLengthen`, if `MaxFailures <= 55` | PoolProofs |
| `BillingTypeCorrect` | `Spec => []TypeOK` | BillingProofs |
| `BilledOnceHolds` | `Spec => []BilledOnce` | BillingProofs |
| `LedgerImplemented` | `Spec => ImplementsLedger` | BillingProofs |
| `NothingLostHolds` | `Spec => []NothingLostByStop` | BillingProofs |
| `BufferBoundedHolds` | `Spec => []BufferBounded` | BillingProofs |
| `AccountsTypeCorrect` | `Spec => []TypeOK` | AccountsProofs |
| `DeletedStaysDeletedHolds` | `Spec => DeletedStaysDeleted` | AccountsProofs |
| `PoolFollowsTableHolds` | `Spec => []PoolFollowsTable` | AccountsProofs |
| `ClientsKeptHolds` | `Spec => ClientsKept` | AccountsProofs |
| `OneAccountEachHolds` | `Spec => []OneAccountEach` | AccountsProofs |
| `TokensStayHomeHolds` | `Spec => []TokensStayHome` | AccountsProofs |
| `TokenWrittenBackHolds` | `Spec => []TokenWrittenBack` | AccountsProofs |
| `LoginsTypeCorrect` | `Spec => []TypeOK` | LoginsProofs |
| `ListenersOwnedHolds` | `Spec => []ListenersOwned` | LoginsProofs |
| `DoneIsTrueHolds` | `Spec => []DoneIsTrue` | LoginsProofs |
| `AnswersOnlyAdvanceHolds` | `Spec => AnswersOnlyAdvance` | LoginsProofs |
| `TurnKeepsKey` | a turn more leaves `affinityKey` as it was | GatewayProofs |
| `ConversationSticksHolds` | `Spec => []ConversationSticks` | GatewayProofs |
| `RequestAcceptable` | any request to `/v1/messages`, of any length, is `Acceptable` | GatewayProofs |
| `RelayAcceptsHolds` | `Spec => []RelayAccepts` | GatewayProofs |
| `StreamKept` | `teeStream` keeps all that is reported of any stream | UsageProofs |
| `ParsedCounted` | the parsers count any sequence of blocks as reported | UsageProofs |
| `StreamCounted` | any stream, of any length, is counted as it reported | UsageProofs |
| `DocumentCounted` | so is any answer that is not streamed | UsageProofs |
| `StreamsCountedHolds` | `Spec => []StreamsCounted` | GatewayProofs |

They hold for any finite set of requests, any accounts and limits that satisfy
the `ASSUME`s of the modules, which say no more than that sets are finite, limits
positive where the configuration makes them so (for the system text, with room
for the fingerprint), and names distinct. The two `ASSUME`s of `Backoff` are facts
about numbers that TLC computes on the pool runs.

**Forward.** `InflightBounded` is not inductive: between the load and the
compare-and-swap a request relies on a value it read earlier. The invariant adds
that such a request read a value below the limit, and that a request has an
account exactly where the code has one; `SlotAccounting` then turns the counter
into the number of holders. A successful compare-and-swap maps to `Take` because
the counter is still the value that was below the limit; `Release` maps to
`Give`; all other steps stutter.

**Tries.** The other properties of Forward speak of what one request made of its
accounts, so their invariant is a statement about each request alone, and a step
of another request keeps it (`OthersSame`). It says that an account the request
is done with is excluded, or in hand while the try ends, and that the one in hand
was not excluded before (`Excluded`); that `retried401` and `sawTransportErr`
remember what happened to the excluded ones (`Flags`); and what the log names and
which results a try may end with (`InTry`). Of a request that has returned only
what the properties need is kept, as its locals are gone. `CoolingIsEarned` adds
that the account in hand is being tried from `Acquire` to the result.

**Key limits.** A token is taken from the channel it was sent into, which may not
be the key's any more. The invariant counts tokens on every channel made, says
that one not yet made has no tokens and no holders, and, while the limit is not
patched, that a handler has one channel of the limit's size (`OneChannel`):
`GatewayConcurrency` is the capacity of that channel.

The rate limiter's invariant (`WindowInv`) says that a window keeps hits of its
own handler's answered requests (`HitsOfAnswered`), and that a hit that is gone
was outside the window of some request answered before (`GoneIsOld`): a request
with the latest time then finds every hit that is inside its own. The proof
corrected the property. `Latest` used to ask this of the requests that were let
in only; but one that is refused trims the window too. With four requests and
limits of 1 and 2, a refused request that read the smaller limit and came with a
later time drops a hit that a slower one, with the larger limit, should count.

**Pool.** What `Pick` returns needs no invariant: each way out looks at the account
again. `SessionsStay` needs that the map holds bindings whatever is evicted. The
map and the list are one structure (`SessionsOK`): the list names every key of the
map once and no other, in the order of expiry, and is no longer than
`MaxSticky`. Each operation is a lemma about that structure alone
(`RemovedTable`, `BoundTable`, `EvictedTable`), built on what taking an element
out of a sequence does to its places (`RemoveAtProperties`). `TypeOK` adds that no
account cools for longer than the cap (`CoolsWithin`).

`FailuresOnlyLengthen` is an inequality between shifts: each of the first 55
failures doubles the backoff until the cap, and beyond the cap it stays there
(`DoublingsGrow`, `BackoffTicks`). The hypothesis `MaxFailures <= 55` is where the
code's promise ends: at the 56th the shift overflows (finding 3), so without it
the theorem is false. `TypeOK` holds beyond it too (`BackoffBeyond55`).

**Billing.** `BilledOnce` alone says nothing of logs on their way. The invariant
says where a log may be: in the buffer, in one batch or between its two writes,
never in two of these (`OnePlace`), only once it was recorded (`Located`), and
with nothing, or the row without the total, written so far (`Written`,
`Together`). The step-by-step mapping to `Ledger` follows from it.
`NothingLostByStop` needs a second invariant on top: every recorded log that
nobody carries is settled or excused (`Accounted`), and once `Close` has begun,
what requests and the loop still carry is excused or waited for (`Order`).
`BufferBounded` is inductive with the types: the request that fills the buffer
becomes one of those on their way, and they leave only by emptying it.

**Accounts.** Types rest on names: an account always finds a fresh one for a new
Client, because one more exists than callers that could hold an old one
(`FreshType`, by the pigeonhole principle). `PoolFollowsTable` and `ClientsKept`
rest on `CleanInv`, which follows a request that runs alone: no other is under
way, so what it has listed is still the table when it applies it, and so is the
pool once it is done. `OneAccountEach` needs that no two requests add an identity that is not
`doubled`, and that one about to insert found no row (`SingleInv`).
`TokensStayHome` is proved with a function from IDs to identities that extends
when a row is inserted (`Home`): a token may be in a row, a Client, a list, a
request or a call, and everywhere it is of its ID's identity.

**Rotation.** `TokenWrittenBack` rests on four facts about an account that is not
`crossed`: one refresh at most is under way (`Lone`), with the Client the pool
has (`SameClient`), it reports what it stored (`Carries`), and the table has the
Client's token unless it is still to report (`Written`).

**Logins.** `DoneIsTrue` says nothing of a login under way. The invariant adds
what each goroutine carries (`Carried`): an address after the callback, an
account for its flow's provider after `TakeProvider` unless the flow has gone, and
after `AddAccount` one that is in the table; and that a flow keeps its provider.
A flow that has gone cannot come back, as IDs are new, so an account stored as
"manual" for want of a flow is never reported. `AnswersOnlyAdvance` follows step
by step from `Advances`.

**Affinity.** `affinityKey` hashes the system as it is sent, the first message and
the input. What is sent is given part by part (`SentByParts`): its system depends
on the messages only through the blocks hoisted from them, and a turn that is not
a system message hoists none (`HoistedStays`). The messages left begin as before:
positions are ranked, ranks are distinct and leave no gap (`RankDiffers`,
`RankOnto`), so a position added at the end is never the first (`FirstStays`).
`TurnKeepsKey` says so of any request to `/v1/messages`, `ConversationSticksHolds`
of those the runs consider. It supposes that the conversation has begun, as
without a message of its own a request has no first message to keep.

**Streams.** The parsers and `teeStream` are folds, and what a fold computes for
every sequence is an induction over data. The library's induction theorems take
an operator, which the provers cannot instantiate; so induction is stated on a
*set* of sequences: one that has the empty sequence, and with a sequence each that
is one longer, has them all (`EverySequence`). It rests on every set of numbers
that is not empty having a least one (`LeastNumber`), which is the library's
well-founded order of the numbers. A fold of the community modules is a recursive
function under a `CHOOSE`: `FoldFollows` proves that such a function exists, and
`FoldLonger` that the fold of a sequence with one item more is a step from the
fold of the sequence. Everything else follows from these two.

The invariant of reading a stream is `Kept`: the events kept so far report exactly
what was read but for the event not ended yet, each of them ended by its blank
line. The blocks that the parser finds in them by splitting at blank lines are
then the events again (`BlocksKept`), each with one data line at most, and
`ParsedCounted` says that the largest counts of the blocks are what is counted.
`StreamCounted` puts these together for streams of any length over any counts; the
runs' streams have five lines and two sorts of usage.

**Requests.** `RequestAcceptable` is proved of any system and messages whose texts
are sequences of whole characters (`WholeTexts`), of which those that the runs
consider are some. Hoisting: the messages of role system are those at their
positions, and blocks put one after the other at these positions are what a walk
over all messages collects (`HoistedRules`, `InOrderHoisted`, `AtWithLast`). The
limit and whole characters: each step of truncation leaves room for what it adds
and cuts before the first byte of a character (`TruncateRules`). The fingerprint:
what stands before it is kept as it was as long as it ends within the limit
(`TruncateKeepsPrint`, `WithinLimitRules`); what is injected is at the head, and
the assumption on `SystemLimit` leaves room for it.

This proof corrected the property. `FingerprintInTime`, which excuses a client
that puts its own fingerprint behind the limit, used to measure what stands before
it as `systemLen` does. But `systemLen` leaves out a bare string in the array of
system blocks, which truncation, coming after `contentBlocks`, does count: such a
string before the fingerprint can push it over the limit though it was measured
to be within. TLC had not seen it, as it takes a text that is over the limit and has
the fingerprint neither at its head nor at its end; one has been added.

### Only model-checked

- Liveness (`GoneClientsDrain`, `EventuallySettled`, `PortsFreed`): properties
  under fairness are out of the prover's reach. Every other property of a passing
  run is a theorem.
- That the four findings are ones: each is a trace of its run.

## 5. Findings

1. **A client that leaves cools accounts** (`forward_gone`). `forward.go:162` says
   that once the client is gone there is no retry. That holds for the call to the
   relay, but not for the ticket before it: lines 153-158 take the cancelled
   context for a failure of the account, cool it for at least 15 s and go on to
   the next, which may meet the same.
2. **A key's concurrency counts per handler** (`key_limits_twice`). `DESIGN.md:39`
   documents a limit per key; `server.go` mounts two handlers with separate slots
   and rates, so `/v1/messages` and `/messages` together get twice the limit.
3. **The backoff shifts itself away** (`pool_overflow`). `15s << (n-1)` is 0 from the
   56th failure in a row, below `maxBackoff` and not negative: an account that has
   been failing for about nine hours is no longer cooled at all, against the
   comment at `pool.go:361`.
4. **A new login does not reach the pool** (`accounts_relogin`). `accounts.go:202`
   says that `addAccount` brings the token into the pool; for an identity already
   there `Reload` keeps the old `Client` with the old refresh token until the next
   restart, and a rotation of the old token overwrites the new one in the table.

Two more races have no promise in the repository that a run could refute as a
whole, and appear as the conditions of properties instead: refreshes of one
client that overlap may leave an older token in the table (`crossed` in
`TokenWrittenBack`), and administrator's requests that overlap may apply an older
list last or add an identity twice (`clean` and `doubled` in `PoolFollowsTable`
and `OneAccountEach`).

## 6. Not modelled, and why

- Cryptography, encodings, HTML and logs: no state, and nothing about order.
- `TouchAPIKeyUsed`: a goroutine that sets a time nobody depends on.
- Costs and weights: real numbers, read by no control decision other than "quota
  left", which is a flag. The price table is cached for 30 s (`billing.go:115`)
  although `runtimecfg.go:1` says that settings count at once.
- The limits loop and its snapshots: fitness changes at any moment in Forward and
  Pool, which includes every order in which snapshots may be stored, so their
  properties hold whatever the loop does. How old a snapshot may get is promised
  nowhere. Composed with Pool or Forward, the ages of the snapshots and the place of
  the loop would multiply state spaces that are large already.
- `extractRefreshToken` character by character. Reading it showed that a link
  `url.Parse` refuses leaves a nil `*url.URL` on which line 306 calls `Query`: the
  handler panics, and the administrator sees a dropped connection instead of the
  message of line 317.
- The success page of a callback: `finish` closes the server, and with it the
  connection the page is to be written to.
- JSON, headers, `/v1/models`, `/health`, the list of providers and the sending of
  an e-mail code: reads and calls that change no state.
- Desktop shell, autostart, web UI and packaging: operating-system integration
  and a client of the admin API.

The properties of Normalize and Usage excuse two inputs, each named in its
definition: a fingerprint that the client itself puts behind the limit, which the
comment at `normalize.go:189` takes to be at the head, is cut off
(`FingerprintInTime`); and of a CRLF stream whose usage stands in more than one
event nothing is counted, as `sseDataPayloads` splits at two line feeds only
(`OneMention`).

## 7. The plan

Done: the core (Forward, KeyLimits, Pool, Billing, Accounts), then Logins,
Normalize, Usage and their composition, and a proof of every safety property and
every action property (section 4). What could follow:

1. The limits loop with the age of its snapshots, once the code or a document
   promises how old one may get.
2. An order of the prices a log is counted with, once one is promised for the
   cache of 30 s.
3. Accounts and Logins as one system, if a step of one comes to depend on the
   other beyond the table.
