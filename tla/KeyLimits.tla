------------------------------ MODULE KeyLimits ------------------------------
(***************************************************************************)
(* The limits of one API key (internal/gateway/auth.go): authenticate      *)
(* reads the key's row, acquireKeyLimits takes a concurrency slot in the   *)
(* gateway's keySlotter and passes its rateLimiter, and the deferred       *)
(* release of handleModel gives the slot back.  The administrator patches  *)
(* the row meanwhile.  internal/server/server.go mounts two gateway        *)
(* handlers over the same store, each with slots and hits of its own.      *)
(*                                                                         *)
(* Keys share nothing but mutexes, so one key stands for all.  The         *)
(* enabled, expiry and allowlist checks of authenticate are one flag.      *)
(***************************************************************************)
EXTENDS Naturals, FiniteSets

CONSTANTS Requests,             \* requests presenting the key
          Gateways,             \* gateway handlers mounted by server.Run
          Concurrencies,        \* values of the column concurrency, 0 = default
          DefaultConcurrency,   \* defaultKeyConcurrency
          Rpms,                 \* values of the column rate_limit_rpm, 0 = none
          RateWindow,           \* rateWindow, in ticks
          MaxClock,             \* bound on the ticks of a run
          NoChan                \* no channel yet

ASSUME RequestsAssumption == IsFiniteSet(Requests)
ASSUME ConcurrencyAssumption ==
  /\ Concurrencies \subseteq Nat
  /\ DefaultConcurrency \in Nat \ {0}
ASSUME RateAssumption ==
  /\ Rpms \subseteq Nat
  /\ RateWindow \in Nat \ {0}
  /\ MaxClock \in Nat
ASSUME NoChanAssumption == NoChan \notin Requests

VARIABLES
  row,        \* the row of api_keys: accepted, concurrency, rpm
  clock,
  \* Per gateway handler.
  current,    \* keySlotter.chans[keyID]
  hits,       \* rateLimiter.hits[keyID]: the requests whose time now is in it
  \* Channels, each named after the request whose chanFor made it.
  capacity,   \* cap(ch)
  used,       \* len(ch)
  \* Per request.
  pc, gateway,
  key,        \* the row as authenticate read it
  chan,       \* the channel its acquire works on
  now,        \* the time.Now() it hands to allow
  \* History, read by the properties only.
  patched,    \* the concurrency was changed
  admitted    \* per gateway, the requests whose hit was ever recorded

rowVars  == <<row, patched>>
chanVars == <<current, capacity, used>>
rateVars == <<hits, admitted>>
vars == <<row, patched, clock, current, capacity, used, hits, admitted, pc,
          gateway, key, chan, now>>

Steps == {"idle", "auth", "chanFor", "wait", "now", "allow", "forward", "done"}

\* The steps at which a request has a slot.
Holding == {"now", "allow", "forward"}

Rows == [accepted : BOOLEAN, concurrency : Concurrencies, rpm : Rpms]
Channels == Requests \cup {NoChan}

TypeOK ==
  /\ row \in Rows
  /\ patched \in BOOLEAN
  /\ clock \in 0..MaxClock
  /\ current \in [Gateways -> Channels]
  /\ capacity \in [Requests -> Nat]
  /\ used \in [Requests -> Nat]
  /\ hits \in [Gateways -> SUBSET Requests]
  /\ admitted \in [Gateways -> SUBSET Requests]
  /\ pc \in [Requests -> Steps]
  /\ gateway \in [Requests -> Gateways]
  /\ key \in [Requests -> Rows]
  /\ chan \in [Requests -> Channels]
  /\ now \in [Requests -> 0..MaxClock]

Init ==
  /\ row \in [accepted : {TRUE}, concurrency : Concurrencies, rpm : Rpms]
  /\ patched = FALSE
  /\ clock = 0
  /\ current = [g \in Gateways |-> NoChan]
  /\ capacity = [c \in Requests |-> 0]
  /\ used = [c \in Requests |-> 0]
  /\ hits = [g \in Gateways |-> {}]
  /\ admitted = [g \in Gateways |-> {}]
  /\ pc = [r \in Requests |-> "idle"]
  /\ gateway \in [Requests -> Gateways]
  /\ key = [r \in Requests |-> row]
  /\ chan = [r \in Requests |-> NoChan]
  /\ now = [r \in Requests |-> 0]

Goto(r, step) == pc' = [pc EXCEPT ![r] = step]

-----------------------------------------------------------------------------

Arrive(r) ==
  /\ pc[r] = "idle"
  /\ Goto(r, "auth")
  /\ UNCHANGED <<rowVars, clock, chanVars, rateVars, gateway, key, chan, now>>

\* authenticate: the row is read once and used, as it was, to the end.
Authenticate(r) ==
  /\ pc[r] = "auth"
  /\ key' = [key EXCEPT ![r] = row]
  /\ Goto(r, IF row.accepted THEN "chanFor" ELSE "done")
  /\ UNCHANGED <<rowVars, clock, chanVars, rateVars, gateway, chan, now>>

\* acquireKeyLimits: an unset concurrency means the default.
Limit(k) == IF k.concurrency = 0 THEN DefaultConcurrency ELSE k.concurrency

\* Variant with a bug: every request makes a new channel.
FreshChannelAlways(g, n) == FALSE
Fits(g, n) == current[g] # NoChan /\ capacity[current[g]] = n

\* keySlotter.chanFor: the gateway's channel if it has the wanted capacity,
\* else a new one, which takes its place.
ChanFor(r) ==
  /\ pc[r] = "chanFor"
  /\ LET g == gateway[r]
         n == Limit(key[r]) IN
       IF Fits(g, n)
       THEN /\ chan' = [chan EXCEPT ![r] = current[g]]
            /\ UNCHANGED chanVars
       ELSE /\ chan' = [chan EXCEPT ![r] = r]
            /\ current' = [current EXCEPT ![g] = r]
            /\ capacity' = [capacity EXCEPT ![r] = n]
            /\ UNCHANGED used
  /\ Goto(r, "wait")
  /\ UNCHANGED <<rowVars, clock, rateVars, gateway, key, now>>

\* keySlotter.acquire sends into the channel while it has room.
TakeSlot(r) ==
  /\ pc[r] = "wait"
  /\ used[chan[r]] < capacity[chan[r]]
  /\ used' = [used EXCEPT ![chan[r]] = @ + 1]
  /\ Goto(r, IF key[r].rpm > 0 THEN "now" ELSE "forward")
  /\ UNCHANGED <<rowVars, clock, current, capacity, rateVars, gateway, key,
                 chan, now>>

\* The timer fires (429) or the client's context ends first.
GiveUp(r) ==
  /\ pc[r] = "wait"
  /\ Goto(r, "done")
  /\ UNCHANGED <<rowVars, clock, chanVars, rateVars, gateway, key, chan, now>>

\* The argument time.Now() of allow is taken before its lock.
ReadClock(r) ==
  /\ pc[r] = "now"
  /\ now' = [now EXCEPT ![r] = clock]
  /\ Goto(r, "allow")
  /\ UNCHANGED <<rowVars, clock, chanVars, rateVars, gateway, key, chan>>

\* Variant with a bug: a hit of exactly a minute ago still counts.
CutoffIncluded(t, h) == h + RateWindow >= t
InWindow(t, h) == h + RateWindow > t

\* The order of the hits shows in the Retry-After header only.
Kept(r) == {q \in hits[gateway[r]] : InWindow(now[r], now[q])}

\* Variant with a bug: the slot is taken from the newest channel.
ReceiveFromCurrent(r) == used' = [used EXCEPT ![current[gateway[r]]] = @ - 1]
\* Variant with a bug: a 429 for the rate keeps the slot.
NoReceiveOnRefusal(r) ==
  used' = IF pc[r] = "allow" THEN used ELSE [used EXCEPT ![chan[r]] = @ - 1]

\* The release function receives from the channel its acquire sent into; it
\* would block on an empty one.
Receive(r) ==
  /\ used[chan[r]] > 0
  /\ used' = [used EXCEPT ![chan[r]] = @ - 1]

Allow(r) ==
  /\ pc[r] = "allow"
  /\ Cardinality(Kept(r)) < key[r].rpm
  /\ hits' = [hits EXCEPT ![gateway[r]] = Kept(r) \cup {r}]
  /\ admitted' = [admitted EXCEPT ![gateway[r]] = @ \cup {r}]
  /\ Goto(r, "forward")
  /\ UNCHANGED <<rowVars, clock, chanVars, gateway, key, chan, now>>

\* Over the rate: the slot goes back and the client gets 429.
Refuse(r) ==
  /\ pc[r] = "allow"
  /\ Cardinality(Kept(r)) >= key[r].rpm
  /\ hits' = [hits EXCEPT ![gateway[r]] = Kept(r)]
  /\ Receive(r)
  /\ Goto(r, "done")
  /\ UNCHANGED <<rowVars, clock, current, capacity, admitted, gateway, key,
                 chan, now>>

\* forward returns (module Forward) and the deferred release runs.
Finish(r) ==
  /\ pc[r] = "forward"
  /\ Receive(r)
  /\ Goto(r, "done")
  /\ UNCHANGED <<rowVars, clock, current, capacity, rateVars, gateway, key,
                 chan, now>>

-----------------------------------------------------------------------------

\* Each column is an UPDATE of its own in UpdateAPIKey, and may be the last
\* one that succeeds; deleting the key also ends its acceptance.
Patch ==
  /\ \/ \E b \in BOOLEAN : row' = [row EXCEPT !.accepted = b]
     \/ \E n \in Concurrencies : row' = [row EXCEPT !.concurrency = n]
     \/ \E n \in Rpms : row' = [row EXCEPT !.rpm = n]
  /\ patched' = (patched \/ row'.concurrency # row.concurrency)
  /\ UNCHANGED <<clock, chanVars, rateVars, pc, gateway, key, chan, now>>

Tick ==
  /\ clock < MaxClock
  /\ clock' = clock + 1
  /\ UNCHANGED <<rowVars, chanVars, rateVars, pc, gateway, key, chan, now>>

Step(r) == \/ Arrive(r) \/ Authenticate(r) \/ ChanFor(r) \/ TakeSlot(r)
           \/ GiveUp(r) \/ ReadClock(r) \/ Allow(r) \/ Refuse(r) \/ Finish(r)

Next == (\E r \in Requests : Step(r)) \/ Patch \/ Tick

Spec == Init /\ [][Next]_vars

-----------------------------------------------------------------------------
(* Properties.                                                             *)

SlotHolders(c) == {r \in Requests : pc[r] \in Holding /\ chan[r] = c}

\* However the limit was changed meanwhile, a channel holds one token per
\* request that sent into it, so no release blocks and no slot is lost.
TokensAreHolders ==
  \A c \in Requests : used[c] = Cardinality(SlotHolders(c))

HoldersAt(g) == {r \in Requests : pc[r] \in Holding /\ gateway[r] = g}

\* While the key's concurrency is left alone, one gateway handler forwards no
\* more of its requests at once than it says.
GatewayConcurrency ==
  ~patched => \A g \in Gateways : Cardinality(HoldersAt(g)) <= Limit(row)

InWindowBefore(r) ==
  {q \in admitted[gateway[r]] : now[q] + RateWindow > now[r]}

\* No request that came before r to the limiter brought a later time.  (One
\* that never got there has the time 0.)
Latest(r) ==
  \A q \in Requests :
    gateway[q] = gateway[r] /\ pc[q] \in {"forward", "done"} => now[q] <= now[r]

\* The sliding window forgets nothing it needs, though every caller trims it
\* with a time of its own and limits change: a request later than all before
\* it is admitted when fewer than rpm were in the minute before, and no
\* request is refused unless that many were.
RateIsExact ==
  [][\A r \in Requests :
       /\ pc[r] = "allow" /\ pc'[r] = "forward" /\ Latest(r) =>
            Cardinality(InWindowBefore(r)) < key[r].rpm
       /\ pc[r] = "allow" /\ pc'[r] = "done" =>
            Cardinality(InWindowBefore(r)) >= key[r].rpm]_vars

\* DESIGN.md:39 and :59: the concurrency of a key bounds its requests in
\* flight, whichever handler they came through.
KeyConcurrency ==
  ~patched => Cardinality({r \in Requests : pc[r] \in Holding}) <= Limit(row)

=============================================================================
