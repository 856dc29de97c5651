--------------------------- MODULE KeyLimitsProofs ---------------------------
(***************************************************************************)
(* Theorems about KeyLimits for any finite set of requests, any gateway    *)
(* handlers and any limits the administrator may set meanwhile: a channel  *)
(* holds one token per request that sent into it, a limit that is left     *)
(* alone is kept, and the sliding window counts what it should.            *)
(***************************************************************************)
EXTENDS KeyLimits, FiniteSetTheorems, TLAPS

\* TypeOK, but for the sliding windows.
Types ==
  /\ row \in Rows
  /\ patched \in BOOLEAN
  /\ current \in [Gateways -> Channels]
  /\ capacity \in [Requests -> Nat]
  /\ used \in [Requests -> Nat]
  /\ pc \in [Requests -> Steps]
  /\ gateway \in [Requests -> Gateways]
  /\ key \in [Requests -> Rows]
  /\ chan \in [Requests -> Channels]

\* The steps at which a request works on a channel.
OnChannel == Holding \cup {"wait"}

\* A request has a channel where the code has one.
Placed == \A r \in Requests : pc[r] \in OnChannel => chan[r] \in Requests

\* The channel that a request will make is known to nobody before.
Unmade == \A r \in Requests : pc[r] \in {"idle", "auth", "chanFor"} =>
  /\ \A q \in Requests : chan[q] # r
  /\ \A g \in Gateways : current[g] # r

WithinCapacity == \A c \in Requests : used[c] <= capacity[c]

\* While the limit is left alone every request has read the same one, so no
\* gateway replaces its channel.
OneChannel == ~patched =>
  /\ \A r \in Requests : key[r].concurrency = row.concurrency
  /\ \A g \in Gateways : current[g] # NoChan => capacity[current[g]] = Limit(row)
  /\ \A r \in Requests : pc[r] \in OnChannel => chan[r] = current[gateway[r]]

Inv == /\ Types /\ Placed /\ Unmade
       /\ TokensAreHolders /\ WithinCapacity /\ OneChannel

-----------------------------------------------------------------------------
(* Counting.                                                               *)

\* Holders can be counted.
LEMMA HoldersFinite ==
  ASSUME NEW c
  PROVE  IsFiniteSet(SlotHolders(c)) /\ Cardinality(SlotHolders(c)) \in Nat
BY RequestsAssumption, FS_Subset, FS_CardinalityType DEF SlotHolders

\* A request that holds a slot of a channel keeps its counter positive.
LEMMA TokenThere ==
  ASSUME Inv, NEW r \in Requests, pc[r] \in Holding
  PROVE  chan[r] \in Requests /\ used[chan[r]] \in Nat \ {0}
<1>1. chan[r] \in Requests /\ r \in SlotHolders(chan[r])
  BY DEF Inv, Placed, OnChannel, SlotHolders
<1>2. Cardinality(SlotHolders(chan[r])) # 0
  BY <1>1, HoldersFinite, FS_EmptySet
<1> QED
  BY <1>1, <1>2 DEF Inv, TokensAreHolders, Types

\* The value of a limit is a number.
LEMMA LimitType ==
  ASSUME NEW k \in Rows
  PROVE  Limit(k) \in Nat
BY ConcurrencyAssumption DEF Limit, Rows

-----------------------------------------------------------------------------
(* Steps that leave the slots alone.                                       *)

\* No request starts or stops to hold a slot, and no channel is touched.
LEMMA StillTokens ==
  ASSUME Inv, UNCHANGED <<used, capacity>>,
         \A r \in Requests : /\ pc'[r] \in Holding <=> pc[r] \in Holding
                             /\ pc[r] \in Holding => chan'[r] = chan[r]
  PROVE  TokensAreHolders' /\ WithinCapacity'
<1>1. \A c \in Requests : SlotHolders(c)' = SlotHolders(c)
  BY DEF SlotHolders
<1> QED
  BY <1>1 DEF Inv, TokensAreHolders, WithinCapacity

\* Steps of a request that neither makes a channel nor moves a token.
LEMMA PlainSteps ==
  ASSUME Inv, NEW r \in Requests,
         Arrive(r) \/ Authenticate(r) \/ GiveUp(r) \/ ReadClock(r) \/ Allow(r)
  PROVE  Inv'
<1> USE DEF Inv, Goto, rowVars, chanVars, rateVars
<1>1. Types'
  BY DEF Types, Steps, Arrive, Authenticate, GiveUp, ReadClock, Allow
<1>2. /\ UNCHANGED <<used, capacity, current, chan, gateway, row, patched>>
      /\ \A q \in Requests : pc'[q] \in Holding <=> pc[q] \in Holding
  BY DEF Types, Holding, Arrive, Authenticate, GiveUp, ReadClock, Allow
<1>3. TokensAreHolders' /\ WithinCapacity'
  BY <1>2, StillTokens
<1>4. \A q \in Requests : pc'[q] \in OnChannel => pc[q] \in OnChannel \/ q = r
  BY DEF Types, Arrive, Authenticate, GiveUp, ReadClock, Allow
<1>5. pc'[r] \in OnChannel => pc[r] \in OnChannel
  BY DEF Types, OnChannel, Holding, Arrive, Authenticate, GiveUp, ReadClock, Allow
<1>6. Placed'
  BY <1>2, <1>4, <1>5 DEF Placed
<1>7. \A q \in Requests : pc'[q] \in {"idle", "auth", "chanFor"}
                            => pc[q] \in {"idle", "auth", "chanFor"}
  BY DEF Types, Arrive, Authenticate, GiveUp, ReadClock, Allow
<1>8. Unmade'
  BY <1>2, <1>7 DEF Unmade
<1>9. \A q \in Requests : key'[q] = key[q] \/ key'[q] = row
  BY DEF Types, Arrive, Authenticate, GiveUp, ReadClock, Allow
<1>10. OneChannel'
  BY <1>2, <1>4, <1>5, <1>9 DEF OneChannel, Limit
<1> QED
  BY <1>1, <1>3, <1>6, <1>8, <1>10

\* The administrator and the clock.
LEMMA OutsideSteps ==
  ASSUME Inv, Patch \/ Tick \/ UNCHANGED vars
  PROVE  Inv'
<1> USE DEF Inv, rowVars, chanVars, rateVars
<1>1. /\ UNCHANGED <<current, capacity, used, pc, gateway, key, chan>>
      /\ row' \in Rows /\ patched' \in BOOLEAN
      /\ ~patched' => ~patched /\ row'.concurrency = row.concurrency
  BY DEF Types, Rows, Patch, Tick, vars
<1>2. Types' /\ Placed' /\ Unmade'
  BY <1>1 DEF Types, Placed, Unmade
<1>3. TokensAreHolders' /\ WithinCapacity'
  BY <1>1, StillTokens
<1>4. OneChannel'
  BY <1>1 DEF OneChannel, Limit
<1> QED
  BY <1>2, <1>3, <1>4

-----------------------------------------------------------------------------
(* The steps that make a channel or move a token.                          *)

\* chanFor makes a channel under a name that no other has, or finds one of the limit's size.
LEMMA ChanForStep ==
  ASSUME Inv, NEW r \in Requests, ChanFor(r)
  PROVE  Inv'
<1> USE DEF Inv, Goto, rowVars, chanVars, rateVars
<1> DEFINE g == gateway[r]
           n == Limit(key[r])
<1>1. /\ pc[r] = "chanFor" /\ pc' = [pc EXCEPT ![r] = "wait"]
      /\ UNCHANGED <<row, patched, used, gateway, key>>
      /\ g \in Gateways /\ n \in Nat
  BY LimitType DEF ChanFor, Types
<1>2. \A q \in Requests : chan[q] # r
  BY <1>1 DEF Unmade
<1>3. \A h \in Gateways : current[h] # r
  BY <1>1 DEF Unmade
<1>4. used[r] = 0
  <2>1. SlotHolders(r) = {}
    BY <1>2 DEF SlotHolders
  <2> QED
    BY <2>1, FS_EmptySet DEF TokensAreHolders
<1>5. \A q \in Requests : q # r => pc'[q] = pc[q] /\ chan'[q] = chan[q]
  BY <1>1 DEF ChanFor, Types
<1>6. pc'[r] = "wait"
  BY <1>1 DEF Types
<1>7. TokensAreHolders'
  <2>1. \A c \in Requests : SlotHolders(c)' = SlotHolders(c)
    BY <1>1, <1>5, <1>6 DEF SlotHolders, Holding
  <2> QED
    BY <1>1, <2>1 DEF TokensAreHolders
<1>8. CASE Fits(g, n)
  <2>1. /\ UNCHANGED <<current, capacity>>
        /\ chan' = [chan EXCEPT ![r] = current[g]]
        /\ current[g] \in Requests /\ capacity[current[g]] = n
    BY <1>1, <1>8 DEF ChanFor, Fits, Types, Channels
  <2>2. chan'[r] = current[g]
    BY <2>1 DEF Types
  <2>3. Types'
    BY <1>1, <2>1 DEF Types, Steps, Channels
  <2>4. Placed'
    BY <1>5, <2>1, <2>2 DEF Placed
  <2>5. Unmade'
    BY <1>1, <1>3, <1>5, <1>6, <2>1, <2>2 DEF Unmade
  <2>6. WithinCapacity'
    BY <1>1, <2>1 DEF WithinCapacity
  <2>7. OneChannel'
    BY <1>1, <1>5, <2>1, <2>2 DEF OneChannel, Limit
  <2> QED
    BY <1>7, <2>3, <2>4, <2>5, <2>6, <2>7
<1>9. CASE ~Fits(g, n)
  <2>1. /\ chan' = [chan EXCEPT ![r] = r]
        /\ current' = [current EXCEPT ![g] = r]
        /\ capacity' = [capacity EXCEPT ![r] = n]
    BY <1>9 DEF ChanFor
  <2>2. /\ chan'[r] = r /\ capacity'[r] = n /\ current'[g] = r
        /\ \A c \in Requests : c # r => capacity'[c] = capacity[c]
        /\ \A h \in Gateways : h # g => current'[h] = current[h]
    BY <1>1, <2>1 DEF Types
  <2>3. Types'
    BY <1>1, <2>1 DEF Types, Steps, Channels
  <2>4. Placed'
    BY <1>5, <2>2 DEF Placed
  <2>5. Unmade'
    BY <1>5, <1>6, <2>2 DEF Unmade
  <2>6. WithinCapacity'
    BY <1>1, <1>4, <2>2 DEF WithinCapacity
  <2>7. ASSUME ~patched' PROVE OneChannel'
    <3>1. n = Limit(row) /\ current[g] = NoChan
      BY <1>1, <1>9, <2>7 DEF OneChannel, Fits, Limit
    <3>2. \A q \in Requests : pc[q] \in OnChannel => gateway[q] # g
      BY <1>1, <2>7, <3>1, NoChanAssumption DEF OneChannel, Placed
    <3>3. \A h \in Gateways : current'[h] # NoChan => capacity'[current'[h]] = Limit(row)
      <4> SUFFICES ASSUME NEW h \in Gateways, current'[h] # NoChan
                   PROVE  capacity'[current'[h]] = Limit(row)
        OBVIOUS
      <4>1. CASE h = g
        BY <2>2, <3>1, <4>1
      <4>2. CASE h # g
        <5>1. current'[h] = current[h] /\ current[h] \in Requests /\ current[h] # r
          BY <1>3, <2>2, <4>2 DEF Types, Channels
        <5> QED
          BY <1>1, <2>2, <2>7, <5>1 DEF OneChannel
      <4> QED
        BY <4>1, <4>2
    <3>4. \A q \in Requests : pc'[q] \in OnChannel => chan'[q] = current'[gateway[q]]
      BY <1>1, <1>5, <2>2, <2>7, <3>2 DEF OneChannel, Types
    <3> QED
      BY <1>1, <2>7, <3>3, <3>4 DEF OneChannel, Limit
  <2>8. OneChannel'
    BY <2>7 DEF OneChannel
  <2> QED
    BY <1>7, <2>3, <2>4, <2>5, <2>6, <2>8
<1> QED
  BY <1>8, <1>9

\* What stays when a token moves: the channels and who works on which.
LEMMA TokenMoves ==
  ASSUME Inv, NEW r \in Requests, pc[r] \in OnChannel, NEW step \in Steps,
         step \notin {"idle", "auth", "chanFor"},
         pc' = [pc EXCEPT ![r] = step], used' \in [Requests -> Nat],
         UNCHANGED <<row, patched, current, capacity, gateway, key, chan>>
  PROVE  Types' /\ Placed' /\ Unmade' /\ OneChannel'
<1> USE DEF Inv
<1>1. \A q \in Requests : pc'[q] = IF q = r THEN step ELSE pc[q]
  BY DEF Types
<1>2. Types'
  BY DEF Types
<1>3. Placed'
  BY <1>1 DEF Placed
<1>4. Unmade'
  BY <1>1 DEF Unmade
<1>5. OneChannel'
  BY <1>1 DEF OneChannel, Limit
<1> QED
  BY <1>2, <1>3, <1>4, <1>5

\* A send adds one token and one holder.
LEMMA TakeSlotStep ==
  ASSUME Inv, NEW r \in Requests, TakeSlot(r)
  PROVE  Inv'
<1> USE DEF Inv
<1>1. PICK c \in Requests : c = chan[r] /\ pc[r] = "wait"
  BY DEF TakeSlot, Placed, OnChannel
<1>2. PICK step \in {"now", "forward"} : pc' = [pc EXCEPT ![r] = step]
  BY DEF TakeSlot, Goto
<1>3. /\ used' = [used EXCEPT ![c] = @ + 1] /\ used[c] < capacity[c]
      /\ UNCHANGED <<row, patched, current, capacity, gateway, key, chan>>
  BY <1>1 DEF TakeSlot, rowVars
<1>4. used' \in [Requests -> Nat]
  BY <1>3 DEF Types
<1>5. Types' /\ Placed' /\ Unmade' /\ OneChannel'
  BY <1>1, <1>2, <1>3, <1>4, TokenMoves DEF OnChannel, Steps
<1>6. WithinCapacity'
  BY <1>3 DEF WithinCapacity, Types
<1>7. \A d \in Requests : SlotHolders(d)' = IF d = c THEN SlotHolders(d) \cup {r}
                                            ELSE SlotHolders(d)
  BY <1>1, <1>2, <1>3 DEF SlotHolders, Holding, Types
<1>8. r \notin SlotHolders(c)
  BY <1>1 DEF SlotHolders, Holding
<1>9. TokensAreHolders'
  <2>1. \A d \in Requests : Cardinality(SlotHolders(d)') =
          IF d = c THEN Cardinality(SlotHolders(d)) + 1 ELSE Cardinality(SlotHolders(d))
    BY <1>7, <1>8, HoldersFinite, FS_AddElement
  <2> QED
    BY <1>3, <2>1 DEF TokensAreHolders, Types
<1> QED
  BY <1>5, <1>6, <1>9

\* A refusal for the rate and the deferred release give the token back.
LEMMA ReceiveStep ==
  ASSUME Inv, NEW r \in Requests, Refuse(r) \/ Finish(r)
  PROVE  Inv'
<1> USE DEF Inv
<1>1. pc[r] \in Holding
  BY DEF Refuse, Finish, Holding
<1>2. PICK c \in Requests : c = chan[r] /\ used[c] \in Nat \ {0}
  BY <1>1, TokenThere
<1>3. /\ used' = [used EXCEPT ![c] = @ - 1] /\ pc' = [pc EXCEPT ![r] = "done"]
      /\ UNCHANGED <<row, patched, current, capacity, gateway, key, chan>>
  BY <1>2 DEF Refuse, Finish, Receive, Goto, rowVars
<1>4. used' \in [Requests -> Nat]
  BY <1>2, <1>3 DEF Types
<1>5. Types' /\ Placed' /\ Unmade' /\ OneChannel'
  BY <1>1, <1>3, <1>4, TokenMoves DEF OnChannel, Steps
<1>6. WithinCapacity'
  BY <1>2, <1>3 DEF WithinCapacity, Types
<1>7. \A d \in Requests : SlotHolders(d)' = IF d = c THEN SlotHolders(d) \ {r}
                                            ELSE SlotHolders(d)
  BY <1>1, <1>2, <1>3 DEF SlotHolders, Holding, Types
<1>8. r \in SlotHolders(c)
  BY <1>1, <1>2 DEF SlotHolders
<1>9. TokensAreHolders'
  BY <1>2, <1>3, <1>7, <1>8, HoldersFinite, FS_RemoveElement DEF TokensAreHolders, Types
<1> QED
  BY <1>5, <1>6, <1>9

-----------------------------------------------------------------------------
(* The theorems.                                                           *)

\* No channel is made at first.
LEMMA InitInv == Init => Inv
<1> SUFFICES ASSUME Init PROVE Inv
  OBVIOUS
<1>1. Types
  BY DEF Init, Types, Rows, Channels, Steps
<1>2. Placed /\ Unmade /\ WithinCapacity
  BY NoChanAssumption
  DEF Init, Placed, Unmade, WithinCapacity, OnChannel, Holding
<1>3. \A c \in Requests : SlotHolders(c) = {}
  BY DEF Init, SlotHolders, Holding
<1>4. TokensAreHolders
  BY <1>3, FS_EmptySet DEF Init, TokensAreHolders
<1>5. OneChannel
  BY DEF Init, OneChannel, OnChannel, Holding
<1> QED
  BY <1>1, <1>2, <1>4, <1>5 DEF Inv

\* The invariant that both theorems rest on.
LEMMA Invariance == Spec => []Inv
<1>1. Init => Inv
  BY InitInv
<1>2. Inv /\ [Next]_vars => Inv'
  BY PlainSteps, OutsideSteps, ChanForStep, TakeSlotStep, ReceiveStep DEF Next, Step
<1> QED
  BY <1>1, <1>2, PTL DEF Spec

\* keySlotter neither leaks nor invents a token, for any number of requests
\* and any history of patched limits: a release finds a token to receive.
THEOREM TokensHold == Spec => []TokensAreHolders
<1>1. Inv => TokensAreHolders
  BY DEF Inv
<1> QED
  BY <1>1, Invariance, PTL

\* A concurrency that is left alone bounds what one gateway handler forwards,
\* whatever it is and however many requests wait.
THEOREM ConcurrencyHolds == Spec => []GatewayConcurrency
<1>1. Inv => GatewayConcurrency
  <2> SUFFICES ASSUME Inv, ~patched, NEW g \in Gateways
               PROVE  Cardinality(HoldersAt(g)) <= Limit(row)
    BY DEF GatewayConcurrency
  <2>1. Limit(row) \in Nat
    BY LimitType DEF Inv, Types
  <2>2. CASE current[g] = NoChan
    <3>1. HoldersAt(g) = {}
      BY <2>2, NoChanAssumption DEF Inv, OneChannel, Placed, OnChannel, HoldersAt
    <3> QED
      BY <2>1, <3>1, FS_EmptySet
  <2>3. CASE current[g] # NoChan
    <3>1. PICK c \in Requests : c = current[g]
      BY <2>3 DEF Inv, Types, Channels
    <3>2. HoldersAt(g) \subseteq SlotHolders(c)
      BY <3>1 DEF Inv, OneChannel, OnChannel, HoldersAt, SlotHolders
    <3>3. Cardinality(HoldersAt(g)) <= Cardinality(SlotHolders(c))
      BY <3>2, HoldersFinite, FS_Subset
    <3>4. Cardinality(SlotHolders(c)) <= Limit(row)
      BY <2>3, <3>1 DEF Inv, TokensAreHolders, WithinCapacity, OneChannel
    <3>5. Cardinality(HoldersAt(g)) \in Nat
      BY <3>2, HoldersFinite, FS_Subset, FS_CardinalityType
    <3> QED
      BY <2>1, <3>3, <3>4, <3>5, HoldersFinite
  <2> QED
    BY <2>2, <2>3
<1> QED
  BY <1>1, Invariance, PTL

-----------------------------------------------------------------------------
(* The sliding window.                                                     *)

\* The rest of TypeOK.
WindowTypes ==
  /\ clock \in 0..MaxClock
  /\ hits \in [Gateways -> SUBSET Requests]
  /\ admitted \in [Gateways -> SUBSET Requests]
  /\ now \in [Requests -> 0..MaxClock]

\* The steps at which the limiter has answered a request, if it was asked.
Answered == {"forward", "done"}

\* The window keeps hits of its own gateway's requests only.
HitsOfAnswered ==
  \A g \in Gateways :
    /\ hits[g] \subseteq admitted[g]
    /\ \A q \in admitted[g] : gateway[q] = g /\ pc[q] \in Answered

\* A hit that is gone was outside the window of a caller that was answered.
GoneIsOld ==
  \A g \in Gateways : \A q \in admitted[g] \ hits[g] :
    \E x \in Requests : /\ gateway[x] = g /\ pc[x] \in Answered
                        /\ now[q] + RateWindow <= now[x]

WindowInv == WindowTypes /\ HitsOfAnswered /\ GoneIsOld

\* Once answered, a request reads no clock and is not asked again.
LEMMA AnsweredStays ==
  ASSUME Inv, WindowTypes, [Next]_vars
  PROVE  /\ gateway' = gateway
         /\ \A q \in Requests : pc[q] \in Answered =>
              pc'[q] \in Answered /\ now'[q] = now[q]
<1> USE DEF Answered, Goto, Inv, Types, WindowTypes
<1>1. ASSUME NEW r \in Requests,
             \/ Arrive(r) \/ Authenticate(r) \/ ChanFor(r)
             \/ TakeSlot(r) \/ GiveUp(r)
      PROVE  /\ gateway' = gateway
             /\ \A q \in Requests : pc[q] \in Answered =>
                  pc'[q] \in Answered /\ now'[q] = now[q]
  BY <1>1 DEF Arrive, Authenticate, ChanFor, TakeSlot, GiveUp
<1>2. ASSUME NEW r \in Requests,
             ReadClock(r) \/ Allow(r) \/ Refuse(r) \/ Finish(r)
      PROVE  /\ gateway' = gateway
             /\ \A q \in Requests : pc[q] \in Answered =>
                  pc'[q] \in Answered /\ now'[q] = now[q]
  BY <1>2 DEF ReadClock, Allow, Refuse, Finish
<1>3. CASE Patch \/ Tick \/ UNCHANGED vars
  BY <1>3 DEF Patch, Tick, vars
<1> QED
  BY <1>1, <1>2, <1>3 DEF Next, Step

\* What allow does to the window, whether it admits the request or not.
LEMMA Trims ==
  ASSUME Inv, WindowTypes, NEW r \in Requests, Allow(r) \/ Refuse(r)
  PROVE  /\ pc[r] = "allow" /\ pc'[r] \in Answered /\ UNCHANGED <<clock, now>>
         /\ \E new \in {{}, {r}} :
              /\ hits' = [hits EXCEPT ![gateway[r]] = Kept(r) \cup new]
              /\ admitted' = [admitted EXCEPT ![gateway[r]] = @ \cup new]
<1>1. gateway[r] \in Gateways
  BY DEF Inv, Types
<1>2. CASE Allow(r)
  <2>1. pc'[r] = "forward"
    BY <1>2 DEF Allow, Goto, Inv, Types
  <2> QED
    BY <1>2, <2>1 DEF Allow, Answered
<1>3. CASE Refuse(r)
  <2>1. pc'[r] = "done"
    BY <1>3 DEF Refuse, Goto, Inv, Types
  <2>2. hits' = [hits EXCEPT ![gateway[r]] = Kept(r) \cup {}]
    BY <1>3 DEF Refuse
  <2>3. admitted' = [admitted EXCEPT ![gateway[r]] = @ \cup {}]
    BY <1>1, <1>3 DEF Refuse, WindowTypes
  <2> QED
    BY <1>3, <2>1, <2>2, <2>3 DEF Refuse, Answered
<1> QED
  BY <1>2, <1>3

\* All other steps leave the window as it is.
LEMMA OthersKeepWindow ==
  ASSUME Inv, WindowTypes, [Next]_vars
  PROVE  \/ \E r \in Requests : Allow(r) \/ Refuse(r)
         \/ /\ UNCHANGED <<hits, admitted>>
            /\ clock' \in 0..MaxClock /\ now' \in [Requests -> 0..MaxClock]
<1>1. ASSUME NEW r \in Requests,
             \/ Arrive(r) \/ Authenticate(r) \/ ChanFor(r)
             \/ TakeSlot(r) \/ GiveUp(r) \/ Finish(r)
      PROVE  UNCHANGED <<hits, admitted, clock, now>>
  BY <1>1 DEF Arrive, Authenticate, ChanFor, TakeSlot, GiveUp, Finish, rateVars
<1>2. ASSUME NEW r \in Requests, ReadClock(r)
      PROVE  /\ UNCHANGED <<hits, admitted, clock>>
             /\ now' \in [Requests -> 0..MaxClock]
  BY <1>2 DEF ReadClock, rateVars, WindowTypes
<1>3. CASE Patch \/ UNCHANGED vars
  BY <1>3 DEF Patch, rateVars, vars, WindowTypes
<1>4. CASE Tick
  <2>1. clock' \in 0..MaxClock
    BY <1>4, RateAssumption DEF Tick, WindowTypes
  <2> QED
    BY <1>4, <2>1 DEF Tick, rateVars, WindowTypes
<1> QED
  BY <1>1, <1>2, <1>3, <1>4 DEF Next, Step, WindowTypes

\* A caller drops only what is outside its own window, and adds itself.
LEMMA TrimKeepsWindow ==
  ASSUME Inv, WindowInv, [Next]_vars,
         NEW r \in Requests, Allow(r) \/ Refuse(r)
  PROVE  WindowInv'
<1> DEFINE g == gateway[r]
<1>0. g \in Gateways /\ WindowTypes /\ HitsOfAnswered /\ GoneIsOld
  BY DEF Inv, Types, WindowInv
<1>1. /\ gateway' = gateway /\ UNCHANGED <<clock, now>> /\ pc'[r] \in Answered
      /\ \A q \in Requests : pc[q] \in Answered => pc'[q] \in Answered
  BY <1>0, AnsweredStays, Trims
<1>2. PICK new \in {{}, {r}} :
        /\ hits' = [hits EXCEPT ![g] = Kept(r) \cup new]
        /\ admitted' = [admitted EXCEPT ![g] = @ \cup new]
  BY <1>0, Trims
<1>3. /\ hits'[g] = Kept(r) \cup new /\ admitted'[g] = admitted[g] \cup new
      /\ \A h \in Gateways \ {g} : hits'[h] = hits[h] /\ admitted'[h] = admitted[h]
  BY <1>0, <1>2 DEF WindowTypes
<1>4. Kept(r) \subseteq hits[g] /\ new \subseteq {r}
  BY DEF Kept
<1>5. WindowTypes'
  <2>1. Kept(r) \cup new \in SUBSET Requests /\ admitted[g] \cup new \in SUBSET Requests
    BY <1>0, <1>4 DEF WindowTypes
  <2> QED
    BY <1>0, <1>1, <1>2, <2>1 DEF WindowTypes
<1>6. HitsOfAnswered'
  <2> SUFFICES ASSUME NEW h \in Gateways
               PROVE  /\ hits'[h] \subseteq admitted'[h]
                      /\ \A q \in admitted'[h] : gateway[q] = h /\ pc'[q] \in Answered
    BY <1>1 DEF HitsOfAnswered
  <2>1. /\ hits[h] \subseteq admitted[h] /\ admitted[h] \subseteq Requests
        /\ \A q \in admitted[h] : gateway[q] = h /\ pc[q] \in Answered
    BY <1>0 DEF HitsOfAnswered, WindowTypes
  <2>2. CASE h = g
    BY <1>1, <1>3, <1>4, <2>1, <2>2
  <2>3. CASE h # g
    BY <1>1, <1>3, <2>1, <2>3
  <2> QED
    BY <2>2, <2>3
<1>7. GoneIsOld'
  <2> SUFFICES ASSUME NEW h \in Gateways, NEW q \in admitted'[h] \ hits'[h]
               PROVE  \E x \in Requests : /\ gateway[x] = h /\ pc'[x] \in Answered
                                          /\ now[q] + RateWindow <= now[x]
    BY <1>1 DEF GoneIsOld
  <2>1. CASE q \in admitted[h] \ hits[h]
    <3>1. PICK x \in Requests : /\ gateway[x] = h /\ pc[x] \in Answered
                                /\ now[q] + RateWindow <= now[x]
      BY <1>0, <2>1 DEF GoneIsOld
    <3> QED
      BY <1>1, <3>1
  <2>2. CASE q \notin admitted[h] \ hits[h]
    <3>1. h = g /\ q \in hits[g] /\ q \notin Kept(r)
      BY <1>3, <1>4, <2>2
    <3>2. q \in Requests /\ now[q] \in 0..MaxClock /\ now[r] \in 0..MaxClock
      BY <1>0, <3>1 DEF WindowTypes
    <3>3. ~(now[q] + RateWindow > now[r])
      BY <3>1 DEF Kept, InWindow
    <3>4. now[q] + RateWindow <= now[r]
      BY <3>2, <3>3, RateAssumption
    <3> QED
      BY <1>1, <3>1, <3>4
  <2> QED
    BY <2>1, <2>2
<1> QED
  BY <1>5, <1>6, <1>7 DEF WindowInv

\* The window's invariant.
LEMMA WindowInvariance == Spec => []WindowInv
<1>1. Init => WindowInv
  BY RateAssumption DEF Init, WindowInv, WindowTypes, HitsOfAnswered, GoneIsOld
<1>2. ASSUME Inv, WindowInv, [Next]_vars
      PROVE  WindowInv'
  <2>0. WindowTypes /\ HitsOfAnswered /\ GoneIsOld
    BY <1>2 DEF WindowInv
  <2>1. CASE \E r \in Requests : Allow(r) \/ Refuse(r)
    BY <1>2, <2>1, TrimKeepsWindow
  <2>2. CASE /\ UNCHANGED <<hits, admitted>>
             /\ clock' \in 0..MaxClock /\ now' \in [Requests -> 0..MaxClock]
    <3>1. /\ gateway' = gateway
          /\ \A q \in Requests : pc[q] \in Answered =>
               pc'[q] \in Answered /\ now'[q] = now[q]
      BY <1>2, <2>0, AnsweredStays
    <3>2. WindowTypes'
      BY <2>0, <2>2 DEF WindowTypes
    <3>3. \A g \in Gateways : admitted[g] \subseteq Requests
      BY <2>0 DEF WindowTypes
    <3>4. HitsOfAnswered'
      BY <2>0, <2>2, <3>1, <3>3 DEF HitsOfAnswered
    <3>5. GoneIsOld'
      <4> SUFFICES ASSUME NEW g \in Gateways, NEW q \in admitted[g] \ hits[g]
                   PROVE  \E x \in Requests : /\ gateway[x] = g /\ pc'[x] \in Answered
                                              /\ now'[q] + RateWindow <= now'[x]
        BY <2>2, <3>1 DEF GoneIsOld
      <4>1. PICK x \in Requests : /\ gateway[x] = g /\ pc[x] \in Answered
                                  /\ now[q] + RateWindow <= now[x]
        BY <2>0 DEF GoneIsOld
      <4>2. now'[q] = now[q] /\ now'[x] = now[x] /\ pc'[x] \in Answered
        BY <2>0, <3>1, <3>3, <4>1 DEF HitsOfAnswered
      <4> QED
        BY <4>1, <4>2
    <3> QED
      BY <3>2, <3>4, <3>5 DEF WindowInv
  <2> QED
    BY <1>2, <2>0, <2>1, <2>2, OthersKeepWindow
<1> QED
  BY <1>1, <1>2, Invariance, PTL DEF Spec

\* Every state of KeyLimits has its type.
THEOREM TypeOKHolds == Spec => []TypeOK
<1>1. Inv /\ WindowInv => TypeOK
  BY DEF Inv, Types, WindowInv, WindowTypes, TypeOK
<1> QED
  BY <1>1, Invariance, WindowInvariance, PTL

\* rateLimiter.allow forgets no hit that a later caller should count, and
\* counts none that it should not, whatever callers trim the window and
\* however their limits differ.
THEOREM RateHolds == Spec => RateIsExact
<1> DEFINE Exact == \A r \in Requests :
      /\ pc[r] = "allow" /\ pc'[r] = "forward" /\ Latest(r) =>
           Cardinality(InWindowBefore(r)) < key[r].rpm
      /\ pc[r] = "allow" /\ pc'[r] = "done" =>
           Cardinality(InWindowBefore(r)) >= key[r].rpm
<1>1. ASSUME Inv, WindowInv, [Next]_vars
      PROVE  Exact
  <2> SUFFICES ASSUME NEW r \in Requests, pc[r] = "allow", pc'[r] \in Answered
               PROVE  /\ pc'[r] = "forward" /\ Latest(r) =>
                           Cardinality(InWindowBefore(r)) < key[r].rpm
                      /\ pc'[r] = "done" =>
                           Cardinality(InWindowBefore(r)) >= key[r].rpm
    BY DEF Answered
  <2> DEFINE g == gateway[r]
  <2>0. /\ WindowTypes /\ HitsOfAnswered /\ GoneIsOld
        /\ g \in Gateways /\ key[r].rpm \in Nat
    BY <1>1, RateAssumption DEF WindowInv, Inv, Types, Rows
  <2>1. \/ Allow(r) /\ pc'[r] = "forward"
        \/ Refuse(r) /\ pc'[r] = "done"
    <3>1. PICK q \in Requests : Step(q)
      BY <1>1 DEF Next, Patch, Tick, vars, Answered
    <3>2. \A x \in Requests : x # q => pc'[x] = pc[x]
      BY <1>1, <3>1
      DEF Step, Arrive, Authenticate, ChanFor, TakeSlot, GiveUp, ReadClock, Allow,
          Refuse, Finish, Goto, Inv, Types
    <3>3. q = r
      BY <3>2 DEF Answered
    <3>4. Allow(r) \/ Refuse(r)
      BY <3>1, <3>3
      DEF Step, Arrive, Authenticate, ChanFor, TakeSlot, GiveUp, ReadClock, Finish
    <3> QED
      BY <1>1, <3>4 DEF Allow, Refuse, Goto, Inv, Types
  <2>2. Kept(r) \subseteq InWindowBefore(r)
    BY <2>0 DEF Kept, InWindow, InWindowBefore, HitsOfAnswered
  <2>3. Latest(r) => InWindowBefore(r) \subseteq Kept(r)
    <3> SUFFICES ASSUME Latest(r), NEW q \in InWindowBefore(r), q \notin hits[g]
                 PROVE  FALSE
      BY DEF InWindowBefore, Kept, InWindow
    <3>1. q \in admitted[g] \ hits[g] /\ now[q] + RateWindow > now[r]
      BY DEF InWindowBefore
    <3>2. PICK x \in Requests : /\ gateway[x] = g /\ pc[x] \in Answered
                                /\ now[q] + RateWindow <= now[x]
      BY <2>0, <3>1 DEF GoneIsOld
    <3>3. now[x] <= now[r]
      BY <3>2 DEF Latest, Answered
    <3>4. now[q] \in Nat /\ now[x] \in Nat /\ now[r] \in Nat /\ RateWindow \in Nat
      BY <2>0, <3>1, RateAssumption DEF WindowTypes
    <3> QED
      BY <3>1, <3>2, <3>3, <3>4
  <2>4. /\ IsFiniteSet(InWindowBefore(r)) /\ IsFiniteSet(Kept(r))
        /\ Cardinality(InWindowBefore(r)) \in Nat /\ Cardinality(Kept(r)) \in Nat
    <3>1. InWindowBefore(r) \subseteq Requests
      BY <2>0 DEF InWindowBefore, WindowTypes
    <3>2. Kept(r) \subseteq Requests
      BY <2>2, <3>1
    <3> QED
      BY <3>1, <3>2, RequestsAssumption, FS_Subset, FS_CardinalityType
  <2>5. CASE Allow(r) /\ pc'[r] = "forward"
    <3>1. Cardinality(Kept(r)) < key[r].rpm
      BY <2>5 DEF Allow
    <3>2. Latest(r) => InWindowBefore(r) = Kept(r)
      BY <2>2, <2>3
    <3> QED
      BY <2>5, <3>1, <3>2
  <2>6. CASE Refuse(r) /\ pc'[r] = "done"
    <3>1. Cardinality(Kept(r)) >= key[r].rpm
      BY <2>6 DEF Refuse
    <3>2. Cardinality(Kept(r)) <= Cardinality(InWindowBefore(r))
      BY <2>2, <2>4, FS_Subset
    <3> QED
      BY <2>0, <2>4, <2>6, <3>1, <3>2
  <2> QED
    BY <2>1, <2>5, <2>6
<1>2. Inv /\ WindowInv /\ [Next]_vars => [Exact]_vars
  BY <1>1
<1> QED
  BY <1>2, Invariance, WindowInvariance, PTL DEF Spec, RateIsExact

=============================================================================
