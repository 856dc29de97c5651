---------------------------- MODULE ForwardProofs ----------------------------
(***************************************************************************)
(* Theorems about Forward for any finite set of requests, any set of       *)
(* accounts and any limits: types, the accounting of the slots, their      *)
(* bound, the implementation of AccountSlots, and what a request makes of  *)
(* the accounts it tries.                                                  *)
(***************************************************************************)
EXTENDS Forward, FiniteSetTheorems, TLAPS

\* The steps at which a request has an account in hand.
InHand == Holding \cup {"load", "cas"}

\* A request past Pick has a real account, what its compare-and-swap compares
\* with was below the limit when it was loaded, and it waits for capacity only
\* with retries left.
Located == \A r \in Requests :
  /\ pc[r] \in InHand => acct[r] \in Accounts
  /\ pc[r] = "cas" => cur[r] < MaxConc
  /\ pc[r] = "backoff" => attempt[r] < capacityRetries[r]

Inv == TypeOK /\ Located /\ SlotAccounting /\ InflightBounded

\* The holders of an account are finitely many.
LEMMA HoldersFinite ==
  ASSUME NEW a
  PROVE  IsFiniteSet(Holders(a)) /\ Cardinality(Holders(a)) \in Nat
<1>1. Holders(a) \in SUBSET Requests
  BY DEF Holders
<1>2. IsFiniteSet(Holders(a))
  BY <1>1, RequestsAssumption, FS_Subset
<1> QED
  BY <1>2, FS_CardinalityType

\* A step that neither starts nor ends a tryEntry leaves all holders alone.
Stays(r) ==
  /\ acct'[r] = acct[r] \/ pc[r] \notin Holding
  /\ pc'[r] \in Holding <=> pc[r] \in Holding

\* A step that moves no slot keeps the holders.
LEMMA HoldersStay ==
  ASSUME \A r \in Requests : Stays(r), NEW a
  PROVE  Holders(a)' = Holders(a)
BY DEF Holders, Stays

\* A step that starts a tryEntry of r on b adds one holder.
LEMMA HoldersGrow ==
  ASSUME NEW r \in Requests, NEW b, NEW a,
         pc[r] \notin Holding, pc'[r] \in Holding, acct'[r] = b,
         \A q \in Requests \ {r} : pc'[q] = pc[q] /\ acct'[q] = acct[q]
  PROVE  /\ Holders(a)' = IF a = b THEN Holders(a) \cup {r} ELSE Holders(a)
         /\ r \notin Holders(a)
BY DEF Holders

\* A step that ends a tryEntry of r on b removes one holder.
LEMMA HoldersShrink ==
  ASSUME NEW r \in Requests, NEW b, NEW a,
         pc[r] \in Holding, pc'[r] \notin Holding, acct[r] = b,
         \A q \in Requests \ {r} : pc'[q] = pc[q] /\ acct'[q] = acct[q]
  PROVE  /\ Holders(a)' = IF a = b THEN Holders(a) \ {r} ELSE Holders(a)
         /\ r \in Holders(b)
BY DEF Holders

-----------------------------------------------------------------------------
(* The steps fall into three kinds.                                        *)

\* The steps that leave the counters and the holders alone.
Quiet ==
  \/ \E r \in Requests :
       \/ Arrive(r) \/ PickEntry(r) \/ NoEntry(r)
       \/ LoadInflight(r) \/ AcquireRaced(r)
       \/ SignCached(r) \/ SignUncached(r) \/ TicketGranted(r)
       \/ TicketFails(r) \/ SendFails(r) \/ SendAborted(r)
       \/ CapacityRetry(r) \/ BackoffOver(r) \/ BackoffAborted(r)
       \/ Unauthorized(r) \/ Success(r) \/ StreamEnds(r) \/ PassThrough(r)
  \/ Environment

\* The steps that end a tryEntry.
Ends(r) == \/ Responded(r) \/ FirstUnauthorized(r) \/ SecondUnauthorized(r)
           \/ AfterTransportErr(r)

\* The steps by what they do to slots.
LEMMA Kinds ==
  ASSUME Next
  PROVE  Quiet \/ \E r \in Requests : Acquire(r) \/ Ends(r)
BY DEF Next, Step, Quiet, Ends

\* Steps that neither take nor give a slot leave holders and counters alone.
LEMMA QuietStays ==
  ASSUME TypeOK, Quiet \/ UNCHANGED vars
  PROVE  /\ \A r \in Requests : Stays(r)
         /\ inflight' = inflight
<1> USE DEF TypeOK, TypeLoop, Stays, Holding, Goto, ClientGone, Return, poolVars,
            loopVars, tryVars, Full, Unchanged, NameInLog, ContextDone,
            RetriesLeft, GiveSlotBack, MaySwitchOn401
<1>1. ASSUME NEW r \in Requests,
             Arrive(r) \/ PickEntry(r) \/ NoEntry(r)
             \/ LoadInflight(r) \/ AcquireRaced(r)
      PROVE  (\A q \in Requests : Stays(q)) /\ inflight' = inflight
  BY <1>1 DEF Arrive, PickEntry, NoEntry, LoadInflight, AcquireRaced
<1>2. ASSUME NEW r \in Requests,
             SignCached(r) \/ SignUncached(r) \/ TicketGranted(r)
             \/ TicketFails(r) \/ SendFails(r) \/ SendAborted(r)
      PROVE  (\A q \in Requests : Stays(q)) /\ inflight' = inflight
  BY <1>2 DEF SignCached, SignUncached, TicketGranted, TicketFails, SendFails,
              SendAborted
<1>3. ASSUME NEW r \in Requests,
             CapacityRetry(r) \/ BackoffOver(r) \/ BackoffAborted(r)
             \/ Unauthorized(r) \/ Success(r) \/ StreamEnds(r) \/ PassThrough(r)
      PROVE  (\A q \in Requests : Stays(q)) /\ inflight' = inflight
  BY <1>3 DEF CapacityRetry, BackoffOver, BackoffAborted, Unauthorized,
              Success, StreamEnds, PassThrough
<1>4. CASE Environment
  BY <1>4 DEF Environment, Disconnect, CooldownEnds, FitnessChanges,
              TicketExpires
<1>5. CASE UNCHANGED vars
  BY <1>5 DEF vars
<1> QED
  BY <1>1, <1>2, <1>3, <1>4, <1>5 DEF Quiet

-----------------------------------------------------------------------------
(* The invariant, part by part.                                            *)

\* Nobody holds a slot at first.
LEMMA InitInv == Init => Inv
<1> SUFFICES ASSUME Init PROVE Inv
  OBVIOUS
<1>1. TypeOK /\ Located
  BY MaxConcAssumption, RetriesAssumption
  DEF Init, TypeOK, TypePool, TypeLoop, TypeTry, TypeOutcome, Located, InHand, Holding, Steps, Status, RelayStatus,
      Results, Outcomes
<1>2. \A a \in Accounts : Holders(a) = {}
  BY DEF Init, Holders, Holding
<1>3. SlotAccounting /\ InflightBounded
  <2>1. \A a \in Accounts : inflight[a] = 0 /\ Cardinality(Holders(a)) = 0
    BY <1>2, FS_EmptySet DEF Init
  <2>2. 0 <= MaxConc
    BY MaxConcAssumption
  <2> QED
    BY <2>1, <2>2 DEF SlotAccounting, InflightBounded
<1> QED
  BY <1>1, <1>3 DEF Inv

\* A request that ends a tryEntry holds a slot of a real account, so the
\* counter it decrements is positive.
LEMMA CounterPositive ==
  ASSUME Inv, NEW r \in Requests, pc[r] = "unwind"
  PROVE  acct[r] \in Accounts /\ inflight[acct[r]] \in Nat \ {0}
<1>1. acct[r] \in Accounts /\ r \in Holders(acct[r])
  BY DEF Inv, Located, InHand, Holding, Holders
<1>2. Cardinality(Holders(acct[r])) # 0
  BY <1>1, HoldersFinite, FS_EmptySet
<1> QED
  BY <1>1, <1>2 DEF Inv, SlotAccounting, TypeOK, TypePool

\* The types of what the pool shares.
LEMMA TypePoolStep ==
  ASSUME Inv, [Next]_vars
  PROVE  TypePool'
<1> USE DEF Inv, Located, InHand, Holding, TypeOK, TypePool,
            ReportFailure, Goto, ClientGone, Return,
            poolVars, loopVars, tryVars, Full, Unchanged, NameInLog, ContextDone,
            RetriesLeft, GiveSlotBack, MaySwitchOn401
<1>1. ASSUME NEW r \in Requests,
             Arrive(r) \/ PickEntry(r) \/ NoEntry(r) \/ LoadInflight(r)
      PROVE  TypePool'
  BY <1>1 DEF Arrive, PickEntry, NoEntry, LoadInflight, Candidates
<1>2. ASSUME NEW r \in Requests, Acquire(r) \/ AcquireRaced(r)
      PROVE  TypePool'
  BY <1>2 DEF Acquire, AcquireRaced
<1>3. ASSUME NEW r \in Requests,
             SignCached(r) \/ SignUncached(r) \/ TicketGranted(r)
             \/ TicketFails(r) \/ SendFails(r)
      PROVE  TypePool'
  BY <1>3 DEF SignCached, SignUncached, TicketGranted, TicketFails, SendFails
<1>4. ASSUME NEW r \in Requests,
             SendAborted(r) \/ CapacityRetry(r) \/ BackoffOver(r)
             \/ BackoffAborted(r)
      PROVE  TypePool'
  BY <1>4 DEF SendAborted, CapacityRetry, BackoffOver, BackoffAborted
<1>5. ASSUME NEW r \in Requests,
             Unauthorized(r) \/ Success(r) \/ StreamEnds(r) \/ PassThrough(r)
      PROVE  TypePool'
  BY <1>5 DEF Unauthorized, Success, StreamEnds, PassThrough
<1>6. ASSUME NEW r \in Requests, Ends(r)
      PROVE  TypePool'
  BY <1>6, CounterPositive
  DEF Ends, Responded, FirstUnauthorized, SecondUnauthorized,
      AfterTransportErr, Release, SwitchAccount
<1>7. CASE Environment
  BY <1>7 DEF Environment, Disconnect, CooldownEnds, FitnessChanges,
              TicketExpires
<1>8. CASE UNCHANGED vars
  BY <1>8 DEF vars
<1> QED
  BY <1>1, <1>2, <1>3, <1>4, <1>5, <1>6, <1>7, <1>8 DEF Next, Step, Ends

\* The types of the locals of forward.
LEMMA TypeLoopStep ==
  ASSUME Inv, [Next]_vars
  PROVE  TypeLoop'
<1> USE DEF Inv, Located, InHand, Holding, TypeOK, TypeLoop,
            Steps, Goto, ClientGone, Return,
            poolVars, loopVars, tryVars, Full, Unchanged, NameInLog, ContextDone,
            RetriesLeft, GiveSlotBack, MaySwitchOn401
<1>1. ASSUME NEW r \in Requests,
             Arrive(r) \/ PickEntry(r) \/ NoEntry(r) \/ LoadInflight(r)
      PROVE  TypeLoop'
  <2>1. CASE Arrive(r) \/ NoEntry(r)
    BY <2>1 DEF Arrive, NoEntry
  <2>2. CASE PickEntry(r)
    BY <2>2 DEF PickEntry, Candidates
  <2>3. CASE LoadInflight(r)
    <3>1. acct[r] \in Accounts /\ inflight[acct[r]] \in Nat
      BY <2>3 DEF LoadInflight, TypePool
    <3> QED
      BY <2>3, <3>1 DEF LoadInflight
  <2> QED
    BY <1>1, <2>1, <2>2, <2>3
<1>2. ASSUME NEW r \in Requests, Acquire(r) \/ AcquireRaced(r)
      PROVE  TypeLoop'
  BY <1>2 DEF Acquire, AcquireRaced
<1>3. ASSUME NEW r \in Requests,
             SignCached(r) \/ SignUncached(r) \/ TicketGranted(r)
             \/ TicketFails(r) \/ SendFails(r)
      PROVE  TypeLoop'
  BY <1>3 DEF SignCached, SignUncached, TicketGranted, TicketFails, SendFails
<1>4. ASSUME NEW r \in Requests,
             SendAborted(r) \/ CapacityRetry(r) \/ BackoffOver(r)
             \/ BackoffAborted(r)
      PROVE  TypeLoop'
  BY <1>4 DEF SendAborted, CapacityRetry, BackoffOver, BackoffAborted
<1>5. ASSUME NEW r \in Requests,
             Unauthorized(r) \/ Success(r) \/ StreamEnds(r) \/ PassThrough(r)
      PROVE  TypeLoop'
  BY <1>5 DEF Unauthorized, Success, StreamEnds, PassThrough
<1>6. ASSUME NEW r \in Requests, Ends(r)
      PROVE  TypeLoop'
  <2>1. CASE Responded(r)
    BY <2>1 DEF Responded, Release
  <2>2. CASE FirstUnauthorized(r)
    BY <2>2 DEF FirstUnauthorized, Release, SwitchAccount
  <2>3. CASE SecondUnauthorized(r)
    BY <2>3 DEF SecondUnauthorized, Release
  <2>4. CASE AfterTransportErr(r)
    BY <2>4 DEF AfterTransportErr, Release, SwitchAccount
  <2> QED
    BY <1>6, <2>1, <2>2, <2>3, <2>4 DEF Ends
<1>7. CASE Environment
  BY <1>7 DEF Environment, Disconnect, CooldownEnds, FitnessChanges,
              TicketExpires
<1>8. CASE UNCHANGED vars
  BY <1>8 DEF vars
<1> QED
  BY <1>1, <1>2, <1>3, <1>4, <1>5, <1>6, <1>7, <1>8 DEF Next, Step, Ends

\* The types of the locals of tryEntry.
LEMMA TypeTryStep ==
  ASSUME Inv, [Next]_vars
  PROVE  TypeTry'
<1> USE MaxConcAssumption, RetriesAssumption
    DEF Inv, Located, InHand, Holding, TypeOK, TypeTry, TypeLoop,
            Results, Status, RelayStatus, Goto, ClientGone, Return,
            poolVars, loopVars, tryVars, Full, Unchanged, NameInLog, ContextDone,
            RetriesLeft, GiveSlotBack, MaySwitchOn401
<1>1. ASSUME NEW r \in Requests,
             Arrive(r) \/ PickEntry(r) \/ NoEntry(r) \/ LoadInflight(r)
      PROVE  TypeTry'
  BY <1>1 DEF Arrive, PickEntry, NoEntry, LoadInflight, Candidates
<1>2. ASSUME NEW r \in Requests, Acquire(r) \/ AcquireRaced(r)
      PROVE  TypeTry'
  BY <1>2 DEF Acquire, AcquireRaced
<1>3. ASSUME NEW r \in Requests,
             SignCached(r) \/ SignUncached(r) \/ TicketGranted(r)
             \/ TicketFails(r) \/ SendFails(r)
      PROVE  TypeTry'
  BY <1>3 DEF SignCached, SignUncached, TicketGranted, TicketFails, SendFails
<1>4. ASSUME NEW r \in Requests,
             SendAborted(r) \/ CapacityRetry(r) \/ BackoffOver(r)
             \/ BackoffAborted(r)
      PROVE  TypeTry'
  BY <1>4 DEF SendAborted, CapacityRetry, BackoffOver, BackoffAborted
<1>5. ASSUME NEW r \in Requests,
             Unauthorized(r) \/ Success(r) \/ StreamEnds(r) \/ PassThrough(r)
      PROVE  TypeTry'
  BY <1>5 DEF Unauthorized, Success, StreamEnds, PassThrough
<1>6. ASSUME NEW r \in Requests, Ends(r)
      PROVE  TypeTry'
  BY <1>6
  DEF Ends, Responded, FirstUnauthorized, SecondUnauthorized,
      AfterTransportErr, Release, SwitchAccount
<1>7. CASE Environment
  BY <1>7 DEF Environment, Disconnect, CooldownEnds, FitnessChanges,
              TicketExpires
<1>8. CASE UNCHANGED vars
  BY <1>8 DEF vars
<1> QED
  BY <1>1, <1>2, <1>3, <1>4, <1>5, <1>6, <1>7, <1>8 DEF Next, Step, Ends

\* A judgement keeps the type of the outcomes.
LEMMA JudgeType ==
  ASSUME TypeOutcome, NEW r \in Requests, NEW a \in Accounts,
         NEW what \in Outcomes, Judge(r, a, what)
  PROVE  TypeOutcome'
<1>1. [outcome[r] EXCEPT ![a] = what] \in [Accounts -> Outcomes]
  BY DEF TypeOutcome
<1>2. outcome' = [outcome EXCEPT ![r] = [outcome[r] EXCEPT ![a] = what]]
  BY DEF Judge
<1> QED
  BY <1>1, <1>2 DEF TypeOutcome

\* The type of the history of outcomes.
LEMMA TypeOutcomeStep ==
  ASSUME Inv, [Next]_vars
  PROVE  TypeOutcome'
<1> USE DEF Inv, Located, InHand, Holding, TypeOK
<1>1. ASSUME NEW r \in Requests, Step(r)
      PROVE  \/ outcome' = outcome
             \/ \E a \in Accounts, what \in Outcomes : Judge(r, a, what)
  <2>1. CASE LoadInflight(r) \/ Acquire(r) \/ TicketFails(r) \/ SendFails(r)
    BY <2>1 DEF LoadInflight, Acquire, TicketFails, SendFails, Outcomes
  <2>2. CASE SendAborted(r) \/ BackoffAborted(r)
    BY <2>2 DEF SendAborted, BackoffAborted, ClientGone, Outcomes
  <2>3. CASE Unauthorized(r) \/ Success(r) \/ PassThrough(r)
    BY <2>3 DEF Unauthorized, Success, PassThrough, Outcomes
  <2>4. CASE Ends(r)
    BY <2>4 DEF Ends, Responded, FirstUnauthorized, SecondUnauthorized,
                AfterTransportErr, Release, GiveSlotBack
  <2>5. CASE \/ Arrive(r) \/ PickEntry(r) \/ NoEntry(r) \/ AcquireRaced(r)
             \/ SignCached(r) \/ SignUncached(r) \/ TicketGranted(r)
             \/ CapacityRetry(r) \/ BackoffOver(r) \/ StreamEnds(r)
    BY <2>5 DEF Arrive, PickEntry, NoEntry, AcquireRaced, SignCached,
                SignUncached, TicketGranted, CapacityRetry, BackoffOver,
                StreamEnds, tryVars
  <2> QED
    BY <1>1, <2>1, <2>2, <2>3, <2>4, <2>5 DEF Step, Ends
<1>2. CASE Environment \/ UNCHANGED vars
  BY <1>2 DEF Environment, Disconnect, CooldownEnds, FitnessChanges,
              TicketExpires, TypeOutcome, tryVars, vars
<1> QED
  BY <1>1, <1>2, JudgeType DEF Next, TypeOutcome

\* A request has an account where the code has one.
LEMMA LocatedStep ==
  ASSUME Inv, [Next]_vars
  PROVE  Located'
<1> USE DEF Inv, TypeOK, TypePool, TypeLoop, TypeTry, Located, InHand, Holding, Goto, ClientGone, Return,
            poolVars, loopVars, tryVars, Full, Unchanged, NameInLog, ContextDone,
            RetriesLeft, GiveSlotBack, MaySwitchOn401
<1>1. ASSUME NEW r \in Requests,
             Arrive(r) \/ PickEntry(r) \/ NoEntry(r) \/ LoadInflight(r)
      PROVE  Located'
  <2>1. CASE Arrive(r) \/ NoEntry(r)
    BY <2>1 DEF Arrive, NoEntry
  <2>2. CASE PickEntry(r)
    BY <2>2 DEF PickEntry, Candidates
  <2>3. CASE LoadInflight(r)
    <3>1. acct[r] \in Accounts /\ inflight[acct[r]] \in Nat
      BY <2>3 DEF LoadInflight
    <3> QED
      BY <2>3, <3>1, MaxConcAssumption DEF LoadInflight
  <2> QED
    BY <1>1, <2>1, <2>2, <2>3
<1>2. ASSUME NEW r \in Requests, Acquire(r) \/ AcquireRaced(r)
      PROVE  Located'
  BY <1>2 DEF Acquire, AcquireRaced
<1>3. ASSUME NEW r \in Requests,
             SignCached(r) \/ SignUncached(r) \/ TicketGranted(r)
             \/ TicketFails(r) \/ SendFails(r)
      PROVE  Located'
  <2>1. CASE SignCached(r)
    BY <2>1 DEF SignCached
  <2>2. CASE SignUncached(r) \/ TicketGranted(r)
    BY <2>2 DEF SignUncached, TicketGranted
  <2>3. CASE TicketFails(r)
    BY <2>3 DEF TicketFails
  <2>4. CASE SendFails(r)
    BY <2>4 DEF SendFails
  <2> QED
    BY <1>3, <2>1, <2>2, <2>3, <2>4
<1>4. ASSUME NEW r \in Requests,
             SendAborted(r) \/ CapacityRetry(r) \/ BackoffOver(r)
             \/ BackoffAborted(r)
      PROVE  Located'
  BY <1>4 DEF SendAborted, CapacityRetry, BackoffOver, BackoffAborted
<1>5. ASSUME NEW r \in Requests,
             Unauthorized(r) \/ Success(r) \/ StreamEnds(r) \/ PassThrough(r)
      PROVE  Located'
  BY <1>5 DEF Unauthorized, Success, StreamEnds, PassThrough
<1>6. ASSUME NEW r \in Requests, Ends(r)
      PROVE  Located'
  BY <1>6
  DEF Ends, Responded, FirstUnauthorized, SecondUnauthorized,
      AfterTransportErr, Release, SwitchAccount
<1>7. CASE Environment
  BY <1>7 DEF Environment, Disconnect, CooldownEnds, FitnessChanges,
              TicketExpires
<1>8. CASE UNCHANGED vars
  BY <1>8 DEF vars
<1> QED
  BY <1>1, <1>2, <1>3, <1>4, <1>5, <1>6, <1>7, <1>8 DEF Next, Step, Ends

\* Only Acquire and the ends of tryEntry move a counter, and with it the set
\* of the account's holders.
LEMMA SlotsStep ==
  ASSUME Inv, [Next]_vars
  PROVE  SlotAccounting' /\ InflightBounded'
<1>1. CASE Quiet \/ UNCHANGED vars
  <2>1. inflight' = inflight /\ \A a \in Accounts : Holders(a)' = Holders(a)
    BY <1>1, QuietStays, HoldersStay DEF Inv
  <2> QED
    BY <2>1 DEF Inv, SlotAccounting, InflightBounded
<1>2. ASSUME NEW r \in Requests, Acquire(r)
      PROVE  SlotAccounting' /\ InflightBounded'
  <2> DEFINE b == acct[r]
  <2>1. /\ b \in Accounts /\ inflight[b] < MaxConc
        /\ inflight' = [inflight EXCEPT ![b] = @ + 1]
    BY <1>2 DEF Acquire, Unchanged, Inv, Located, InHand
  <2>2. /\ pc[r] \notin Holding /\ pc'[r] \in Holding /\ acct'[r] = b
        /\ \A q \in Requests \ {r} : pc'[q] = pc[q] /\ acct'[q] = acct[q]
    BY <1>2 DEF Acquire, Goto, Holding, Inv, TypeOK, TypeLoop
  <2>3. \A a \in Accounts :
          /\ Holders(a)' = IF a = b THEN Holders(a) \cup {r} ELSE Holders(a)
          /\ r \notin Holders(a)
    BY <2>2, HoldersGrow
  <2>4. \A a \in Accounts :
          Cardinality(Holders(a)') =
            IF a = b THEN Cardinality(Holders(a)) + 1 ELSE Cardinality(Holders(a))
    BY <2>3, HoldersFinite, FS_AddElement
  <2> QED
    BY <2>1, <2>4, MaxConcAssumption
    DEF Inv, SlotAccounting, InflightBounded, TypeOK, TypePool
<1>3. ASSUME NEW r \in Requests, Ends(r)
      PROVE  SlotAccounting' /\ InflightBounded'
  <2> DEFINE b == acct[r]
  <2>1. /\ b \in Accounts
        /\ inflight' = [inflight EXCEPT ![b] = @ - 1]
    BY <1>3, CounterPositive
    DEF Ends, Responded, FirstUnauthorized, SecondUnauthorized,
        AfterTransportErr, Release, GiveSlotBack
  <2>2. /\ pc[r] \in Holding /\ pc'[r] \notin Holding
        /\ \A q \in Requests \ {r} : pc'[q] = pc[q] /\ acct'[q] = acct[q]
    BY <1>3
    DEF Ends, Responded, FirstUnauthorized, SecondUnauthorized,
        AfterTransportErr, Release, SwitchAccount, Return, Goto, Holding, Inv,
        TypeOK, TypeLoop
  <2>3. \A a \in Accounts :
          /\ Holders(a)' = IF a = b THEN Holders(a) \ {r} ELSE Holders(a)
          /\ r \in Holders(b)
    BY <2>2, HoldersShrink
  <2>4. \A a \in Accounts :
          Cardinality(Holders(a)') =
            IF a = b THEN Cardinality(Holders(a)) - 1 ELSE Cardinality(Holders(a))
    BY <2>3, HoldersFinite, FS_RemoveElement
  <2> QED
    BY <2>1, <2>4, MaxConcAssumption
    DEF Inv, SlotAccounting, InflightBounded, TypeOK, TypePool
<1> QED
  BY <1>1, <1>2, <1>3, Kinds

\* The invariant that the theorems rest on.
LEMMA Invariance == Spec => []Inv
<1>1. Init => Inv
  BY InitInv
<1>2. Inv /\ [Next]_vars => Inv'
  BY TypePoolStep, TypeLoopStep, TypeTryStep, TypeOutcomeStep, LocatedStep,
     SlotsStep DEF Inv, TypeOK
<1> QED
  BY <1>1, <1>2, PTL DEF Spec

-----------------------------------------------------------------------------
(* The theorems.                                                           *)

\* Every variable of the loop keeps its type: in particular a counter is
\* never negative and a log never names an account that was not tried.
THEOREM TypeCorrect == Spec => []TypeOK
<1>1. Inv => TypeOK
  BY DEF Inv
<1> QED
  BY <1>1, Invariance, PTL

\* Entry.Inflight counts the requests inside tryEntry, on every path through
\* the loop and for any number of requests and accounts.
THEOREM AccountingHolds == Spec => []SlotAccounting
<1>1. Inv => SlotAccounting
  BY DEF Inv
<1> QED
  BY <1>1, Invariance, PTL

\* TryAcquire's load and compare-and-swap keep every account within
\* AccountMaxConcurrency.
THEOREM BoundHolds == Spec => []InflightBounded
<1>1. Inv => InflightBounded
  BY DEF Inv
<1> QED
  BY <1>1, Invariance, PTL

\* The instance counts with its own copy of Cardinality.
LEMMA SameCardinality ==
  ASSUME NEW S
  PROVE  Slots!Cardinality(S) = Cardinality(S)
BY DEF Slots!Cardinality, Cardinality

\* A step of Forward is a step of the semaphores or leaves them alone.
LEMMA SlotsSimulation ==
  ASSUME Inv, [Next]_vars
  PROVE  [Slots!Next]_([a \in Accounts |-> Holders(a)])
<1> DEFINE held == [a \in Accounts |-> Holders(a)]
<1>1. CASE Quiet \/ UNCHANGED vars
  <2>1. \A a \in Accounts : Holders(a)' = Holders(a)
    BY <1>1, QuietStays, HoldersStay DEF Inv
  <2> QED
    BY <2>1
<1>2. ASSUME NEW r \in Requests, Acquire(r)
      PROVE  Slots!Take(r, acct[r])
  <2> DEFINE b == acct[r]
  <2>1. b \in Accounts /\ inflight[b] < MaxConc
    BY <1>2 DEF Acquire, Unchanged, Inv, Located, InHand
  <2>2. /\ pc[r] \notin Holding /\ pc'[r] \in Holding /\ acct'[r] = b
        /\ \A q \in Requests \ {r} : pc'[q] = pc[q] /\ acct'[q] = acct[q]
    BY <1>2 DEF Acquire, Goto, Holding, Inv, TypeOK, TypeLoop
  <2>3. \A a \in Accounts :
          /\ Holders(a)' = IF a = b THEN Holders(a) \cup {r} ELSE Holders(a)
          /\ r \notin Holders(a)
    BY <2>2, HoldersGrow
  <2>4. Cardinality(held[b]) < MaxConc
    BY <2>1 DEF Inv, SlotAccounting
  <2>5. held' = [held EXCEPT ![b] = @ \cup {r}]
    BY <2>1, <2>3
  <2>6. \A c \in Accounts : r \notin held[c]
    BY <2>3
  <2> QED
    BY <2>4, <2>5, <2>6, SameCardinality DEF Slots!Take
<1>3. ASSUME NEW r \in Requests, Ends(r)
      PROVE  Slots!Give(r, acct[r]) /\ acct[r] \in Accounts
  <2> DEFINE b == acct[r]
  <2>1. b \in Accounts
    BY <1>3, CounterPositive
    DEF Ends, Responded, FirstUnauthorized, SecondUnauthorized,
        AfterTransportErr, Release, GiveSlotBack
  <2>2. /\ pc[r] \in Holding /\ pc'[r] \notin Holding
        /\ \A q \in Requests \ {r} : pc'[q] = pc[q] /\ acct'[q] = acct[q]
    BY <1>3
    DEF Ends, Responded, FirstUnauthorized, SecondUnauthorized,
        AfterTransportErr, Release, SwitchAccount, Return, Goto, Holding, Inv,
        TypeOK, TypeLoop
  <2>3. \A a \in Accounts :
          /\ Holders(a)' = IF a = b THEN Holders(a) \ {r} ELSE Holders(a)
          /\ r \in Holders(b)
    BY <2>2, HoldersShrink
  <2>4. held' = [held EXCEPT ![b] = @ \ {r}]
    BY <2>1, <2>3
  <2> QED
    BY <2>1, <2>3, <2>4 DEF Slots!Give
<1>4. ASSUME NEW r \in Requests, Acquire(r)
      PROVE  acct[r] \in Accounts
  BY <1>4 DEF Acquire, Inv, Located, InHand
<1> QED
  BY <1>1, <1>2, <1>3, <1>4, Kinds DEF Slots!Next

\* The loop implements one atomic bounded semaphore per account.
THEOREM SlotsImplemented == Spec => ImplementsSlots
<1>1. Init => Slots!Init
  BY DEF Init, Slots!Init, Holders, Holding
<1> QED
  BY <1>1, Invariance, SlotsSimulation, PTL DEF Spec, ImplementsSlots, Slots!Spec

-----------------------------------------------------------------------------
(* The tries of a request.  These theorems rest on one invariant that      *)
(* speaks of each request alone, so a step of another request keeps it.    *)

Inside == {"sign", "ticket", "send", "backoff"}
Over == {"stream", "unwind"}

\* Every account the request is done with is excluded, or in hand at the end
\* of its try, and the account in hand was not excluded before.
Excluded(r) ==
  /\ \A a \in Accounts :
       /\ a \in exclude[r] => outcome[r][a] \in {"full", "unauthorized", "failed"}
       /\ Settled(outcome[r][a]) => a \in exclude[r] \/ (pc[r] \in Over /\ a = acct[r])
       /\ outcome[r][a] = "trying" => pc[r] \in Inside /\ a = acct[r]
  /\ pc[r] \in InHand => acct[r] \notin exclude[r]

RefusedEarlier(r) == {a \in exclude[r] : outcome[r][a] = "unauthorized"}

\* The locals of forward remember the accounts that are excluded.
Flags(r) ==
  /\ IF retried401[r] THEN \E b \in Accounts : RefusedEarlier(r) = {b}
     ELSE RefusedEarlier(r) = {}
  /\ sawTransportErr[r] <=> \E a \in exclude[r] : outcome[r][a] = "failed"

Answered == {"ok", "capacity", "broken", "rejected"}

\* The try in hand is named in the log and has one of tryEntry's results.
InTry(r) ==
  /\ pc[r] \notin Over => status[r] = "none"
  /\ pc[r] \in Inside \cup Over => logAccount[r] = acct[r]
  /\ pc[r] = "stream" => status[r] = "ok" /\ outcome[r][acct[r]] = "answered"
  /\ pc[r] = "unwind" =>
       \/ /\ res[r] = "responded"
          /\ status[r] \in Answered /\ outcome[r][acct[r]] = "answered"
       \/ /\ res[r] = "responded"
          /\ status[r] = "gone" /\ ~connected[r] /\ outcome[r][acct[r]] = "left"
       \/ res[r] = "unauthorized" /\ status[r] = "none" /\ outcome[r][acct[r]] = "unauthorized"
       \/ res[r] = "transportErr" /\ status[r] = "none" /\ outcome[r][acct[r]] = "failed"

\* What is left of the request when forward has returned.
StatusTrue(r) ==
  \/ status[r] \in Answered /\ {a \in Accounts : outcome[r][a] = "answered"} = {logAccount[r]}
  \/ status[r] = "unauthorized" /\ logAccount[r] \in Refused(r)
  \/ status[r] = "bad_gateway" /\ \E a \in Accounts : outcome[r][a] = "failed"
  \/ /\ status[r] = "unavailable"
     /\ \A a \in Accounts : outcome[r][a] \in {"untried", "full", "unauthorized"}
  \/ status[r] = "gone" /\ ~connected[r] /\ outcome[r][logAccount[r]] = "left"

Refusals(r) ==
  \/ status[r] = "unauthorized" /\ \E b, c \in Accounts : b # c /\ Refused(r) = {b, c}
  \/ status[r] # "unauthorized" /\
       (Refused(r) = {} \/ \E b \in Accounts : Refused(r) = {b})

Tries(r) ==
  /\ pc[r] # "done" => Excluded(r) /\ Flags(r) /\ InTry(r)
  /\ pc[r] = "done" => StatusTrue(r) /\ Refusals(r)

TInv == \A r \in Requests : Tries(r)

-----------------------------------------------------------------------------
(* Steps that say nothing new of a request.                                *)

\* All that Tries says of q stays, though q's client may have gone.
Same(q) ==
  /\ pc'[q] = pc[q] /\ acct'[q] = acct[q] /\ exclude'[q] = exclude[q]
  /\ retried401'[q] = retried401[q] /\ sawTransportErr'[q] = sawTransportErr[q]
  /\ res'[q] = res[q] /\ status'[q] = status[q] /\ logAccount'[q] = logAccount[q]
  /\ outcome'[q] = outcome[q]
  /\ connected'[q] => connected[q]

\* So the invariant stays.
LEMMA SameKeepsTries ==
  ASSUME NEW q \in Requests, Tries(q), Same(q)
  PROVE  Tries(q)'
<1>1. /\ Excluded(q)' <=> Excluded(q)
      /\ Flags(q)' <=> Flags(q)
      /\ Refusals(q)' <=> Refusals(q)
  BY DEF Same, Excluded, Flags, RefusedEarlier, Refusals, Refused
<1>2. InTry(q) => InTry(q)'
  BY DEF Same, InTry
<1>3. StatusTrue(q) => StatusTrue(q)'
  BY DEF Same, StatusTrue, Refused
<1> QED
  BY <1>1, <1>2, <1>3 DEF Tries, Same

\* A step of one request leaves the others where they are.
LEMMA OthersSame ==
  ASSUME TypeOK, NEW r \in Requests, Step(r), NEW q \in Requests \ {r}
  PROVE  Same(q)
<1> USE DEF TypeOK, TypeLoop, TypeTry, TypeOutcome, Same, Goto, Judge, Return, loopVars, tryVars
<1>1. CASE Arrive(r) \/ PickEntry(r) \/ NoEntry(r) \/ LoadInflight(r)
  BY <1>1 DEF Arrive, PickEntry, NoEntry, LoadInflight
<1>2. CASE Acquire(r) \/ AcquireRaced(r) \/ SignCached(r) \/ SignUncached(r)
  BY <1>2 DEF Acquire, AcquireRaced, SignCached, SignUncached, NameInLog
<1>3. CASE TicketGranted(r) \/ TicketFails(r) \/ SendFails(r) \/ CapacityRetry(r)
  BY <1>3 DEF TicketGranted, TicketFails, SendFails, CapacityRetry
<1>4. CASE SendAborted(r) \/ BackoffAborted(r) \/ BackoffOver(r)
  BY <1>4 DEF SendAborted, BackoffAborted, BackoffOver, ClientGone
<1>5. CASE Unauthorized(r) \/ Success(r) \/ StreamEnds(r) \/ PassThrough(r)
  BY <1>5 DEF Unauthorized, Success, StreamEnds, PassThrough
<1>6. CASE Ends(r)
  BY <1>6 DEF Ends, Responded, FirstUnauthorized, SecondUnauthorized, AfterTransportErr,
              Release, SwitchAccount
<1> QED
  BY <1>1, <1>2, <1>3, <1>4, <1>5, <1>6 DEF Step, Ends

\* The environment and the quiet steps of r itself.
LEMMA QuietSame ==
  ASSUME TypeOK, Environment \/ UNCHANGED vars, NEW q \in Requests
  PROVE  Same(q)
BY DEF TypeOK, TypeLoop, Same, Environment, Disconnect, CooldownEnds, FitnessChanges,
       TicketExpires, loopVars, tryVars, vars

-----------------------------------------------------------------------------
(* The steps of a request, by what they do to its accounts.                *)

\* Nothing is judged and nothing logged: the request moves between steps
\* outside tryEntry, or between steps inside it.
Moves(r) ==
  /\ exclude'[r] = exclude[r] /\ outcome'[r] = outcome[r]
  /\ retried401'[r] = retried401[r] /\ sawTransportErr'[r] = sawTransportErr[r]
  /\ status'[r] = status[r] /\ logAccount'[r] = logAccount[r]
  /\ pc[r] \notin Over \cup {"done"} /\ pc'[r] \notin Over \cup {"done"}
  /\ pc'[r] \in Inside <=> pc[r] \in Inside
  /\ pc[r] \in Inside => acct'[r] = acct[r]
  /\ pc'[r] \in InHand => acct'[r] \notin exclude[r]

\* A step that judges no account keeps the invariant.
LEMMA MovesKeepsTries ==
  ASSUME NEW r \in Requests, Tries(r), Moves(r)
  PROVE  Tries(r)'
<1>1. Excluded(r) => Excluded(r)'
  BY DEF Moves, Excluded
<1>2. Flags(r)' <=> Flags(r)
  BY DEF Moves, Flags, RefusedEarlier
<1>3. InTry(r) => InTry(r)'
  BY DEF Moves, InTry, Over, Inside
<1> QED
  BY <1>1, <1>2, <1>3 DEF Tries, Moves

\* The account in hand, and no other, gets an outcome; it is not excluded.
Judged(r, what) ==
  /\ exclude'[r] = exclude[r]
  /\ retried401'[r] = retried401[r] /\ sawTransportErr'[r] = sawTransportErr[r]
  /\ acct'[r] = acct[r] /\ acct[r] \in Accounts
  /\ pc[r] \in Inside \cup {"cas"} /\ pc'[r] # "done"
  /\ outcome'[r][acct[r]] = what
  /\ \A b \in Accounts \ {acct[r]} : outcome'[r][b] = outcome[r][b]
  /\ IF what = "trying" THEN pc'[r] \in Inside ELSE pc'[r] \in Over

\* A result for the account in hand keeps the excluded ones apart.
LEMMA JudgedKeepsExcluded ==
  ASSUME NEW r \in Requests, TypeOK, NEW what, Judged(r, what), Tries(r), InTry(r)'
  PROVE  Tries(r)'
<1>1. Excluded(r) /\ Flags(r)
  BY DEF Judged, Tries, Inside
<1>2. acct[r] \notin exclude[r] /\ exclude[r] \subseteq Accounts
  BY <1>1 DEF Excluded, Judged, InHand, Holding, Inside, TypeOK, TypeLoop
<1>3. \A b \in exclude[r] : outcome'[r][b] = outcome[r][b]
  BY <1>2 DEF Judged
<1>4. Flags(r)'
  BY <1>1, <1>3 DEF Flags, RefusedEarlier, Judged
<1>5. Excluded(r)'
  BY <1>1, <1>2, <1>3 DEF Excluded, Judged, Settled, Inside, Over
<1> QED
  BY <1>4, <1>5 DEF Tries, Judged

\* A judgement is about one account.
LEMMA JudgeAt ==
  ASSUME TypeOutcome, NEW r \in Requests, NEW a \in Accounts, NEW what, Judge(r, a, what)
  PROVE  /\ outcome'[r][a] = what
         /\ \A b \in Accounts \ {a} : outcome'[r][b] = outcome[r][b]
BY DEF TypeOutcome, Judge

-----------------------------------------------------------------------------
(* One step of a request.                                                  *)

\* The parts of Inv a step of one request needs.
LEMMA Hand ==
  ASSUME Inv, NEW r \in Requests, pc[r] \in InHand
  PROVE  acct[r] \in Accounts
BY DEF Inv, Located

\* The steps that only move the request along.
LEMMA MovingSteps ==
  ASSUME Inv, NEW r \in Requests, Tries(r),
         \/ Arrive(r) \/ PickEntry(r) \/ AcquireRaced(r)
         \/ SignCached(r) \/ SignUncached(r) \/ TicketGranted(r)
         \/ CapacityRetry(r) \/ BackoffOver(r)
         \/ LoadInflight(r) /\ exclude' = exclude /\ outcome' = outcome /\ acct' = acct
  PROVE  Tries(r)'
<1> USE DEF Inv, TypeOK, TypeLoop, Moves, Goto, loopVars, tryVars, InHand, Holding, Inside, Over
<1>1. pc[r] \notin {"idle", "pick", "done"} /\ pc[r] \in InHand => acct[r] \notin exclude[r]
  BY DEF Tries, Excluded
<1>2. CASE Arrive(r)
  BY <1>2, MovesKeepsTries DEF Arrive
<1>3. CASE PickEntry(r)
  BY <1>3, MovesKeepsTries DEF PickEntry, Candidates
<1>4. CASE AcquireRaced(r) \/ SignCached(r) \/ SignUncached(r) \/ TicketGranted(r)
  BY <1>1, <1>4, MovesKeepsTries DEF AcquireRaced, SignCached, SignUncached, TicketGranted
<1>5. CASE CapacityRetry(r) \/ BackoffOver(r)
  BY <1>1, <1>5, MovesKeepsTries DEF CapacityRetry, BackoffOver
<1>6. CASE LoadInflight(r) /\ exclude' = exclude /\ outcome' = outcome /\ acct' = acct
  <2>1. pc'[r] \in {"pick", "cas"} /\ pc[r] = "load"
    BY <1>6 DEF LoadInflight
  <2> QED
    BY <1>1, <1>6, <2>1, MovesKeepsTries DEF LoadInflight
<1> QED
  BY <1>2, <1>3, <1>4, <1>5, <1>6

\* The steps that say what the account in hand turned out to be.
LEMMA JudgingSteps ==
  ASSUME Inv, NEW r \in Requests, Tries(r),
         \/ Acquire(r) \/ TicketFails(r) \/ SendFails(r) \/ SendAborted(r)
         \/ BackoffAborted(r) \/ Unauthorized(r) \/ Success(r) \/ PassThrough(r)
  PROVE  Tries(r)'
<1> USE DEF Inv, TypeOK, TypeLoop, TypeTry, Judged, Goto, loopVars, tryVars, InHand, Holding,
            Inside, Over, InTry
<1>1. pc[r] \in Inside \cup {"cas"} /\ acct[r] \in Accounts
  BY Hand DEF Acquire, TicketFails, SendFails, SendAborted, BackoffAborted, Unauthorized,
              Success, PassThrough
<1>2. status[r] = "none" /\ (pc[r] \in Inside => logAccount[r] = acct[r])
  BY <1>1 DEF Tries
<1>3. CASE Acquire(r)
  <2>1. Judge(r, acct[r], "trying")
    BY <1>3 DEF Acquire
  <2>2. Judged(r, "trying")
    BY <1>1, <1>3, <2>1, JudgeAt DEF Acquire
  <2>3. InTry(r)'
    BY <1>2, <1>3 DEF Acquire, NameInLog
  <2> QED
    BY <2>2, <2>3, JudgedKeepsExcluded
<1>4. CASE TicketFails(r) \/ SendFails(r)
  <2>1. Judge(r, acct[r], "failed")
    BY <1>4 DEF TicketFails, SendFails
  <2>2. Judged(r, "failed")
    <3>1. pc[r] \in Inside /\ pc'[r] = "unwind"
          /\ UNCHANGED <<acct, exclude, retried401, sawTransportErr>>
      BY <1>4 DEF TicketFails, SendFails
    <3> QED
      BY <1>1, <2>1, <3>1, JudgeAt
  <2>3. InTry(r)'
    <3>1. /\ pc'[r] = "unwind" /\ res'[r] = "transportErr"
          /\ UNCHANGED <<acct, status, logAccount>> /\ pc[r] \in Inside
      BY <1>4 DEF TicketFails, SendFails
    <3>2. outcome'[r][acct[r]] = "failed"
      BY <1>1, <2>1, JudgeAt
    <3> QED
      BY <1>2, <3>1, <3>2
  <2> QED
    BY <2>2, <2>3, JudgedKeepsExcluded
<1>5. CASE SendAborted(r) \/ BackoffAborted(r)
  <2>1. Judge(r, acct[r], "left") /\ ~connected[r]
    BY <1>5 DEF SendAborted, BackoffAborted, ClientGone, ContextDone
  <2>2. Judged(r, "left")
    BY <1>1, <1>5, <2>1, JudgeAt DEF SendAborted, BackoffAborted, ClientGone
  <2>3. InTry(r)'
    BY <1>1, <1>2, <1>5, <2>1, <2>2 DEF SendAborted, BackoffAborted, ClientGone
  <2> QED
    BY <2>2, <2>3, JudgedKeepsExcluded
<1>6. CASE Unauthorized(r)
  <2>1. Judge(r, acct[r], "unauthorized")
    BY <1>6 DEF Unauthorized
  <2>2. Judged(r, "unauthorized")
    BY <1>1, <1>6, <2>1, JudgeAt DEF Unauthorized
  <2>3. InTry(r)'
    BY <1>1, <1>2, <1>6, <2>2 DEF Unauthorized
  <2> QED
    BY <2>2, <2>3, JudgedKeepsExcluded
<1>7. CASE Success(r) \/ PassThrough(r)
  <2>1. Judge(r, acct[r], "answered")
    BY <1>7 DEF Success, PassThrough
  <2>2. Judged(r, "answered")
    BY <1>1, <1>7, <2>1, JudgeAt DEF Success, PassThrough
  <2>3. InTry(r)'
    BY <1>1, <1>2, <1>7, <2>2 DEF Success, PassThrough, Answered
  <2> QED
    BY <2>2, <2>3, JudgedKeepsExcluded
<1> QED
  BY <1>3, <1>4, <1>5, <1>6, <1>7

\* A full account is excluded: its outcome is neither a refusal nor a failure.
LEMMA FullStep ==
  ASSUME Inv, NEW r \in Requests, Tries(r), LoadInflight(r),
         ~(exclude' = exclude /\ outcome' = outcome /\ acct' = acct)
  PROVE  Tries(r)'
<1> USE DEF Inv, TypeOK, TypeLoop
<1>1. PICK a \in Accounts : a = acct[r] /\ a \notin exclude[r] /\ pc[r] = "load"
  BY Hand DEF LoadInflight, Tries, Excluded, InHand
<1>2. /\ exclude'[r] = exclude[r] \cup {a} /\ Judge(r, a, "full")
      /\ pc'[r] = "pick" /\ pc[r] \notin Inside \cup Over
      /\ UNCHANGED <<retried401, sawTransportErr, status>>
  BY <1>1 DEF LoadInflight, Goto, Inside, Over
<1>3. outcome'[r][a] = "full" /\ \A b \in Accounts \ {a} : outcome'[r][b] = outcome[r][b]
  BY <1>2, JudgeAt
<1>4. Excluded(r) /\ Flags(r) /\ InTry(r)
  BY <1>1 DEF Tries
<1>5. Excluded(r)'
  BY <1>1, <1>2, <1>3, <1>4 DEF Excluded, Settled, InHand, Holding, Inside, Over
<1>6. RefusedEarlier(r)' = RefusedEarlier(r)
  BY <1>1, <1>2, <1>3 DEF RefusedEarlier
<1>7. (\E b \in exclude'[r] : outcome'[r][b] = "failed")
        <=> \E b \in exclude[r] : outcome[r][b] = "failed"
  BY <1>1, <1>2, <1>3
<1>8. Flags(r)'
  BY <1>2, <1>4, <1>6, <1>7 DEF Flags
<1>9. InTry(r)'
  BY <1>2, <1>4 DEF InTry, Inside, Over
<1> QED
  BY <1>2, <1>5, <1>8, <1>9 DEF Tries

\* The end of the stream is the end of an answered try.
LEMMA StreamEndsStep ==
  ASSUME Inv, NEW r \in Requests, Tries(r), StreamEnds(r)
  PROVE  Tries(r)'
<1>1. /\ pc[r] = "stream" /\ pc'[r] = "unwind" /\ res'[r] = "responded"
      /\ UNCHANGED <<exclude, retried401, sawTransportErr, acct, outcome, status, logAccount>>
  BY DEF StreamEnds, Goto, loopVars, Inv, TypeOK, TypeLoop, TypeTry
<1>2. Excluded(r) /\ Flags(r) /\ InTry(r)
  BY <1>1 DEF Tries
<1>3. Excluded(r)' /\ Flags(r)'
  BY <1>1, <1>2 DEF Excluded, Flags, RefusedEarlier, Inside, Over, InHand, Holding
<1>4. InTry(r)'
  BY <1>1, <1>2 DEF InTry, Inside, Over, Answered
<1> QED
  BY <1>1, <1>3, <1>4 DEF Tries

\* No candidate is left: what the flags remember decides between 502 and 503.
LEMMA NoEntryStep ==
  ASSUME Inv, NEW r \in Requests, Tries(r), NoEntry(r)
  PROVE  Tries(r)'
<1>1. /\ pc[r] = "pick" /\ pc'[r] = "done" /\ outcome' = outcome
      /\ status'[r] = IF sawTransportErr[r] THEN "bad_gateway" ELSE "unavailable"
  BY DEF NoEntry, Return, Goto, Inv, TypeOK, TypeLoop, TypeTry
<1>2. Excluded(r) /\ Flags(r)
  BY <1>1 DEF Tries
<1>3. \A a \in Accounts :
        \/ outcome[r][a] = "untried"
        \/ a \in exclude[r] /\ outcome[r][a] \in {"full", "unauthorized", "failed"}
  BY <1>1, <1>2 DEF Excluded, Settled, Inside, Over
<1>4. exclude[r] \subseteq Accounts
  BY DEF Inv, TypeOK, TypeLoop
<1>5. StatusTrue(r)'
  BY <1>1, <1>2, <1>3, <1>4 DEF StatusTrue, Flags
<1>6. Refused(r)' = RefusedEarlier(r)
  BY <1>1, <1>3, <1>4 DEF Refused, RefusedEarlier
<1>7. Refusals(r)'
  BY <1>1, <1>2, <1>6 DEF Refusals, Flags
<1> QED
  BY <1>1, <1>5, <1>7 DEF Tries

-----------------------------------------------------------------------------
(* The ends of a try.                                                      *)

\* What every end starts from.
LEMMA AtTheEnd ==
  ASSUME Inv, NEW r \in Requests, Tries(r), Release(r)
  PROVE  /\ pc[r] = "unwind" /\ acct[r] \in Accounts /\ acct[r] \notin exclude[r]
         /\ exclude[r] \subseteq Accounts
         /\ Excluded(r) /\ Flags(r) /\ InTry(r)
         /\ logAccount[r] = acct[r]
         /\ UNCHANGED <<outcome, logAccount, connected>>
         /\ \A a \in Accounts \ {acct[r]} :
              \/ outcome[r][a] = "untried"
              \/ a \in exclude[r] /\ outcome[r][a] \in {"full", "unauthorized", "failed"}
<1>1. pc[r] = "unwind" /\ UNCHANGED <<outcome, logAccount, connected>>
  BY DEF Release
<1>2. Excluded(r) /\ Flags(r) /\ InTry(r)
  BY <1>1 DEF Tries
<1>3. acct[r] \in Accounts
  BY <1>1, Hand DEF InHand, Holding
<1> QED
  BY <1>1, <1>2, <1>3
  DEF Excluded, InTry, Settled, InHand, Holding, Inside, Over, Inv, TypeOK, TypeLoop

\* forward returns with the result of the last try.
LEMMA RespondedStep ==
  ASSUME Inv, NEW r \in Requests, Tries(r), Responded(r)
  PROVE  Tries(r)'
<1>1. Release(r) /\ res[r] = "responded" /\ status' = status /\ pc'[r] = "done"
  BY DEF Responded, Return, Goto, Inv, TypeOK, TypeLoop
<1>2. \/ status[r] \in Answered /\ outcome[r][acct[r]] = "answered"
      \/ status[r] = "gone" /\ ~connected[r] /\ outcome[r][acct[r]] = "left"
  BY <1>1, AtTheEnd DEF InTry
<1>3. status[r] \in Answered => {a \in Accounts : outcome[r][a] = "answered"} = {acct[r]}
  BY <1>1, <1>2, AtTheEnd DEF Answered
<1>4. StatusTrue(r)'
  BY <1>1, <1>2, <1>3, AtTheEnd DEF StatusTrue
<1>5. Refused(r)' = RefusedEarlier(r)
  BY <1>1, <1>2, AtTheEnd DEF Refused, RefusedEarlier
<1>6. Refusals(r)'
  BY <1>1, <1>2, <1>5, AtTheEnd DEF Refusals, Flags, Answered
<1> QED
  BY <1>1, <1>4, <1>6 DEF Tries

\* The second refusal ends the request.
LEMMA SecondUnauthorizedStep ==
  ASSUME Inv, NEW r \in Requests, Tries(r), SecondUnauthorized(r)
  PROVE  Tries(r)'
<1>1. /\ Release(r) /\ res[r] = "unauthorized" /\ retried401[r]
      /\ status'[r] = "unauthorized" /\ pc'[r] = "done"
  BY DEF SecondUnauthorized, MaySwitchOn401, Return, Goto, Inv, TypeOK, TypeLoop, TypeTry
<1>2. outcome[r][acct[r]] = "unauthorized"
  BY <1>1, AtTheEnd DEF InTry
<1>3. Refused(r)' = RefusedEarlier(r) \cup {acct[r]}
  BY <1>1, <1>2, AtTheEnd DEF Refused, RefusedEarlier
<1>4. PICK b \in Accounts : RefusedEarlier(r) = {b}
  BY <1>1, AtTheEnd DEF Flags
<1>5. b # acct[r]
  BY <1>1, <1>4, AtTheEnd DEF RefusedEarlier
<1>6. Refused(r)' = {b, acct[r]}
  BY <1>3, <1>4
<1>7. StatusTrue(r)'
  BY <1>1, <1>6, AtTheEnd DEF StatusTrue
<1>8. Refusals(r)'
  BY <1>1, <1>5, <1>6, AtTheEnd DEF Refusals
<1> QED
  BY <1>1, <1>7, <1>8 DEF Tries

\* A switch excludes the account in hand and leaves its outcome in the flags.
LEMMA SwitchStep ==
  ASSUME Inv, NEW r \in Requests, Tries(r),
         FirstUnauthorized(r) \/ AfterTransportErr(r)
  PROVE  Tries(r)'
<1>1. /\ Release(r) /\ status' = status /\ pc'[r] = "pick"
      /\ exclude'[r] = exclude[r] \cup {acct[r]}
  BY DEF FirstUnauthorized, AfterTransportErr, SwitchAccount, Goto, Inv, TypeOK, TypeLoop
<1>2. PICK a \in Accounts : a = acct[r]
  BY <1>1, AtTheEnd
<1>3. CASE FirstUnauthorized(r)
  <2>1. /\ ~retried401[r] /\ retried401'[r] /\ sawTransportErr' = sawTransportErr
        /\ res[r] = "unauthorized"
    BY <1>3 DEF FirstUnauthorized, MaySwitchOn401, Inv, TypeOK, TypeLoop
  <2>2. outcome[r][a] = "unauthorized" /\ status[r] = "none"
    BY <1>1, <1>2, <2>1, AtTheEnd DEF InTry
  <2>3. RefusedEarlier(r)' = {a}
    BY <1>1, <1>2, <2>1, <2>2, AtTheEnd DEF RefusedEarlier, Flags
  <2>4. Flags(r)'
    BY <1>1, <1>2, <2>1, <2>2, <2>3, AtTheEnd DEF Flags
  <2>5. Excluded(r)'
    BY <1>1, <1>2, <2>2, AtTheEnd DEF Excluded, Settled, InHand, Holding
  <2>6. InTry(r)'
    BY <1>1, <2>2 DEF InTry, Inside, Over
  <2> QED
    BY <1>1, <2>4, <2>5, <2>6 DEF Tries
<1>4. CASE AfterTransportErr(r)
  <2>1. retried401' = retried401 /\ sawTransportErr'[r] /\ res[r] = "transportErr"
    BY <1>4 DEF AfterTransportErr, Inv, TypeOK, TypeLoop
  <2>2. outcome[r][a] = "failed" /\ status[r] = "none"
    BY <1>1, <1>2, <2>1, AtTheEnd DEF InTry
  <2>3. RefusedEarlier(r)' = RefusedEarlier(r)
    BY <1>1, <1>2, <2>2, AtTheEnd DEF RefusedEarlier
  <2>4. Flags(r)'
    BY <1>1, <1>2, <2>1, <2>2, <2>3, AtTheEnd DEF Flags
  <2>5. Excluded(r)'
    BY <1>1, <1>2, <2>2, AtTheEnd DEF Excluded, Settled, InHand, Holding
  <2>6. InTry(r)'
    BY <1>1, <2>2 DEF InTry, Inside, Over
  <2> QED
    BY <1>1, <2>4, <2>5, <2>6 DEF Tries
<1> QED
  BY <1>3, <1>4

-----------------------------------------------------------------------------
(* The invariant and the theorems.                                         *)

\* No request has begun.
LEMMA InitTInv == Init => TInv
<1> SUFFICES ASSUME Init, NEW r \in Requests PROVE Tries(r)
  BY DEF TInv
<1>1. /\ pc[r] = "idle" /\ exclude[r] = {} /\ status[r] = "none"
      /\ retried401[r] = FALSE /\ sawTransportErr[r] = FALSE
      /\ \A a \in Accounts : outcome[r][a] = "untried"
  BY DEF Init
<1>2. Excluded(r)
  BY <1>1 DEF Excluded, Settled, InHand, Holding, Inside, Over
<1>3. Flags(r)
  BY <1>1 DEF Flags, RefusedEarlier
<1>4. InTry(r)
  BY <1>1 DEF InTry, Inside, Over
<1> QED
  BY <1>1, <1>2, <1>3, <1>4 DEF Tries

\* Every step of a request keeps what is said of it.
LEMMA StepKeepsTries ==
  ASSUME Inv, NEW r \in Requests, Tries(r), Step(r)
  PROVE  Tries(r)'
BY MovingSteps, JudgingSteps, FullStep, StreamEndsStep, NoEntryStep, RespondedStep,
   SecondUnauthorizedStep, SwitchStep DEF Step

\* And those of others do too.
LEMMA TInvStep ==
  ASSUME Inv, TInv, [Next]_vars
  PROVE  TInv'
<1> SUFFICES ASSUME NEW q \in Requests PROVE Tries(q)'
  BY DEF TInv
<1>1. Tries(q) /\ TypeOK
  BY DEF TInv, Inv
<1>2. ASSUME NEW r \in Requests, Step(r) PROVE Tries(q)'
  <2>1. CASE q = r
    BY <1>1, <1>2, <2>1, StepKeepsTries
  <2>2. CASE q # r
    BY <1>1, <1>2, <2>2, OthersSame, SameKeepsTries
  <2> QED
    BY <2>1, <2>2
<1>3. CASE Environment \/ UNCHANGED vars
  BY <1>1, <1>3, QuietSame, SameKeepsTries
<1> QED
  BY <1>2, <1>3 DEF Next

\* The invariant that the theorems rest on.
LEMMA TriesInvariance == Spec => [](Inv /\ TInv)
<1>1. Init => TInv
  BY InitTInv
<1>2. Inv /\ TInv /\ [Next]_vars => TInv'
  BY TInvStep
<1> QED
  BY <1>1, <1>2, Invariance, PTL DEF Spec

\* A step judges at most the account in hand, which was not settled before.
LEMMA StepSettles ==
  ASSUME Inv, NEW r \in Requests, Tries(r), Step(r),
         NEW a \in Accounts, Settled(outcome[r][a])
  PROVE  outcome'[r][a] = outcome[r][a]
<1>1. \/ outcome' = outcome
      \/ \E what : pc[r] \in Inside \cup {"load", "cas"} /\ Judge(r, acct[r], what)
  <2>1. CASE LoadInflight(r) \/ Acquire(r) \/ TicketFails(r) \/ SendFails(r)
    BY <2>1 DEF LoadInflight, Acquire, TicketFails, SendFails, Inside
  <2>2. CASE SendAborted(r) \/ BackoffAborted(r)
    BY <2>2 DEF SendAborted, BackoffAborted, ClientGone, Inside
  <2>3. CASE Unauthorized(r) \/ Success(r) \/ PassThrough(r)
    BY <2>3 DEF Unauthorized, Success, PassThrough, Inside
  <2>4. CASE Ends(r)
    BY <2>4 DEF Ends, Responded, FirstUnauthorized, SecondUnauthorized,
                AfterTransportErr, Release
  <2>5. CASE \/ Arrive(r) \/ PickEntry(r) \/ NoEntry(r) \/ AcquireRaced(r)
             \/ SignCached(r) \/ SignUncached(r) \/ TicketGranted(r)
             \/ CapacityRetry(r) \/ BackoffOver(r) \/ StreamEnds(r)
    BY <2>5 DEF Arrive, PickEntry, NoEntry, AcquireRaced, SignCached, SignUncached,
                TicketGranted, CapacityRetry, BackoffOver, StreamEnds, tryVars
  <2> QED
    BY <2>1, <2>2, <2>3, <2>4, <2>5 DEF Step, Ends
<1>2. ASSUME NEW what, pc[r] \in Inside \cup {"load", "cas"}, Judge(r, acct[r], what)
      PROVE  outcome'[r][a] = outcome[r][a]
  <2>1. acct[r] \in Accounts /\ acct[r] \notin exclude[r] /\ Excluded(r)
    BY <1>2, Hand DEF Tries, Excluded, InHand, Holding, Inside
  <2>2. a # acct[r]
    BY <1>2, <2>1 DEF Excluded, Inside, Over
  <2> QED
    BY <1>2, <2>1, <2>2, JudgeAt DEF Inv, TypeOK
<1> QED
  BY <1>1, <1>2

\* A pair has two elements, and its subsets have no more.
LEMMA PairCardinality ==
  ASSUME NEW b, NEW c
  PROVE  /\ b # c => Cardinality({b, c}) = 2
         /\ \A S \in SUBSET {b, c} : Cardinality(S) \in Nat /\ Cardinality(S) <= 2
<1>1. IsFiniteSet({b}) /\ Cardinality({b}) = 1
  BY FS_Singleton
<1>2. {b, c} = {b} \cup {c}
  OBVIOUS
<1>3. IsFiniteSet({b, c}) /\ Cardinality({b, c}) = IF c \in {b} THEN 1 ELSE 2
  BY <1>1, <1>2, FS_AddElement
<1> QED
  BY <1>3, FS_Subset, FS_CardinalityType

\* forward answers with a status that tells what happened to the accounts it
\* tried, and the usage log names the account that answered, however many
\* accounts there are to switch between.
THEOREM StatusIsTrueHolds == Spec => []StatusIsTrue
<1>1. TInv => StatusIsTrue
  <2> SUFFICES ASSUME TInv, NEW r \in Requests, pc[r] = "done"
               PROVE  CASE status[r] \in {"ok", "capacity", "broken", "rejected"} ->
                             {a \in Accounts : outcome[r][a] = "answered"} = {logAccount[r]}
                        [] status[r] = "unauthorized" -> logAccount[r] \in Refused(r)
                        [] status[r] = "bad_gateway" ->
                             \E a \in Accounts : outcome[r][a] = "failed"
                        [] status[r] = "unavailable" ->
                             \A a \in Accounts :
                               outcome[r][a] \in {"untried", "full", "unauthorized"}
                        [] status[r] = "gone" ->
                             ~connected[r] /\ outcome[r][logAccount[r]] = "left"
                        [] OTHER -> FALSE
    BY DEF StatusIsTrue
  <2>1. StatusTrue(r)
    BY DEF TInv, Tries
  <2> QED
    BY <2>1 DEF StatusTrue, Answered
<1> QED
  BY <1>1, TriesInvariance, PTL

\* However many accounts refuse, forward lets a request switch once on a 401:
\* it never meets a third refusal, and the client sees 401 if and only if it
\* met two.
THEOREM TwoRefusalsHold == Spec => []TwoRefusalsAtMost
<1>1. Inv /\ TInv => TwoRefusalsAtMost
  <2> SUFFICES ASSUME Inv, TInv, NEW r \in Requests
               PROVE  /\ Cardinality(Refused(r)) <= 2
                      /\ (pc[r] = "done") =>
                           (status[r] = "unauthorized" <=> Cardinality(Refused(r)) = 2)
    BY DEF TwoRefusalsAtMost
  <2>1. CASE pc[r] = "done"
    <3>1. Refusals(r)
      BY <2>1 DEF TInv, Tries
    <3>2. CASE Refused(r) = {}
      BY <3>1, <3>2, FS_EmptySet DEF Refusals
    <3>3. CASE \E b \in Accounts : Refused(r) = {b}
      BY <3>1, <3>3, FS_Singleton DEF Refusals
    <3>4. CASE \E b, c \in Accounts : b # c /\ Refused(r) = {b, c} /\ status[r] = "unauthorized"
      <4>1. PICK b, c \in Accounts : b # c /\ Refused(r) = {b, c} /\ status[r] = "unauthorized"
        BY <3>4
      <4>2. Cardinality(Refused(r)) = 2
        BY <4>1, PairCardinality
      <4> QED
        BY <4>1, <4>2
    <3> QED
      BY <3>1, <3>2, <3>3, <3>4 DEF Refusals
  <2>2. CASE pc[r] # "done"
    <3>1. Excluded(r) /\ Flags(r)
      BY <2>2 DEF TInv, Tries
    <3>2. Refused(r) \subseteq RefusedEarlier(r) \cup {acct[r]}
      BY <3>1 DEF Excluded, Settled, Refused, RefusedEarlier
    <3>3. \E b, c : Refused(r) \subseteq {b, c}
      BY <3>1, <3>2 DEF Flags
    <3>4. Cardinality(Refused(r)) <= 2
      BY <3>3, PairCardinality
    <3> QED
      BY <2>2, <3>4
  <2> QED
    BY <2>1, <2>2
<1> QED
  BY <1>1, TriesInvariance, PTL

\* A request never turns to an account it is done with: every switch of
\* forward excludes the account first, on every path through tryEntry.
THEOREM NoSecondTryHolds == Spec => NoSecondTry
<1>1. Inv /\ TInv /\ [Next]_vars =>
        [\A r \in Requests, a \in Accounts :
           Settled(outcome[r][a]) => outcome'[r][a] = outcome[r][a]]_vars
  <2> SUFFICES ASSUME Inv, TInv, Next, NEW q \in Requests, NEW a \in Accounts,
                      Settled(outcome[q][a])
               PROVE  outcome'[q][a] = outcome[q][a]
    BY DEF Settled
  <2>1. TypeOK
    BY DEF Inv
  <2>2. ASSUME NEW r \in Requests, Step(r) PROVE outcome'[q][a] = outcome[q][a]
    <3>1. CASE q # r
      BY <2>1, <2>2, <3>1, OthersSame DEF Same
    <3>2. CASE q = r
      BY <2>2, <3>2, StepSettles DEF TInv
    <3> QED
      BY <3>1, <3>2
  <2>3. CASE Environment
    BY <2>1, <2>3, QuietSame DEF Same
  <2> QED
    BY <2>2, <2>3 DEF Next
<1> QED
  BY <1>1, TriesInvariance, PTL DEF Spec, NoSecondTry

-----------------------------------------------------------------------------
(* Cooldowns.                                                              *)

\* Inside tryEntry, before its result, the account in hand is being tried.
Trying(r) == pc[r] \in Inside => outcome[r][acct[r]] = "trying"
TryingInv == \A r \in Requests : Trying(r)

\* A step of the request itself.
LEMMA StepKeepsTrying ==
  ASSUME Inv, NEW r \in Requests, Trying(r), Step(r)
  PROVE  Trying(r)'
<1> USE DEF Inv, TypeOK, TypeLoop, TypeOutcome, Trying, Inside, Goto, loopVars, tryVars
<1>1. CASE Arrive(r) \/ PickEntry(r) \/ NoEntry(r) \/ LoadInflight(r) \/ AcquireRaced(r)
  BY <1>1 DEF Arrive, PickEntry, NoEntry, Return, LoadInflight, AcquireRaced
<1>2. CASE Acquire(r)
  <2>1. acct[r] \in Accounts
    BY <1>2 DEF Acquire, Located, InHand
  <2> QED
    BY <1>2, <2>1 DEF Acquire, Judge
<1>3. CASE SignCached(r) \/ SignUncached(r) \/ TicketGranted(r) \/ CapacityRetry(r)
           \/ BackoffOver(r)
  BY <1>3 DEF SignCached, SignUncached, TicketGranted, CapacityRetry, BackoffOver
<1>4. CASE TicketFails(r) \/ SendFails(r) \/ SendAborted(r) \/ BackoffAborted(r)
           \/ Unauthorized(r) \/ Success(r) \/ StreamEnds(r) \/ PassThrough(r)
  BY <1>4 DEF TicketFails, SendFails, SendAborted, BackoffAborted, ClientGone,
     Unauthorized, Success, StreamEnds, PassThrough
<1>5. CASE Responded(r) \/ FirstUnauthorized(r) \/ SecondUnauthorized(r)
           \/ AfterTransportErr(r)
  BY <1>5 DEF Responded, FirstUnauthorized, SecondUnauthorized, AfterTransportErr,
     Return, SwitchAccount
<1> QED
  BY <1>1, <1>2, <1>3, <1>4, <1>5 DEF Step

\* And of others, which leave it alone.
LEMMA TryingInvariance == Spec => []TryingInv
<1>1. Init => TryingInv
  BY DEF Init, TryingInv, Trying, Inside
<1>2. Inv /\ TryingInv /\ [Next]_vars => TryingInv'
  <2> SUFFICES ASSUME Inv, TryingInv, [Next]_vars, NEW q \in Requests PROVE Trying(q)'
    BY DEF TryingInv
  <2>1. TypeOK /\ Trying(q)
    BY DEF Inv, TryingInv
  <2>2. CASE Same(q)
    BY <2>1, <2>2 DEF Same, Trying
  <2>3. ASSUME NEW r \in Requests, Step(r) PROVE Trying(q)'
    <3>1. CASE q = r
      BY <2>1, <2>3, <3>1, StepKeepsTrying
    <3>2. CASE q # r
      BY <2>1, <2>2, <2>3, <3>2, OthersSame
    <3> QED
      BY <3>1, <3>2
  <2>4. CASE Environment
    BY <2>1, <2>2, <2>4, QuietSame
  <2>5. CASE UNCHANGED vars
    BY <2>1, <2>5 DEF vars, loopVars, tryVars, Trying
  <2> QED
    BY <2>3, <2>4, <2>5 DEF Next
<1> QED
  BY <1>1, <1>2, Invariance, PTL DEF Spec

\* Pool.ReportFailure is called with a slot of the account in hand, after a
\* failure or a rejection of that try: nothing else lets an account cool.
THEOREM CoolingIsEarnedHolds == Spec => CoolingIsEarned
<1> DEFINE Earned == \A a \in Accounts : ~cooled[a] /\ cooled'[a] =>
             \E r \in Holders(a) :
               \/ outcome[r][a] = "trying" /\ outcome'[r][a] = "failed"
               \/ status[r] = "none" /\ status'[r] = "rejected"
<1>1. ASSUME Inv, TInv, TryingInv, Next PROVE Earned
  <2> SUFFICES ASSUME NEW a \in Accounts, ~cooled[a], cooled'[a]
               PROVE  \E r \in Holders(a) :
                        \/ outcome[r][a] = "trying" /\ outcome'[r][a] = "failed"
                        \/ status[r] = "none" /\ status'[r] = "rejected"
    OBVIOUS
  <2> USE <1>1 DEF Inv, TypeOK, TypePool, TypeLoop, TypeTry, TypeOutcome
  <2>1. PICK r \in Requests : TicketFails(r) \/ SendFails(r) \/ PassThrough(r)
    <3>1. CASE Environment
      BY <3>1 DEF Environment, Disconnect, CooldownEnds, FitnessChanges, TicketExpires,
         poolVars
    <3>2. ASSUME NEW r \in Requests, Step(r)
          PROVE  TicketFails(r) \/ SendFails(r) \/ PassThrough(r)
      BY <3>2
      DEF Step, Arrive, PickEntry, NoEntry, LoadInflight, Acquire, AcquireRaced,
          SignCached, SignUncached, TicketGranted, SendAborted, BackoffAborted,
          ClientGone, CapacityRetry, BackoffOver, Unauthorized, Success, StreamEnds,
          Responded, FirstUnauthorized, SecondUnauthorized, AfterTransportErr, Release,
          poolVars
    <3> QED
      BY <3>1, <3>2 DEF Next
  <2>2. pc[r] \in {"ticket", "send"} /\ a = acct[r]
    BY <2>1 DEF TicketFails, SendFails, PassThrough, ReportFailure
  <2>3. r \in Holders(a) /\ outcome[r][a] = "trying" /\ status[r] = "none"
    BY <2>2 DEF Holders, Holding, TryingInv, Trying, Inside, TInv, Tries, InTry, Over
  <2>4. CASE TicketFails(r) \/ SendFails(r)
    <3>1. outcome'[r][a] = "failed"
      <4>1. Judge(r, a, "failed")
        BY <2>2, <2>4 DEF TicketFails, SendFails
      <4> QED
        BY <4>1, JudgeAt
    <3> QED
      BY <2>3, <3>1
  <2>5. CASE PassThrough(r)
    <3>1. status'[r] = "rejected"
      BY <2>2, <2>5 DEF PassThrough, ReportFailure
    <3> QED
      BY <2>3, <3>1
  <2> QED
    BY <2>1, <2>4, <2>5
<1>2. Inv /\ TInv /\ TryingInv /\ [Next]_vars => [Earned]_vars
  BY <1>1
<1> QED
  BY <1>2, TriesInvariance, TryingInvariance, PTL DEF Spec, CoolingIsEarned

=============================================================================
