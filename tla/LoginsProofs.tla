---------------------------- MODULE LoginsProofs ----------------------------
(***************************************************************************)
(* Proofs about Logins, for any e-mail addresses, providers, flows and     *)
(* handlers.  What is told of a finished login depends on what its         *)
(* goroutine has carried along since it looked at the flow, so the         *)
(* invariant says of each step of a goroutine what it holds.               *)
(***************************************************************************)
EXTENDS Logins, TLAPS

\* A flow never changes its provider.
ProviderKept == \A f \in DOMAIN flows : flows[f].provider = started[f]

\* The account a goroutine carries, if its flow is there, has its provider.
CarriesProvider(g) == g.flow \in DOMAIN flows => g.who[2] = started[g.flow]

\* What a goroutine holds where it stands.
Holds(g) ==
  /\ g.step # "idle" => g.flow \in DOMAIN started
  /\ g.step = "provider" => g.who \in Emails
  /\ g.step = "add" => g.who \in Accounts /\ CarriesProvider(g)
  /\ g.step = "finish" =>
       /\ g.who \in Verdicts
       /\ g.who \in Accounts => g.who \in table /\ CarriesProvider(g)

Carried == \A h \in Handlers : Holds(handler[h])

IInv == TypeOK /\ ListenersOwned /\ ProviderKept /\ Carried /\ DoneIsTrue

-----------------------------------------------------------------------------
(* What the helpers do to flows.                                           *)

\* Flow f is put and every other flow stays.
LEMMA PutFacts ==
  ASSUME TypeOK, NEW f \in FlowIDs, NEW flow \in Flows
  PROVE  /\ DOMAIN Put(f, flow) = DOMAIN flows \cup {f}
         /\ Put(f, flow)[f] = flow
         /\ \A x \in DOMAIN flows : x # f => Put(f, flow)[x] = flows[x]
         /\ Range(Put(f, flow)) \subseteq Flows
  BY DEF Put, TypeOK, Range

\* The sweeper leaves the flows that are not overdue as they are.
LEMMA SweepFacts ==
  LET kept == Restrict(flows, DOMAIN flows \ Swept)
  IN  /\ DOMAIN kept = DOMAIN flows \ Swept
      /\ \A x \in DOMAIN kept : kept[x] = flows[x]
      /\ TypeOK => Range(kept) \subseteq Flows
  BY DEF Restrict, Range, TypeOK

\* A flow of the table has the fields of Flows.
LEMMA FlowFacts ==
  ASSUME TypeOK, NEW f \in DOMAIN flows
  PROVE  /\ f \in FlowIDs /\ f \in DOMAIN started
         /\ flows[f] \in Flows
  BY DEF TypeOK, Range

-----------------------------------------------------------------------------
(* What the invariant makes of a step.                                     *)

Goroutines == [step : {"idle", "provider", "add", "finish"},
               flow : FlowIDs \cup {None}, who : Verdicts \cup Emails \cup {None}]

\* Rows are only added here, and a goroutine that gets into a step with what
\* belongs there leaves the flows alone.
LEMMA GoroutineSteps ==
  ASSUME IInv, NEW h \in Handlers, NEW g \in Goroutines,
         handler' = [handler EXCEPT ![h] = g],
         table \subseteq table', table' \subseteq Accounts,
         UNCHANGED <<flows, open, started, restarts>>,
         Holds(g)'
  PROVE  IInv'
<1> USE DEF IInv
<1>1. TypeOK'
  BY DEF TypeOK, Goroutines
<1>2. ListenersOwned' /\ ProviderKept' /\ DoneIsTrue'
  BY DEF ListenersOwned, ProviderKept, DoneIsTrue
<1>3. Carried'
  <2> SUFFICES ASSUME NEW k \in Handlers
               PROVE  Holds(handler[k])'
    BY DEF Carried
  <2>1. CASE k = h
    BY <2>1 DEF TypeOK
  <2>2. CASE k # h
    <3>1. handler'[k] = handler[k] /\ Holds(handler[k])
      BY <2>2 DEF TypeOK, Carried
    <3> QED
      BY <3>1 DEF Holds, CarriesProvider
  <2> QED
    BY <2>1, <2>2
<1> QED
  BY <1>1, <1>2, <1>3

\* A row that is added, or there already.
LEMMA StoreKeepsIInv ==
  ASSUME IInv, NEW a \in Accounts, Store(a)
  PROVE  IInv'
<1> USE DEF IInv, Store
<1>1. TypeOK'
  BY DEF TypeOK
<1>2. ListenersOwned' /\ ProviderKept' /\ DoneIsTrue'
  BY DEF ListenersOwned, ProviderKept, DoneIsTrue
<1>3. Carried'
  BY DEF Carried, Holds, CarriesProvider
<1> QED
  BY <1>1, <1>2, <1>3

\* A flow that is started is new to every goroutine.
LEMMA StartKeepsIInv ==
  ASSUME IInv, NEW f \in FlowIDs, Start(f)
  PROVE  IInv'
<1> USE DEF IInv
<1>1. PICK p \in OAuthProviders, mode \in {"auto", "manual"} :
        /\ flows' = Put(f, [provider |-> p, mode |-> mode,
                            expired |-> FALSE, result |-> None])
        /\ open' = IF mode = "auto" THEN open \cup {f} ELSE open
        /\ started' = [x \in DOMAIN started \cup {f} |->
                         IF x = f THEN p ELSE started[x]]
  BY DEF Start
<1> DEFINE flow == [provider |-> p, mode |-> mode, expired |-> FALSE, result |-> None]
<1>2. f \notin DOMAIN started /\ f \notin DOMAIN flows /\ UNCHANGED <<table, handler, restarts>>
  BY DEF Start, TypeOK
<1>3. flow \in Flows
  BY DEF Flows
<1>4. /\ DOMAIN flows' = DOMAIN flows \cup {f}
      /\ flows'[f] = flow
      /\ \A x \in DOMAIN flows : x # f => flows'[x] = flows[x]
      /\ Range(flows') \subseteq Flows
  BY <1>1, <1>3, PutFacts
<1>5. /\ DOMAIN started' = DOMAIN started \cup {f}
      /\ started'[f] = p
      /\ \A x \in DOMAIN started : started'[x] = started[x]
  BY <1>1, <1>2
<1> HIDE DEF flow
<1>6. flow.provider = p /\ flow.mode = mode /\ flow.result = None
  BY DEF flow
<1>7. TypeOK'
  <2>1. Range(started') \subseteq OAuthProviders
    BY <1>5 DEF TypeOK, Range
  <2>2. open' \subseteq DOMAIN started'
    BY <1>1, <1>5 DEF TypeOK
  <2> QED
    BY <1>2, <1>4, <1>5, <2>1, <2>2 DEF TypeOK
<1>8. ListenersOwned'
  BY <1>1, <1>2, <1>4, <1>6 DEF ListenersOwned
<1>9. ProviderKept'
  BY <1>2, <1>4, <1>5, <1>6 DEF ProviderKept, TypeOK
<1>10. Carried'
  BY <1>2, <1>4, <1>5 DEF Carried, Holds, CarriesProvider, TypeOK
<1>11. DoneIsTrue'
  BY <1>2, <1>4, <1>5, <1>6, NamesAssumption DEF DoneIsTrue, TypeOK
<1> QED
  BY <1>7, <1>8, <1>9, <1>10, <1>11

\* A flow that runs out keeps everything but its time.
LEMMA ExpireKeepsIInv ==
  ASSUME IInv, NEW f \in FlowIDs, Expire(f)
  PROVE  IInv'
<1> USE DEF IInv
<1>1. /\ f \in DOMAIN flows
      /\ flows' = [flows EXCEPT ![f].expired = TRUE]
      /\ UNCHANGED <<table, open, handler, started, restarts>>
  BY DEF Expire
<1>2. flows[f] \in Flows /\ flows'[f] \in Flows
  BY <1>1, FlowFacts DEF Flows
<1>3. /\ DOMAIN flows' = DOMAIN flows
      /\ \A x \in DOMAIN flows : /\ flows'[x].provider = flows[x].provider
                                 /\ flows'[x].mode = flows[x].mode
                                 /\ flows'[x].result = flows[x].result
  BY <1>1, FlowFacts DEF Flows
<1>4. Range(flows') \subseteq Flows
  BY <1>1, <1>2 DEF Range, TypeOK
<1>5. TypeOK'
  BY <1>1, <1>3, <1>4 DEF TypeOK
<1>6. ListenersOwned' /\ ProviderKept' /\ DoneIsTrue'
  BY <1>1, <1>3 DEF ListenersOwned, ProviderKept, DoneIsTrue
<1>7. Carried'
  BY <1>1, <1>3 DEF Carried, Holds, CarriesProvider
<1> QED
  BY <1>5, <1>6, <1>7

\* The sweeper closes the listeners of the flows it removes, and no others.
LEMMA SweepKeepsIInv ==
  ASSUME IInv, Sweep
  PROVE  IInv'
<1> USE DEF IInv
<1>1. /\ open' = open \ Swept
      /\ flows' = Restrict(flows, DOMAIN flows \ Swept)
      /\ UNCHANGED <<table, handler, started, restarts>>
  BY DEF Sweep, Close
<1>2. /\ DOMAIN flows' = DOMAIN flows \ Swept
      /\ \A x \in DOMAIN flows' : flows'[x] = flows[x]
      /\ Range(flows') \subseteq Flows
  BY <1>1, SweepFacts
<1>3. TypeOK'
  BY <1>1, <1>2 DEF TypeOK
<1>4. ListenersOwned' /\ ProviderKept' /\ DoneIsTrue'
  BY <1>1, <1>2 DEF ListenersOwned, ProviderKept, DoneIsTrue
<1>5. Carried'
  BY <1>1, <1>2 DEF Carried, Holds, CarriesProvider
<1> QED
  BY <1>3, <1>4, <1>5

\* The goroutine of a callback knows its flow from the port it came by.
LEMMA CallbackKeepsIInv ==
  ASSUME IInv, NEW h \in Handlers, Callback(h)
  PROVE  IInv'
<1>1. PICK f \in open :
        \/ Becomes(h, "finish", f, Failed)
        \/ \E e \in Emails : Becomes(h, "provider", f, e)
  BY DEF Callback
<1>2. f \in DOMAIN started /\ f \in FlowIDs
  BY DEF IInv, TypeOK
<1>3. table \subseteq table' /\ table' \subseteq Accounts /\ UNCHANGED <<flows, open, started, restarts>>
  BY DEF Callback, IInv, TypeOK
<1>4. CASE Becomes(h, "finish", f, Failed)
  <2> DEFINE g == [step |-> "finish", flow |-> f, who |-> Failed]
  <2>1. g \in Goroutines
    BY <1>2 DEF Goroutines, Verdicts
  <2>2. Holds(g)'
    BY <1>2, <1>3, NamesAssumption DEF Holds, Verdicts
  <2> QED
    BY <1>3, <1>4, <2>1, <2>2, GoroutineSteps DEF Becomes
<1>5. ASSUME NEW e \in Emails, Becomes(h, "provider", f, e)
      PROVE  IInv'
  <2> DEFINE g == [step |-> "provider", flow |-> f, who |-> e]
  <2>1. g \in Goroutines
    BY <1>2 DEF Goroutines
  <2>2. Holds(g)'
    BY <1>2, <1>3 DEF Holds
  <2> QED
    BY <1>3, <1>5, <2>1, <2>2, GoroutineSteps DEF Becomes
<1> QED
  BY <1>1, <1>4, <1>5

\* The provider is that of the flow, as long as it is there.
LEMMA TakeProviderKeepsIInv ==
  ASSUME IInv, NEW h \in Handlers, TakeProvider(h)
  PROVE  IInv'
<1>1. Holds(handler[h]) /\ handler[h].step = "provider"
  BY DEF IInv, Carried, TakeProvider
<1>2. handler[h].flow \in DOMAIN started /\ handler[h].who \in Emails
  BY <1>1 DEF Holds
<1>3. PICK f \in FlowIDs : f = handler[h].flow
  BY <1>2 DEF IInv, TypeOK
<1>4. f \in DOMAIN flows => FlowProvider(f) = started[f] /\ started[f] \in OAuthProviders
  BY <1>2, <1>3 DEF FlowProvider, IInv, ProviderKept, TypeOK, Range
<1>5. FlowProvider(f) \in Providers
  BY <1>4, ProvidersAssumption DEF FlowProvider
<1>6. PICK a \in Accounts : a = <<handler[h].who, FlowProvider(f)>>
  BY <1>2, <1>5 DEF Accounts
<1> DEFINE g == [step |-> "add", flow |-> f, who |-> a]
<1>7. /\ handler' = [handler EXCEPT ![h] = g]
      /\ table \subseteq table' /\ table' \subseteq Accounts
      /\ UNCHANGED <<flows, open, started, restarts>>
  BY <1>3, <1>6 DEF TakeProvider, Becomes, IInv, TypeOK
<1>8. g \in Goroutines
  BY DEF Goroutines, Verdicts
<1>9. f \in DOMAIN flows => a[2] = started[f]
  BY <1>4, <1>6
<1>10. Holds(g)'
  BY <1>2, <1>3, <1>7, <1>9 DEF Holds, CarriesProvider
<1> QED
  BY <1>7, <1>8, <1>10, GoroutineSteps

\* What addAccount reports is in the table, or an error.
LEMMA AddAccountKeepsIInv ==
  ASSUME IInv, NEW h \in Handlers, AddAccount(h)
  PROVE  IInv'
<1>1. Holds(handler[h]) /\ handler[h].step = "add"
  BY DEF IInv, Carried, AddAccount
<1>2. PICK a \in Accounts : a = handler[h].who
  BY <1>1 DEF Holds
<1>3. PICK f \in FlowIDs : f = handler[h].flow
  BY <1>1 DEF Holds, IInv, TypeOK
<1>4. f \in DOMAIN started /\ (f \in DOMAIN flows => a[2] = started[f])
  BY <1>1, <1>2, <1>3 DEF Holds, CarriesProvider
<1> DEFINE added == [step |-> "finish", flow |-> f, who |-> a]
           failed == [step |-> "finish", flow |-> f, who |-> Failed]
<1>5. \/ handler' = [handler EXCEPT ![h] = added] /\ table' = table \cup {a}
      \/ handler' = [handler EXCEPT ![h] = failed] /\ table' \in {table, table \cup {a}}
  BY <1>2, <1>3 DEF AddAccount, Becomes
<1>6. /\ table \subseteq table' /\ table' \subseteq Accounts
      /\ UNCHANGED <<flows, open, started, restarts>>
  BY <1>5 DEF AddAccount, IInv, TypeOK
<1>7. CASE handler' = [handler EXCEPT ![h] = added] /\ table' = table \cup {a}
  <2>1. added \in Goroutines
    BY DEF Goroutines, Verdicts
  <2>2. Holds(added)'
    BY <1>4, <1>6, <1>7 DEF Holds, CarriesProvider, Verdicts
  <2> QED
    BY <1>6, <1>7, <2>1, <2>2, GoroutineSteps
<1>8. CASE handler' = [handler EXCEPT ![h] = failed]
  <2>1. failed \in Goroutines
    BY DEF Goroutines, Verdicts
  <2>2. Holds(failed)'
    BY <1>4, <1>6, NamesAssumption DEF Holds, Verdicts
  <2> QED
    BY <1>6, <1>8, <2>1, <2>2, GoroutineSteps
<1> QED
  BY <1>5, <1>7, <1>8

\* A flow that is there gets the verdict and loses its listener at once.
LEMMA FinishKeepsIInv ==
  ASSUME IInv, NEW h \in Handlers, Finish(h)
  PROVE  IInv'
<1> USE DEF IInv
<1> DEFINE f == handler[h].flow
           v == handler[h].who
<1>1. Holds(handler[h]) /\ handler[h].step = "finish"
  BY DEF Carried, Finish
<1>2. /\ f \in DOMAIN started /\ v \in Verdicts
      /\ v \in Accounts => v \in table /\ (f \in DOMAIN flows => v[2] = started[f])
  BY <1>1 DEF Holds, CarriesProvider
<1>3. /\ handler' = [handler EXCEPT ![h] = Idle]
      /\ UNCHANGED <<table, started, restarts>>
  BY DEF Finish
<1>4. DOMAIN flows' = DOMAIN flows
  BY DEF Finish, SetResult
<1>5. /\ open' = IF f \in DOMAIN flows THEN open \ {f} ELSE open
      /\ \A x \in DOMAIN flows : x # f => flows'[x] = flows[x]
  BY DEF Finish, SetResult, Close
<1>6. f \in DOMAIN flows =>
        /\ flows[f] \in Flows /\ flows'[f] = [flows[f] EXCEPT !.result = v]
  BY FlowFacts DEF Finish, SetResult
<1>7. f \in DOMAIN flows =>
        /\ flows'[f] \in Flows /\ flows'[f].result = v
        /\ flows'[f].provider = flows[f].provider /\ flows'[f].mode = flows[f].mode
  BY <1>2, <1>6 DEF Flows
<1>8. handler' \in [Handlers -> Goroutines]
  BY <1>3 DEF TypeOK, Goroutines, Idle
<1>9. Range(flows') \subseteq Flows
  BY <1>4, <1>5, <1>7 DEF Range, TypeOK
<1>10. TypeOK'
  BY <1>3, <1>4, <1>5, <1>8, <1>9 DEF TypeOK, Goroutines
<1>11. v # None
  BY <1>2, NamesAssumption DEF Verdicts
<1>12. ListenersOwned'
  BY <1>4, <1>5, <1>7, <1>11 DEF ListenersOwned
<1>13. ProviderKept' /\ DoneIsTrue'
  BY <1>2, <1>3, <1>4, <1>5, <1>7 DEF ProviderKept, DoneIsTrue
<1>14. Carried'
  <2> SUFFICES ASSUME NEW k \in Handlers
               PROVE  Holds(handler[k])'
    BY DEF Carried
  <2>1. CASE k = h
    BY <1>3, <2>1 DEF TypeOK, Holds, Idle
  <2>2. CASE k # h
    <3>1. handler'[k] = handler[k] /\ Holds(handler[k])
      BY <1>3, <2>2 DEF TypeOK, Carried
    <3> QED
      BY <1>3, <1>4, <3>1 DEF Holds, CarriesProvider
  <2> QED
    BY <2>1, <2>2
<1> QED
  BY <1>10, <1>12, <1>13, <1>14

\* A new process has no flows, ports or goroutines; the table is kept.
LEMMA RestartKeepsIInv ==
  ASSUME IInv, Restart
  PROVE  IInv'
<1> USE DEF IInv
<1>1. /\ restarts < MaxRestarts /\ restarts' = restarts + 1
      /\ flows' = << >> /\ open' = {}
      /\ handler' = [h \in Handlers |-> Idle]
      /\ UNCHANGED <<table, started>>
  BY DEF Restart
<1>2. DOMAIN flows' = {} /\ Range(flows') = {}
  BY <1>1 DEF Range
<1>3. Idle \in Goroutines
  BY DEF Idle, Goroutines
<1>4. TypeOK'
  BY <1>1, <1>2, <1>3, RestartsAssumption DEF TypeOK, Goroutines
<1>5. ListenersOwned' /\ ProviderKept' /\ DoneIsTrue'
  BY <1>1, <1>2 DEF ListenersOwned, ProviderKept, DoneIsTrue
<1>6. Carried'
  BY <1>1 DEF Carried, Holds, Idle
<1> QED
  BY <1>4, <1>5, <1>6

-----------------------------------------------------------------------------
(* What a step does to a flow that was started before it.                  *)

\* The flow does not come back, is not young again and keeps having a result.
Advances(f) ==
  f \in DOMAIN flows' =>
    /\ f \in DOMAIN flows
    /\ flows[f].expired => flows'[f].expired
    /\ flows[f].result # None => flows'[f].result # None

\* No step takes an answer back.
LEMMA EveryStepAdvances ==
  ASSUME IInv, [Next]_vars, NEW f \in DOMAIN started
  PROVE  Advances(f)
<1>1. CASE UNCHANGED flows
  BY <1>1 DEF Advances
<1>2. ASSUME NEW x \in FlowIDs, Start(x)
      PROVE  Advances(f)
  <2>1. PICK flow : flows' = Put(x, flow) /\ x # f
    BY <1>2 DEF Start
  <2> QED
    BY <2>1 DEF Put, Advances
<1>3. ASSUME NEW x \in FlowIDs, Expire(x)
      PROVE  Advances(f)
  <2> SUFFICES ASSUME f \in DOMAIN flows
               PROVE  Advances(f)
    BY <1>3 DEF Expire, Advances
  <2>1. flows[f] \in Flows
    BY FlowFacts DEF IInv
  <2> QED
    BY <1>3, <2>1 DEF Expire, Advances, Flows
<1>4. CASE Sweep
  BY <1>4, SweepFacts DEF Sweep, Advances
<1>5. ASSUME NEW h \in Handlers, Finish(h)
      PROVE  Advances(f)
  <2>1. handler[h].who \in Verdicts /\ handler[h].who # None
    BY <1>5, NamesAssumption DEF IInv, Carried, Holds, Finish, Verdicts
  <2>2. DOMAIN flows' = DOMAIN flows
    BY <1>5 DEF Finish, SetResult
  <2> SUFFICES ASSUME f \in DOMAIN flows
               PROVE  Advances(f)
    BY <2>2 DEF Advances
  <2>3. flows[f] \in Flows
    BY FlowFacts DEF IInv
  <2>4. \/ flows'[f] = flows[f]
        \/ flows'[f] = [flows[f] EXCEPT !.result = handler[h].who]
    BY <1>5 DEF Finish, SetResult
  <2>5. flows'[f].expired = flows[f].expired
    BY <2>3, <2>4 DEF Flows
  <2>6. flows[f].result # None => flows'[f].result # None
    BY <2>1, <2>3, <2>4 DEF Flows
  <2> QED
    BY <2>5, <2>6 DEF Advances
<1>6. CASE Restart
  BY <1>6 DEF Restart, Advances
<1> QED
  BY <1>1, <1>2, <1>3, <1>4, <1>5, <1>6
  DEF Next, Callback, TakeProvider, AddAccount, Paste, VerifyEmail, Store, vars

\* The answers that the page gets from such flows.
LEMMA AnswerFacts ==
  ASSUME NEW f
  PROVE  /\ Answer(f) = "gone" <=> ~Found(f)
         /\ Answer(f) \in {"done", "error"} => flows[f].result # None
         /\ Answer(f) = "pending" => flows[f].result = None
BY NamesAssumption DEF Answer

-----------------------------------------------------------------------------
(* The theorems.                                                           *)

\* No flow at first.
LEMMA InitIInv == Init => IInv
<1> SUFFICES ASSUME Init
             PROVE  IInv
  OBVIOUS
<1>1. DOMAIN flows = {} /\ Range(flows) = {} /\ DOMAIN started = {} /\ Range(started) = {}
  BY DEF Init, Range
<1>2. TypeOK
  BY <1>1, RestartsAssumption DEF Init, TypeOK, Idle
<1> QED
  BY <1>1, <1>2 DEF Init, IInv, ListenersOwned, ProviderKept, Carried, Holds, DoneIsTrue, Idle

\* Every step keeps the invariant.
LEMMA NextKeepsIInv == IInv /\ [Next]_vars => IInv'
<1> SUFFICES ASSUME IInv, [Next]_vars
             PROVE  IInv'
  OBVIOUS
<1>1. ASSUME NEW f \in FlowIDs, Start(f) \/ Expire(f)
      PROVE  IInv'
  BY <1>1, StartKeepsIInv, ExpireKeepsIInv
<1>2. CASE Sweep
  BY <1>2, SweepKeepsIInv
<1>3. ASSUME NEW h \in Handlers,
             Callback(h) \/ TakeProvider(h) \/ AddAccount(h) \/ Finish(h)
      PROVE  IInv'
  BY <1>3, CallbackKeepsIInv, TakeProviderKeepsIInv, AddAccountKeepsIInv, FinishKeepsIInv
<1>4. ASSUME NEW a \in Accounts, Paste(a)
      PROVE  IInv'
  BY <1>4, StoreKeepsIInv DEF Paste
<1>5. ASSUME NEW e \in Emails, VerifyEmail(e)
      PROVE  IInv'
  <2>1. <<e, "email">> \in Accounts
    BY ProvidersAssumption DEF Accounts
  <2> QED
    BY <1>5, <2>1, StoreKeepsIInv DEF VerifyEmail
<1>6. CASE Restart
  BY <1>6, RestartKeepsIInv
<1>7. CASE UNCHANGED vars
  BY <1>7 DEF vars, IInv, TypeOK, ListenersOwned, ProviderKept, Carried, Holds,
              CarriesProvider, DoneIsTrue
<1> QED
  BY <1>1, <1>2, <1>3, <1>4, <1>5, <1>6, <1>7 DEF Next

\* The state is of the right types, whatever callbacks and sweeps interleave.
THEOREM LoginsTypeCorrect == Spec => []TypeOK
<1>1. IInv => TypeOK
  BY DEF IInv
<1> QED
  BY <1>1, InitIInv, NextKeepsIInv, PTL DEF Spec

\* Of any number of flows, those that wait for a browser have their ports open,
\* and no port is open without one.
THEOREM ListenersOwnedHolds == Spec => []ListenersOwned
<1>1. IInv => ListenersOwned
  BY DEF IInv
<1> QED
  BY <1>1, InitIInv, NextKeepsIInv, PTL DEF Spec

\* A login that is reported done has its account stored, for its provider.
THEOREM DoneIsTrueHolds == Spec => []DoneIsTrue
<1>1. IInv => DoneIsTrue
  BY DEF IInv
<1> QED
  BY <1>1, InitIInv, NextKeepsIInv, PTL DEF Spec

\* However callbacks, sweeps and restarts interleave, the page that polls a flow
\* sees it go forward only.
THEOREM AnswersOnlyAdvanceHolds == Spec => AnswersOnlyAdvance
<1> DEFINE Forward(f) ==
      /\ Answer(f) = "gone" => Answer(f)' = "gone"
      /\ Answer(f) \in {"done", "error"} => Answer(f)' # "pending"
<1>1. ASSUME IInv, [Next]_vars, NEW f \in DOMAIN started
      PROVE  Forward(f)
  <2>1. Advances(f) /\ (Found(f)' <=> f \in DOMAIN flows' /\ ~flows'[f].expired)
    BY <1>1, EveryStepAdvances DEF Found
  <2>2. /\ Answer(f)' = "gone" <=> ~Found(f)'
        /\ Answer(f)' = "pending" => flows'[f].result = None /\ Found(f)'
    BY NamesAssumption DEF Answer
  <2>3. ~Found(f) => ~Found(f)'
    BY <2>1 DEF Advances, Found
  <2> QED
    BY <2>1, <2>2, <2>3, AnswerFacts DEF Advances
<1>2. IInv /\ [Next]_vars => [\A f \in DOMAIN started : Forward(f)]_vars
  BY <1>1
<1> QED
  BY <1>2, InitIInv, NextKeepsIInv, PTL DEF Spec, AnswersOnlyAdvance

=============================================================================
