------------------------------- MODULE Logins -------------------------------
(***************************************************************************)
(* The logins of internal/admin/oauth.go: a flow is started for a provider *)
(* and, in mode auto, listens on a loopback port of its own until the      *)
(* browser brings the refresh token there; the administrator's page polls  *)
(* the flow.  Pasted tokens and e-mail codes add an account without a      *)
(* flow.  The sweeper removes flows that have expired.                     *)
(*                                                                         *)
(* addAccount is one step here, which leaves a row or an error or both;    *)
(* Accounts models its statements, and the deletions.  An account is named *)
(* by its e-mail address and its provider.                                 *)
(***************************************************************************)
EXTENDS Naturals, FiniteSets, Functions

CONSTANTS Emails,
          Providers,       \* what a row's provider may be
          OAuthProviders,  \* oauthProviders
          FlowIDs,         \* the values of randHex considered
          Handlers,        \* goroutines of callbacks
          MaxRestarts,     \* bound on restarts
          Failed,          \* a result with errMsg
          None

\* addAccount stores "manual" for the empty provider.
ASSUME ProvidersAssumption == OAuthProviders \cup {"manual", "email"} \subseteq Providers
ASSUME RestartsAssumption == MaxRestarts \in Nat

Accounts == Emails \X Providers
ASSUME NamesAssumption ==
  /\ None \notin FlowIDs \cup Accounts \cup {Failed}
  /\ Failed \notin Accounts

VARIABLES
  table,     \* accounts with a row
  flows,     \* flowStore.flows: provider, mode, expiry and result
  open,      \* flows whose loopback listener is open
  handler,   \* per goroutine: its step, its flow, and the account or verdict
  started,   \* history: the provider of each flow
  restarts

vars == <<table, flows, open, handler, started, restarts>>

Verdicts == Accounts \cup {Failed}
Flows == [provider : OAuthProviders, mode : {"auto", "manual"},
          expired : BOOLEAN, result : Verdicts \cup {None}]
Idle == [step |-> "idle", flow |-> None, who |-> None]

TypeOK ==
  /\ table \subseteq Accounts
  /\ DOMAIN flows \subseteq DOMAIN started /\ Range(flows) \subseteq Flows
  /\ open \subseteq DOMAIN started
  /\ handler \in [Handlers ->
       [step : {"idle", "provider", "add", "finish"},
        flow : FlowIDs \cup {None}, who : Verdicts \cup Emails \cup {None}]]
  /\ DOMAIN started \subseteq FlowIDs /\ Range(started) \subseteq OAuthProviders
  /\ restarts \in 0..MaxRestarts

Init ==
  /\ table = {}
  /\ flows = << >>
  /\ open = {}
  /\ handler = [h \in Handlers |-> Idle]
  /\ started = << >>
  /\ restarts = 0

-----------------------------------------------------------------------------
(* Flows.                                                                  *)

Put(f, flow) == [x \in DOMAIN flows \cup {f} |-> IF x = f THEN flow ELSE flows[x]]

\* handleOAuthStart: the listener of mode auto is open before its flow is put.
Start(f) ==
  /\ f \notin DOMAIN started
  /\ \E p \in OAuthProviders, mode \in {"auto", "manual"} :
       /\ flows' = Put(f, [provider |-> p, mode |-> mode,
                           expired |-> FALSE, result |-> None])
       /\ open' = IF mode = "auto" THEN open \cup {f} ELSE open
       /\ started' = [x \in DOMAIN started \cup {f} |->
                        IF x = f THEN p ELSE started[x]]
  /\ UNCHANGED <<table, handler, restarts>>

\* now is after expiresAt.
Expire(f) ==
  /\ f \in DOMAIN flows /\ ~flows[f].expired
  /\ flows' = [flows EXCEPT ![f].expired = TRUE]
  /\ UNCHANGED <<table, open, handler, started, restarts>>

Overdue == {f \in DOMAIN flows : flows[f].expired}

\* Variant with a bug: the sweeper forgets the listeners.
LeaveOpen(fs) == UNCHANGED open
\* close, which does not wait for the handlers that are running.
Close(fs) == open' = open \ fs

\* Variant with a bug: a flow is kept until it has a result.
SweptWithResult == {f \in Overdue : flows[f].result # None}
Swept == Overdue

\* One round of sweeper, under the lock.
Sweep ==
  /\ Swept # {}
  /\ Close(Swept)
  /\ flows' = Restrict(flows, DOMAIN flows \ Swept)
  /\ UNCHANGED <<table, handler, started, restarts>>

Found(f) == f \in DOMAIN flows /\ ~flows[f].expired

\* What handleOAuthComplete tells the page that polls the flow, by get.
Answer(f) ==
  IF ~Found(f) THEN "gone"
  ELSE CASE flows[f].result = None -> "pending"
         [] flows[f].result = Failed -> "error"
         [] OTHER -> "done"

-----------------------------------------------------------------------------
(* Callbacks and completions.                                              *)

Becomes(h, step, flow, who) ==
  handler' = [handler EXCEPT ![h] = [step |-> step, flow |-> flow, who |-> who]]

\* Variant with a bug: a flow that is gone comes back with its result.
PutBack(f, verdict) ==
  flows' = Put(f, [provider |-> started[f], mode |-> "auto",
                   expired |-> FALSE, result |-> verdict])
\* finish: the result of a flow that is gone is lost.
SetResult(f, verdict) ==
  flows' = IF f \in DOMAIN flows THEN [flows EXCEPT ![f].result = verdict] ELSE flows

\* The browser reaches the listener.  Without a refresh token, or with one
\* that parseRefreshToken refuses, the verdict is an error.
Callback(h) ==
  /\ handler[h].step = "idle"
  /\ \E f \in open :
       \/ Becomes(h, "finish", f, Failed)
       \/ \E e \in Emails : Becomes(h, "provider", f, e)
  /\ UNCHANGED <<table, flows, open, started, restarts>>

\* Variant with a bug: addAccount has no default.
NoDefault(f) == IF f \in DOMAIN flows THEN flows[f].provider ELSE None
\* Variant with a bug: an expired flow has no provider.
ProviderUnlessExpired(f) == IF Found(f) THEN flows[f].provider ELSE "manual"
\* flowProvider, and addAccount's "manual" in place of the empty provider.
FlowProvider(f) == IF f \in DOMAIN flows THEN flows[f].provider ELSE "manual"

TakeProvider(h) ==
  /\ handler[h].step = "provider"
  /\ LET f == handler[h].flow
     IN  Becomes(h, "add", f, <<handler[h].who, FlowProvider(f)>>)
  /\ UNCHANGED <<table, flows, open, started, restarts>>

\* addAccount stores the account, fails to, or fails to Reload the pool.
AddAccount(h) ==
  /\ handler[h].step = "add"
  /\ LET f == handler[h].flow
         a == handler[h].who
     IN  \/ Becomes(h, "finish", f, a) /\ table' = table \cup {a}
         \/ Becomes(h, "finish", f, Failed) /\ table' \in {table, table \cup {a}}
  /\ UNCHANGED <<flows, open, started, restarts>>

\* finish closes the listener that the callback itself came through.
Finish(h) ==
  /\ handler[h].step = "finish"
  /\ LET f == handler[h].flow
     IN  /\ SetResult(f, handler[h].who)
         /\ IF f \in DOMAIN flows THEN Close({f}) ELSE UNCHANGED open
  /\ handler' = [handler EXCEPT ![h] = Idle]
  /\ UNCHANGED <<table, started, restarts>>

Store(a) ==
  /\ table' = table \cup {a}
  /\ UNCHANGED <<flows, open, handler, started, restarts>>

\* handleOAuthComplete with a token or a link that has one, and any provider:
\* no flow is looked at, not even the one whose link was pasted.
Paste(a) == Store(a)

\* handleEmailComplete, once the auth server has verified the code.
VerifyEmail(e) == Store(<<e, "email">>)

-----------------------------------------------------------------------------

\* Flows live in memory, and their listeners in the process.
Restart ==
  /\ restarts < MaxRestarts
  /\ restarts' = restarts + 1
  /\ flows' = << >>
  /\ open' = {}
  /\ handler' = [h \in Handlers |-> Idle]
  /\ UNCHANGED <<table, started>>

Next ==
  \/ \E f \in FlowIDs : Start(f) \/ Expire(f)
  \/ Sweep
  \/ \E h \in Handlers :
       Callback(h) \/ TakeProvider(h) \/ AddAccount(h) \/ Finish(h)
  \/ \E a \in Accounts : Paste(a)
  \/ \E e \in Emails : VerifyEmail(e)
  \/ Restart

Spec == Init /\ [][Next]_vars

\* Time passes and the sweeper's ticker fires; nothing is assumed of browsers.
FairSpec ==
  Spec /\ WF_vars(Sweep) /\ \A f \in FlowIDs : WF_vars(Expire(f))

-----------------------------------------------------------------------------
(* Properties.                                                             *)

\* The open loopback ports are those of the flows that wait for a browser:
\* none outlives its flow, and a pending flow can still be finished.
ListenersOwned ==
  open = {f \in DOMAIN flows : flows[f].mode = "auto" /\ flows[f].result = None}

\* A flow reported done names an account that has its row, with the provider
\* the flow was started for: a flow that another is mistaken for, or that
\* loses its provider (oauth.go:224), is never the one the page is told of.
DoneIsTrue ==
  \A f \in DOMAIN flows : flows[f].result \in Accounts =>
    /\ flows[f].result \in table
    /\ flows[f].result[2] = started[f]

\* The page that polls a flow never sees it go back: a flow that is gone
\* stays gone, and one with a result is not pending again.
AnswersOnlyAdvance ==
  [][\A f \in DOMAIN started :
       /\ Answer(f) = "gone" => Answer(f)' = "gone"
       /\ Answer(f) \in {"done", "error"} => Answer(f)' # "pending"]_vars

\* A loopback port is not held for ever, whether its browser comes or not.
PortsFreed == \A f \in FlowIDs : f \in open ~> f \notin open

=============================================================================
