------------------------------ MODULE Billing ------------------------------
(***************************************************************************)
(* The billing Recorder (internal/billing/billing.go): every request       *)
(* appends its usage log to a buffer, and whoever finds the buffer full,   *)
(* the ticker's loop and Close all flush it to the database, each with a   *)
(* batch of its own.  server.Run stops it: Shutdown waits for the requests *)
(* for ten seconds, then the deferred Recorder.Close and Store.Close run.  *)
(* The process may also crash and start again.                             *)
(*                                                                         *)
(* A batch is a set: the order in which its logs are written is left open. *)
(* Costs and token counts are left out; a write fails at any moment.       *)
(***************************************************************************)
EXTENDS Naturals, FiniteSets

CONSTANTS Logs,        \* requests, each with one usage log
          Keyed,       \* those with a key: APIKeyID # ""
          FlushBatch,  \* flushBatch
          Loop,        \* the goroutine of Recorder.loop
          Closer,      \* the goroutine of server.Run
          NoLog

ASSUME LogsAssumption == IsFiniteSet(Logs) /\ Keyed \subseteq Logs
ASSUME FlushBatchAssumption == FlushBatch \in Nat \ {0}
ASSUME NamesAssumption ==
  /\ Loop \notin Logs /\ Closer \notin Logs /\ Loop # Closer
  /\ NoLog \notin Logs

VARIABLES
  buf,      \* Recorder.buf
  pc,       \* of every goroutine
  batch,    \* the logs it has swapped out and not yet written
  entered,  \* the log it has put in usage_logs and not yet in the totals
  rows,     \* how often each log is in usage_logs
  totals,   \* how often each is in the totals of its key
  excused   \* history: logs that a crash, a failed write or a cut-off took

vars == <<buf, pc, batch, entered, rows, totals, excused>>
dbVars == <<rows, totals, excused>>

Flushers == Logs \cup {Loop, Closer}

Flushing == {"flush", "write", "count"}
RequestSteps == Flushing \cup {"idle", "serving", "done", "dead"}
LoopSteps == Flushing \cup {"wait", "stopped", "down"}
CloserSteps == Flushing \cup {"serve", "drain", "join", "closeStore", "exit", "down"}

TypeOK ==
  /\ buf \subseteq Logs
  /\ pc \in [Flushers -> RequestSteps \cup LoopSteps \cup CloserSteps]
  /\ \A l \in Logs : pc[l] \in RequestSteps
  /\ pc[Loop] \in LoopSteps
  /\ pc[Closer] \in CloserSteps
  /\ batch \in [Flushers -> SUBSET Logs]
  /\ entered \in [Flushers -> Keyed \cup {NoLog}]
  /\ rows \in [Logs -> Nat]
  /\ totals \in [Logs -> Nat]
  /\ excused \subseteq Logs

Init ==
  /\ buf = {}
  /\ pc = [f \in Flushers |->
             IF f \in Logs THEN "idle" ELSE IF f = Loop THEN "wait" ELSE "serve"]
  /\ batch = [f \in Flushers |-> {}]
  /\ entered = [f \in Flushers |-> NoLog]
  /\ rows = [l \in Logs |-> 0]
  /\ totals = [l \in Logs |-> 0]
  /\ excused = {}

Goto(f, step) == pc' = [pc EXCEPT ![f] = step]

Recorded(l) == pc[l] \notin {"idle", "serving", "dead"}

\* The database has all that the log is to leave in it.
Settled(l) == rows[l] > 0 /\ (l \in Keyed => totals[l] > 0)

Outstanding == {l \in Logs : pc[l] # "idle" /\ ~Settled(l)}
Excuse(lost) == excused' = excused \cup lost

-----------------------------------------------------------------------------
(* Requests.                                                               *)

\* A request comes in; Shutdown closes the listener.
Arrive(l) ==
  /\ pc[l] = "idle"
  /\ pc[Closer] = "serve"
  /\ Goto(l, "serving")
  /\ UNCHANGED <<buf, batch, entered, dbVars>>

\* Variant with a bug: one log too many before the flush.
FullOneLate(logs) == Cardinality(logs) > FlushBatch
Full(logs) == Cardinality(logs) >= FlushBatch

\* Recorder.Record, called by the deferred function of forward.
Record(l) ==
  /\ pc[l] = "serving"
  /\ buf' = buf \cup {l}
  /\ Goto(l, IF Full(buf') THEN "flush" ELSE "done")
  /\ UNCHANGED <<batch, entered, dbVars>>

-----------------------------------------------------------------------------
(* Recorder.Flush, by any goroutine.                                       *)

AfterFlush(f) ==
  IF f \in Logs THEN "done" ELSE IF f = Loop THEN "wait" ELSE "closeStore"

\* Variant with a bug: the buffer keeps what the batch has.
BufferKept == UNCHANGED buf
EmptyBuffer == buf' = {}

\* Under the lock: an empty buffer ends the flush, any other becomes the batch.
Swap(f) ==
  /\ pc[f] = "flush"
  /\ EmptyBuffer
  /\ batch' = [batch EXCEPT ![f] = buf]
  /\ Goto(f, IF buf = {} THEN AfterFlush(f) ELSE "write")
  /\ UNCHANGED <<entered, dbVars>>

\* Variant with a bug: the logs of requests without a key are counted too.
CountsAll(l) == TRUE
Counts(l) == l \in Keyed

StoreIsOpen == pc[Closer] \notin {"exit", "down"}

\* AddUsageLog succeeds; a log without a key is done with.
AddUsageLog(f) ==
  /\ pc[f] = "write"
  /\ StoreIsOpen
  /\ \E l \in batch[f] :
       /\ rows' = [rows EXCEPT ![l] = @ + 1]
       /\ batch' = [batch EXCEPT ![f] = @ \ {l}]
       /\ IF Counts(l)
          THEN entered' = [entered EXCEPT ![f] = l] /\ Goto(f, "count")
          ELSE UNCHANGED <<entered, pc>>
  /\ UNCHANGED <<buf, totals, excused>>

\* Variant with a bug: the totals are added to even so.
CountUnwritten(f, l) ==
  IF l \in Keyed
  THEN entered' = [entered EXCEPT ![f] = l] /\ Goto(f, "count")
  ELSE UNCHANGED <<entered, pc>>
NextLog(f, l) == UNCHANGED <<entered, pc>>

\* AddUsageLog fails: the log is dropped.
AddUsageLogFails(f) ==
  /\ pc[f] = "write"
  /\ \E l \in batch[f] :
       /\ batch' = [batch EXCEPT ![f] = @ \ {l}]
       /\ NextLog(f, l)
       /\ Excuse({l})
  /\ UNCHANGED <<buf, rows, totals>>

\* AddUsage; its error is ignored.
AddUsage(f) ==
  /\ pc[f] = "count"
  /\ \/ /\ StoreIsOpen
        /\ totals' = [totals EXCEPT ![entered[f]] = @ + 1]
        /\ UNCHANGED excused
     \/ /\ Excuse({entered[f]})
        /\ UNCHANGED totals
  /\ entered' = [entered EXCEPT ![f] = NoLog]
  /\ Goto(f, "write")
  /\ UNCHANGED <<buf, batch, rows>>

\* The batch is written.
FlushReturns(f) ==
  /\ pc[f] = "write"
  /\ batch[f] = {}
  /\ Goto(f, AfterFlush(f))
  /\ UNCHANGED <<buf, batch, entered, dbVars>>

-----------------------------------------------------------------------------
(* The loop, and the end of server.Run.                                    *)

\* Variant with a bug: the ticker leaves small buffers alone.
FullBufferDue == Full(buf)
Due == TRUE

\* The ticker fires; select may prefer it to a closed stop.
LoopTicks ==
  /\ pc[Loop] = "wait"
  /\ Due
  /\ Goto(Loop, "flush")
  /\ UNCHANGED <<buf, batch, entered, dbVars>>

Stopping == Flushing \cup {"join", "closeStore", "exit"}

LoopStops ==
  /\ pc[Loop] = "wait"
  /\ pc[Closer] \in Stopping
  /\ Goto(Loop, "stopped")
  /\ UNCHANGED <<buf, batch, entered, dbVars>>

\* The context of Run is cancelled and Shutdown begins.
Shutdown ==
  /\ pc[Closer] = "serve"
  /\ Goto(Closer, "drain")
  /\ UNCHANGED <<buf, batch, entered, dbVars>>

Active(l) == pc[l] \in Flushing \cup {"serving"}

\* All handlers have returned; Recorder.Close closes stop.
Drained ==
  /\ pc[Closer] = "drain"
  /\ \A l \in Logs : ~Active(l)
  /\ Goto(Closer, "join")
  /\ UNCHANGED <<buf, batch, entered, dbVars>>

\* Recorder.Close runs while requests do: the ten seconds are over, or Serve
\* failed and nobody waits for them.
CutOff ==
  /\ pc[Closer] \in {"serve", "drain"}
  /\ Excuse(Outstanding)
  /\ Goto(Closer, "join")
  /\ UNCHANGED <<buf, batch, entered, rows, totals>>

\* Variant with a bug: Close does not wait for the loop.
NobodyAwaited == TRUE
LoopReturned == pc[Loop] = "stopped"

\* Close has waited for the loop and flushes what is left.
LastFlush ==
  /\ pc[Closer] = "join"
  /\ LoopReturned
  /\ Goto(Closer, "flush")
  /\ UNCHANGED <<buf, batch, entered, dbVars>>

\* The deferred Store.Close.
CloseStore ==
  /\ pc[Closer] = "closeStore"
  /\ Goto(Closer, "exit")
  /\ UNCHANGED <<buf, batch, entered, dbVars>>

-----------------------------------------------------------------------------
(* The process.                                                            *)

\* What is only in memory is gone.
ProcessEnds ==
  /\ buf' = {}
  /\ batch' = [f \in Flushers |-> {}]
  /\ entered' = [f \in Flushers |-> NoLog]
  /\ pc' = [f \in Flushers |->
              IF f \notin Logs THEN "down"
              ELSE IF pc[f] = "serving" THEN "dead"
              ELSE IF pc[f] \in Flushing THEN "done" ELSE pc[f]]
  /\ UNCHANGED <<rows, totals>>

Exit == pc[Closer] = "exit" /\ ProcessEnds /\ UNCHANGED excused

Crash == pc[Closer] # "down" /\ ProcessEnds /\ Excuse(Outstanding)

\* NewRecorder in the next process.
Start ==
  /\ pc[Closer] = "down"
  /\ pc' = [pc EXCEPT ![Loop] = "wait", ![Closer] = "serve"]
  /\ UNCHANGED <<buf, batch, entered, dbVars>>

-----------------------------------------------------------------------------

Flush(f) == \/ Swap(f) \/ AddUsageLog(f) \/ AddUsageLogFails(f)
            \/ AddUsage(f) \/ FlushReturns(f)

Next ==
  \/ \E l \in Logs : Arrive(l) \/ Record(l)
  \/ \E f \in Flushers : Flush(f)
  \/ LoopTicks \/ LoopStops
  \/ Shutdown \/ Drained \/ CutOff \/ LastFlush \/ CloseStore
  \/ Exit \/ Crash \/ Start

Spec == Init /\ [][Next]_vars

\* The scheduler runs every goroutine and the ticker ticks; no handler, signal
\* or crash is ever due.
FairSpec ==
  /\ Spec
  /\ \A f \in Flushers : WF_vars(Flush(f))
  /\ WF_vars(LoopTicks \/ LoopStops)
  /\ WF_vars(LastFlush)

-----------------------------------------------------------------------------
(* Properties.                                                             *)

\* However many flushes overlap, a usage log is written once, and the totals
\* of its key are added to once and only after it.
BilledOnce == \A l \in Logs : rows[l] <= 1 /\ totals[l] <= rows[l]

\* Every log beyond a batch in the buffer has a request on its way to flush it.
BufferBounded ==
  Cardinality(buf) < FlushBatch + Cardinality({l \in Logs : pc[l] = "flush"})

\* An orderly stop loses nothing: once the store is closed every recorded log
\* is in the database, unless a crash or a failed write took it or it was not
\* yet there when Close began with requests running.
NothingLostByStop ==
  pc[Closer] \in {"exit", "down"} =>
    \A l \in Logs : Recorded(l) => Settled(l) \/ l \in excused

\* A recorded log gets to the database, without another request to push it.
EventuallySettled ==
  \A l \in Logs : Recorded(l) ~> (Settled(l) \/ l \in excused)

\* Buffers, batches and tables together are one ledger, on which a log moves
\* forward only.
Entry(l) ==
  IF ~Recorded(l) THEN "none"
  ELSE IF l \in buf \/ \E f \in Flushers : l \in batch[f] THEN "owed"
  ELSE IF \E f \in Flushers : entered[f] = l THEN "entered"
  ELSE IF Settled(l) THEN "settled" ELSE "lost"

Book == INSTANCE Ledger WITH entry <- [l \in Logs |-> Entry(l)]
ImplementsLedger == Book!Spec

=============================================================================
