---------------------------- MODULE BillingProofs ----------------------------
(***************************************************************************)
(* Theorems about Billing for any finite set of requests and any batch     *)
(* size: types, the single billing of a log, and the implementation of     *)
(* Ledger.                                                                 *)
(***************************************************************************)
EXTENDS Billing, FiniteSetTheorems, TLAPS

\* A goroutine has a batch only while it writes, and an entered log only while
\* it counts.
Located == \A f \in Flushers :
  /\ pc[f] \notin {"write", "count"} => batch[f] = {}
  /\ pc[f] = "count" <=> entered[f] # NoLog

\* A recorded log that the database does not have is in one place.
InBuffer(l) == l \in buf
InBatch(f, l) == l \in batch[f]
InEntry(f, l) == entered[f] = l

OnePlace == \A l \in Logs :
  /\ InBuffer(l) => \A f \in Flushers : ~InBatch(f, l) /\ ~InEntry(f, l)
  /\ \A f, g \in Flushers :
       /\ InBatch(f, l) => ~InEntry(g, l)
       /\ f # g => ~(InBatch(f, l) /\ InBatch(g, l))
       /\ f # g => ~(InEntry(f, l) /\ InEntry(g, l))

Held(l) == InBuffer(l) \/ \E f \in Flushers : InBatch(f, l) \/ InEntry(f, l)

\* And the database knows of a log what its place says.
Written == \A l \in Logs :
  /\ Held(l) => Recorded(l)
  /\ ~Recorded(l) => rows[l] = 0 /\ totals[l] = 0
  /\ InBuffer(l) => rows[l] = 0 /\ totals[l] = 0
  /\ \A f \in Flushers : InBatch(f, l) => rows[l] = 0 /\ totals[l] = 0
  /\ \A f \in Flushers : InEntry(f, l) => rows[l] = 1 /\ totals[l] = 0

\* The goroutines of a process end together.
Together == pc[Closer] = "down" => pc[Loop] = "down"

Inv == TypeOK /\ Located /\ OnePlace /\ Written /\ BilledOnce /\ Together

USE NamesAssumption

\* Nothing is recorded at first.
LEMMA InitInv == Init => Inv
BY LogsAssumption
DEF Init, Inv, TypeOK, Located, OnePlace, Written, BilledOnce, Together, InBuffer, InBatch,
    InEntry, Held, Recorded, Flushers, RequestSteps, LoopSteps, CloserSteps,
    Flushing

\* No goroutine ends alone.
LEMMA TogetherStep ==
  ASSUME Inv, NEW f \in Flushers, NEW step, step # "down", pc[f] # "down",
         pc' = pc \/ pc' = [pc EXCEPT ![f] = step]
  PROVE  Together'
BY DEF Inv, TypeOK, Together, Flushers

-----------------------------------------------------------------------------
(* The steps by what they move.                                            *)

Steps == RequestSteps \cup LoopSteps \cup CloserSteps

\* Steps that move no log: only the pc of one goroutine changes, and whether
\* a request is recorded does not.
Moves(f, step) ==
  /\ f \in Flushers
  /\ pc[f] \notin {"write", "count"} \/ (batch[f] = {} /\ entered[f] = NoLog)
  /\ step \in IF f \in Logs THEN RequestSteps
              ELSE IF f = Loop THEN LoopSteps ELSE CloserSteps
  /\ step \notin {"count", "down"} /\ pc[f] # "down"
  /\ f \in Logs => (step \in {"idle", "serving", "dead"} <=> ~Recorded(f))
  /\ pc' = [pc EXCEPT ![f] = step]
  /\ UNCHANGED <<buf, batch, entered, rows, totals>>

Idle == \/ \E l \in Logs : Arrive(l)
        \/ \E f \in Flushers : FlushReturns(f)
        \/ LoopTicks \/ LoopStops
        \/ Shutdown \/ Drained \/ CutOff \/ LastFlush \/ CloseStore

\* Every step without a log is such a move.
LEMMA IdleMoves ==
  ASSUME Inv, Idle
  PROVE  /\ \E f \in Flushers, step \in Steps : Moves(f, step)
         /\ excused' \subseteq Logs
<1> USE DEF Inv, TypeOK, Located, Moves, Goto, dbVars, Flushers, Flushing,
            Steps, RequestSteps, LoopSteps, CloserSteps, Recorded
<1>1. ASSUME NEW l \in Logs, Arrive(l)
      PROVE  Moves(l, "serving") /\ excused' \subseteq Logs
  BY <1>1 DEF Arrive
<1>2. ASSUME NEW f \in Flushers, FlushReturns(f)
      PROVE  Moves(f, AfterFlush(f)) /\ AfterFlush(f) \in Steps /\ excused' \subseteq Logs
  BY <1>2 DEF FlushReturns, AfterFlush
<1>3. CASE LoopTicks
  BY <1>3 DEF LoopTicks, Due
<1>4. CASE LoopStops
  BY <1>4 DEF LoopStops
<1>5. CASE Shutdown \/ Drained \/ LastFlush \/ CloseStore
  BY <1>5 DEF Shutdown, Drained, LastFlush, CloseStore, LoopReturned
<1>6. CASE CutOff
  BY <1>6 DEF CutOff, Excuse, Outstanding
<1>7. "serving" \in Steps /\ Logs \subseteq Flushers
  OBVIOUS
<1> HIDE DEF Inv, TypeOK, Located, Moves, Flushers, Steps
<1> QED
  BY <1>1, <1>2, <1>3, <1>4, <1>5, <1>6, <1>7 DEF Idle

\* And such a move keeps the invariant and the ledger.
LEMMA IdleStep ==
  ASSUME Inv, NEW f \in Flushers, NEW step \in Steps, Moves(f, step),
         excused' \subseteq Logs
  PROVE  Inv' /\ \A l \in Logs : Entry(l)' = Entry(l)
<1>1. \A l \in Logs : Recorded(l)' <=> Recorded(l)
  BY DEF Moves, Recorded, Inv, TypeOK, Flushers
<1>2. \A l \in Logs : Held(l)' <=> Held(l)
  BY DEF Moves, Held, InBuffer, InBatch, InEntry
<1>3. TypeOK'
  BY DEF Moves, Inv, TypeOK, Steps, Flushers
<1>4. Located'
  BY DEF Moves, Inv, TypeOK, Located
<1>5. OnePlace'
  BY DEF Moves, Inv, OnePlace, InBuffer, InBatch, InEntry
<1>6. Written'
  BY <1>1, <1>2 DEF Moves, Inv, Written, InBuffer, InBatch, InEntry
<1>7. BilledOnce'
  BY DEF Moves, Inv, BilledOnce
<1>8. \A l \in Logs : Entry(l)' = Entry(l)
  BY <1>1 DEF Moves, Entry, Settled
<1>9. Together'
  BY TogetherStep DEF Moves
<1> QED
  BY <1>9, <1>3, <1>4, <1>5, <1>6, <1>7, <1>8 DEF Inv

\* Record puts the log into the buffer.
LEMMA RecordStep ==
  ASSUME Inv, NEW l \in Logs, Record(l)
  PROVE  /\ Inv'
         /\ Entry(l) = "none" /\ Entry(l)' = "owed"
         /\ \A k \in Logs \ {l} : Entry(k)' = Entry(k)
<1> DEFINE step == IF Full(buf') THEN "flush" ELSE "done"
<1>1. /\ pc[l] = "serving"
      /\ buf' = buf \cup {l}
      /\ pc' = [pc EXCEPT ![l] = step]
      /\ step \in {"flush", "done"}
      /\ UNCHANGED <<batch, entered, rows, totals, excused>>
  BY DEF Record, Goto, dbVars
<1> HIDE DEF step
<1>2. ~Recorded(l) /\ Recorded(l)' /\ ~Held(l)
  BY <1>1 DEF Recorded, Inv, Written, TypeOK, Flushers
<1>3. \A k \in Logs \ {l} : Recorded(k)' <=> Recorded(k)
  BY <1>1 DEF Recorded, Inv, TypeOK, Flushers
<1>4. TypeOK'
  BY <1>1 DEF Inv, TypeOK, Flushers, RequestSteps, Flushing
<1>5. Located'
  BY <1>1 DEF Inv, TypeOK, Located
<1>6. OnePlace'
  BY <1>1, <1>2 DEF Inv, OnePlace, InBuffer, InBatch, InEntry, Held
<1>7. Written'
  BY <1>1, <1>2, <1>3 DEF Inv, Written, InBuffer, InBatch, InEntry, Held
<1>8. BilledOnce'
  BY <1>1 DEF Inv, BilledOnce
<1>9. \A k \in Logs \ {l} : Entry(k)' = Entry(k)
  BY <1>1, <1>3 DEF Entry, Settled
<1>10. Entry(l) = "none" /\ Entry(l)' = "owed"
  BY <1>1, <1>2 DEF Entry
<1>11. Together'
  BY <1>1, TogetherStep DEF Flushers
<1> QED
  BY <1>11, <1>4, <1>5, <1>6, <1>7, <1>8, <1>9, <1>10 DEF Inv

\* Swap moves the buffer into a batch.
LEMMA SwapStep ==
  ASSUME Inv, NEW f \in Flushers, Swap(f)
  PROVE  Inv' /\ \A l \in Logs : Entry(l)' = Entry(l)
<1> DEFINE step == IF buf = {} THEN AfterFlush(f) ELSE "write"
<1>1. /\ pc[f] = "flush"
      /\ buf' = {}
      /\ batch' = [batch EXCEPT ![f] = buf]
      /\ pc' = [pc EXCEPT ![f] = step]
      /\ step = "write" \/ buf = {}
      /\ UNCHANGED <<entered, rows, totals, excused>>
  BY DEF Swap, EmptyBuffer, Goto, dbVars
<1>2. /\ step # "count" /\ step \in Steps
      /\ f \in Logs => step \in {"write", "done"}
      /\ f = Loop => step \in {"write", "wait"}
      /\ f = Closer => step \in {"write", "closeStore"}
  BY DEF AfterFlush, Steps, RequestSteps, LoopSteps, CloserSteps, Flushing, Flushers
<1> HIDE DEF step
<1>3. batch[f] = {} /\ entered[f] = NoLog
  BY <1>1 DEF Inv, Located
<1>4. \A l \in Logs : Recorded(l)' <=> Recorded(l)
  BY <1>1, <1>2 DEF Recorded, Inv, TypeOK, Flushers
<1>5. TypeOK'
  BY <1>1, <1>2
  DEF Inv, TypeOK, Flushers, Steps, RequestSteps, LoopSteps, CloserSteps, Flushing
<1>6. Located'
  BY <1>1, <1>2, <1>3 DEF Inv, TypeOK, Located
<1>7. OnePlace'
  BY <1>1, <1>3 DEF Inv, TypeOK, OnePlace, InBuffer, InBatch, InEntry
<1>8. \A l \in Logs : Held(l)' <=> Held(l)
  BY <1>1, <1>3 DEF Held, InBuffer, InBatch, InEntry, Inv, TypeOK
<1>9. Written'
  BY <1>1, <1>3, <1>4, <1>8
  DEF Inv, TypeOK, Written, InBuffer, InBatch, InEntry
<1>10. BilledOnce'
  BY <1>1 DEF Inv, BilledOnce
<1>11. \A l \in Logs : Entry(l)' = Entry(l)
  BY <1>1, <1>3, <1>4 DEF Entry, Settled, Inv, TypeOK
<1>12. Together'
  BY <1>1, <1>2, TogetherStep DEF Flushers
<1> QED
  BY <1>12, <1>5, <1>6, <1>7, <1>9, <1>10, <1>11 DEF Inv

\* AddUsageLog writes one log of a batch.
LEMMA AddUsageLogStep ==
  ASSUME Inv, NEW f \in Flushers, AddUsageLog(f)
  PROVE  /\ Inv'
         /\ \E l \in Logs :
              /\ Entry(l) = "owed"
              /\ Entry(l)' = IF l \in Keyed THEN "entered" ELSE "settled"
              /\ \A k \in Logs \ {l} : Entry(k)' = Entry(k)
<1>1. PICK l \in batch[f] :
        /\ rows' = [rows EXCEPT ![l] = @ + 1]
        /\ batch' = [batch EXCEPT ![f] = @ \ {l}]
        /\ IF l \in Keyed
           THEN entered' = [entered EXCEPT ![f] = l] /\ Goto(f, "count")
           ELSE UNCHANGED <<entered, pc>>
  BY DEF AddUsageLog, Counts
<1>2. /\ pc[f] = "write"
      /\ UNCHANGED <<buf, totals, excused>>
  BY DEF AddUsageLog
<1>3. /\ l \in Logs
      /\ entered[f] = NoLog
      /\ ~InBuffer(l)
      /\ \A g \in Flushers : ~InEntry(g, l) /\ (g # f => ~InBatch(g, l))
      /\ Recorded(l) /\ rows[l] = 0 /\ totals[l] = 0
  BY <1>1, <1>2
  DEF Inv, TypeOK, Located, OnePlace, Written, Held, InBatch, InBuffer
<1>4. \A k \in Logs : Recorded(k)' <=> Recorded(k)
  BY <1>1, <1>2 DEF Recorded, Goto, Inv, TypeOK, Flushers
<1>5. \A k \in Logs, g \in Flushers :
        /\ InBatch(g, k)' <=> InBatch(g, k) /\ ~(g = f /\ k = l)
        /\ InEntry(g, k)' <=> \/ InEntry(g, k)
                              \/ g = f /\ k = l /\ l \in Keyed
        /\ InBuffer(k)' <=> InBuffer(k)
  BY <1>1, <1>2, <1>3 DEF InBatch, InEntry, InBuffer, Inv, TypeOK
<1>6. TypeOK'
  <2>1. rows' \in [Logs -> Nat] /\ batch' \in [Flushers -> SUBSET Logs]
    BY <1>1, <1>3 DEF Inv, TypeOK
  <2>2. entered' \in [Flushers -> Keyed \cup {NoLog}]
    BY <1>1, <1>3 DEF Inv, TypeOK
  <2>3. CASE l \in Keyed
    BY <1>1, <1>2, <2>1, <2>2, <2>3
    DEF Inv, TypeOK, Goto, Flushers, RequestSteps, LoopSteps, CloserSteps, Flushing
  <2>4. CASE l \notin Keyed
    BY <1>1, <1>2, <2>1, <2>2, <2>4 DEF Inv, TypeOK
  <2> QED
    BY <2>3, <2>4
<1>7. Located'
  BY <1>1, <1>2, <1>3 DEF Inv, TypeOK, Located, Goto
<1>8. OnePlace'
  BY <1>3, <1>5 DEF Inv, OnePlace
<1>9. Written'
  <2>1. \A k \in Logs : rows'[k] = IF k = l THEN 1 ELSE rows[k]
    BY <1>1, <1>3 DEF Inv, TypeOK
  <2>2. \A k \in Logs : Held(k)' => Held(k)
    BY <1>1, <1>3, <1>5 DEF Held, InBatch
  <2> QED
    BY <1>2, <1>3, <1>4, <1>5, <2>1, <2>2 DEF Inv, Written, OnePlace
<1>10. BilledOnce'
  BY <1>1, <1>2, <1>3 DEF Inv, TypeOK, BilledOnce
<1>11. \A k \in Logs : k # l => Entry(k)' = Entry(k)
  <2> SUFFICES ASSUME NEW k \in Logs, k # l
               PROVE  Entry(k)' = Entry(k)
    OBVIOUS
  <2>1. Settled(k)' <=> Settled(k)
    BY <1>1, <1>2, <1>3 DEF Settled, Inv, TypeOK
  <2> QED
    BY <1>4, <1>5, <2>1 DEF Entry, InBatch, InEntry, InBuffer
<1>12. Entry(l) = "owed"
  BY <1>1, <1>3 DEF Entry, InBatch
<1>13. Entry(l)' = IF l \in Keyed THEN "entered" ELSE "settled"
  <2>1. /\ Recorded(l)' /\ ~InBuffer(l)'
        /\ \A g \in Flushers : ~InBatch(g, l)'
        /\ (\E g \in Flushers : InEntry(g, l)') <=> l \in Keyed
    BY <1>3, <1>4, <1>5
  <2>2. l \notin Keyed => Settled(l)'
    BY <1>1, <1>3 DEF Settled, Inv, TypeOK
  <2> QED
    BY <2>1, <2>2 DEF Entry, InBatch, InEntry, InBuffer
<1>14. Together'
  BY <1>1, <1>2, TogetherStep DEF Goto
<1> QED
  BY <1>14, <1>3, <1>6, <1>7, <1>8, <1>9, <1>10, <1>11, <1>12, <1>13 DEF Inv

\* A failed AddUsageLog drops one log of a batch.
LEMMA AddUsageLogFailsStep ==
  ASSUME Inv, NEW f \in Flushers, AddUsageLogFails(f)
  PROVE  /\ Inv'
         /\ \E l \in Logs :
              /\ Entry(l) = "owed" /\ Entry(l)' = "lost"
              /\ \A k \in Logs \ {l} : Entry(k)' = Entry(k)
<1>1. PICK l \in batch[f] :
        /\ batch' = [batch EXCEPT ![f] = @ \ {l}]
        /\ UNCHANGED <<entered, pc>>
        /\ excused' = excused \cup {l}
  BY DEF AddUsageLogFails, NextLog, Excuse
<1>2. /\ pc[f] = "write"
      /\ UNCHANGED <<buf, rows, totals>>
  BY DEF AddUsageLogFails
<1>3. /\ l \in Logs
      /\ ~InBuffer(l)
      /\ \A g \in Flushers : ~InEntry(g, l) /\ (g # f => ~InBatch(g, l))
      /\ Recorded(l) /\ rows[l] = 0
  BY <1>1, <1>2
  DEF Inv, TypeOK, OnePlace, Written, Held, InBatch, InBuffer
<1>4. \A k \in Logs, g \in Flushers :
        /\ InBatch(g, k)' <=> InBatch(g, k) /\ ~(g = f /\ k = l)
        /\ InEntry(g, k)' <=> InEntry(g, k)
        /\ InBuffer(k)' <=> InBuffer(k)
        /\ Recorded(k)' <=> Recorded(k)
        /\ Settled(k)' <=> Settled(k)
  BY <1>1, <1>2, <1>3
  DEF InBatch, InEntry, InBuffer, Recorded, Settled, Inv, TypeOK
<1>5. TypeOK'
  BY <1>1, <1>2, <1>3 DEF Inv, TypeOK
<1>6. Located'
  BY <1>1, <1>2 DEF Inv, TypeOK, Located
<1>7. OnePlace'
  BY <1>4 DEF Inv, OnePlace
<1>8. Written'
  BY <1>2, <1>4 DEF Inv, Written, Held
<1>9. BilledOnce'
  BY <1>2 DEF Inv, BilledOnce
<1>10. \A k \in Logs : k # l => Entry(k)' = Entry(k)
  BY <1>4 DEF Entry, InBatch, InEntry, InBuffer
<1>11. Entry(l) = "owed"
  BY <1>1, <1>3 DEF Entry
<1>12. Entry(l)' = "lost"
  <2>1. /\ Recorded(l)' /\ ~InBuffer(l)' /\ ~Settled(l)'
        /\ \A g \in Flushers : ~InBatch(g, l)' /\ ~InEntry(g, l)'
    BY <1>2, <1>3, <1>4 DEF Settled
  <2> QED
    BY <2>1 DEF Entry, InBatch, InEntry, InBuffer
<1>13. Together'
  BY <1>1, <1>2, TogetherStep
<1> QED
  BY <1>13, <1>3, <1>5, <1>6, <1>7, <1>8, <1>9, <1>10, <1>11, <1>12 DEF Inv

\* AddUsage finishes the log in hand, or fails to.
LEMMA AddUsageStep ==
  ASSUME Inv, NEW f \in Flushers, AddUsage(f)
  PROVE  /\ Inv'
         /\ \E l \in Logs :
              /\ Entry(l) = "entered" /\ Entry(l)' \in {"settled", "lost"}
              /\ \A k \in Logs \ {l} : Entry(k)' = Entry(k)
<1>0. PICK l \in Logs : l = entered[f] /\ l \in Keyed /\ pc[f] = "count"
  BY LogsAssumption DEF AddUsage, Inv, TypeOK, Located
<1>1. /\ pc[f] = "count"
      /\ \/ totals' = [totals EXCEPT ![l] = @ + 1] /\ UNCHANGED excused
         \/ totals' = totals /\ excused' = excused \cup {l}
      /\ entered' = [entered EXCEPT ![f] = NoLog]
      /\ pc' = [pc EXCEPT ![f] = "write"]
      /\ UNCHANGED <<buf, batch, rows>>
  BY <1>0 DEF AddUsage, Goto, Excuse
<1>2. /\ entered[f] = l /\ l \in Keyed
      /\ ~InBuffer(l)
      /\ \A g \in Flushers : ~InBatch(g, l) /\ (g # f => ~InEntry(g, l))
      /\ Recorded(l) /\ rows[l] = 1 /\ totals[l] = 0
  BY <1>0 DEF Inv, OnePlace, Written, Held, InEntry
<1>3. \A k \in Logs, g \in Flushers :
        /\ InBatch(g, k)' <=> InBatch(g, k)
        /\ InEntry(g, k)' <=> InEntry(g, k) /\ ~(g = f /\ k = l)
        /\ InBuffer(k)' <=> InBuffer(k)
        /\ Recorded(k)' <=> Recorded(k)
  BY <1>1, <1>2
  DEF InBatch, InEntry, InBuffer, Recorded, Inv, TypeOK, Flushers
<1>4. \A k \in Logs : k # l => totals'[k] = totals[k] /\ (Settled(k)' <=> Settled(k))
  BY <1>1, <1>2 DEF Settled, Inv, TypeOK
<1>5. totals'[l] \in {0, 1} /\ totals' \in [Logs -> Nat]
  BY <1>1, <1>2 DEF Inv, TypeOK
<1>6. TypeOK'
  <2>1. entered' \in [Flushers -> Keyed \cup {NoLog}] /\ excused' \subseteq Logs
    BY <1>1, <1>2 DEF Inv, TypeOK
  <2> QED
    BY <1>1, <1>5, <2>1
    DEF Inv, TypeOK, Flushers, RequestSteps, LoopSteps, CloserSteps, Flushing
<1>7. Located'
  BY <1>1 DEF Inv, TypeOK, Located
<1>8. OnePlace'
  BY <1>3 DEF Inv, OnePlace
<1>9. Written'
  BY <1>1, <1>2, <1>3, <1>4 DEF Inv, Written, Held, OnePlace
<1>10. BilledOnce'
  BY <1>1, <1>2, <1>4, <1>5 DEF Inv, BilledOnce
<1>11. \A k \in Logs : k # l => Entry(k)' = Entry(k)
  BY <1>3, <1>4 DEF Entry, InBatch, InEntry, InBuffer
<1>12. Entry(l) = "entered"
  BY <1>2 DEF Entry, InBatch, InBuffer
<1>13. Entry(l)' \in {"settled", "lost"}
  <2>1. /\ Recorded(l)' /\ ~InBuffer(l)'
        /\ \A g \in Flushers : ~InBatch(g, l)' /\ ~InEntry(g, l)'
    BY <1>2, <1>3
  <2> QED
    BY <2>1 DEF Entry, InBatch, InEntry, InBuffer
<1>14. Together'
  BY <1>1, TogetherStep
<1> QED
  BY <1>14, <1>2, <1>6, <1>7, <1>8, <1>9, <1>10, <1>11, <1>12, <1>13 DEF Inv

\* A process that ends forgets every log it holds.
LEMMA ProcessEndsStep ==
  ASSUME Inv, ProcessEnds, excused' \subseteq Logs
  PROVE  /\ Inv'
         /\ \A l \in Logs : Entry(l)' = IF Entry(l) \in {"owed", "entered"}
                                        THEN "lost" ELSE Entry(l)
<1>1. /\ buf' = {}
      /\ batch' = [f \in Flushers |-> {}]
      /\ entered' = [f \in Flushers |-> NoLog]
      /\ UNCHANGED <<rows, totals>>
  BY DEF ProcessEnds
<1>2. /\ pc' \in [Flushers -> RequestSteps \cup LoopSteps \cup CloserSteps]
      /\ pc'[Loop] = "down" /\ pc'[Closer] = "down"
      /\ \A l \in Logs : pc'[l] \in RequestSteps \ {"count"}
      /\ \A l \in Logs : Recorded(l)' <=> Recorded(l)
  BY DEF ProcessEnds, Recorded, Flushers, Inv, TypeOK, RequestSteps, LoopSteps,
         CloserSteps, Flushing
<1>3. \A l \in Logs :
        ~InBuffer(l)' /\ \A f \in Flushers : ~InBatch(f, l)' /\ ~InEntry(f, l)'
  BY <1>1 DEF InBuffer, InBatch, InEntry
<1>4. TypeOK'
  BY <1>1, <1>2 DEF Inv, TypeOK, LoopSteps, CloserSteps
<1>5. Located'
  BY <1>1, <1>2 DEF Located, Flushers
<1>6. OnePlace'
  BY <1>3 DEF OnePlace
<1>7. Written'
  BY <1>1, <1>2, <1>3 DEF Inv, Written, Held
<1>8. BilledOnce'
  BY <1>1 DEF Inv, BilledOnce
<1>9. ASSUME NEW l \in Logs
      PROVE  Entry(l)' = IF Entry(l) \in {"owed", "entered"} THEN "lost" ELSE Entry(l)
  <2>1. Settled(l)' <=> Settled(l)
    BY <1>1 DEF Settled
  <2>2. Entry(l)' = IF ~Recorded(l) THEN "none"
                    ELSE IF Settled(l) THEN "settled" ELSE "lost"
    BY <1>2, <1>3, <2>1 DEF Entry, InBuffer, InBatch, InEntry
  <2>3. Entry(l) \in {"owed", "entered"} => Recorded(l) /\ ~Settled(l)
    BY DEF Entry, Settled, Inv, TypeOK, Written, InBuffer, InBatch, InEntry
  <2> QED
    BY <2>2, <2>3 DEF Entry
<1>10. Together'
  BY <1>2 DEF Together
<1> QED
  BY <1>10, <1>4, <1>5, <1>6, <1>7, <1>8, <1>9 DEF Inv

\* The next process begins with nothing in memory.
LEMMA StartStep ==
  ASSUME Inv, Start
  PROVE  Inv' /\ \A l \in Logs : Entry(l)' = Entry(l)
<1>1. /\ pc' = [pc EXCEPT ![Loop] = "wait", ![Closer] = "serve"]
      /\ UNCHANGED <<buf, batch, entered, rows, totals, excused>>
  BY DEF Start, dbVars
<1>2. \A l \in Logs : Recorded(l)' <=> Recorded(l)
  BY <1>1 DEF Recorded, Inv, TypeOK, Flushers
<1>3. \A l \in Logs : Held(l)' <=> Held(l)
  BY <1>1 DEF Held, InBuffer, InBatch, InEntry
<1>4. TypeOK'
  BY <1>1 DEF Inv, TypeOK, Flushers, LoopSteps, CloserSteps
<1>5. Located'
  <2>1. pc[Closer] = "down" /\ pc[Loop] = "down"
    BY DEF Start, Inv, Together
  <2> QED
    BY <1>1, <2>1 DEF Inv, TypeOK, Located, Flushers
<1>6. OnePlace' /\ Written' /\ BilledOnce'
  BY <1>1, <1>2, <1>3
  DEF Inv, OnePlace, Written, BilledOnce, InBuffer, InBatch, InEntry
<1>7. \A l \in Logs : Entry(l)' = Entry(l)
  BY <1>1, <1>2 DEF Entry, Settled
<1>8. Together'
  BY <1>1 DEF Together, Inv, TypeOK, Flushers
<1> QED
  BY <1>8, <1>4, <1>5, <1>6, <1>7 DEF Inv

\* The ledger depends on the place and the rows of a log only.
LEMMA EntryUnchanged ==
  ASSUME UNCHANGED vars
  PROVE  \A l \in Logs : Entry(l)' = Entry(l)
BY DEF vars, Entry, Recorded, Settled

-----------------------------------------------------------------------------

\* Every step of Next is one of the kinds above.
LEMMA Kinds ==
  ASSUME Next
  PROVE  \/ Idle
         \/ \E l \in Logs : Record(l)
         \/ \E f \in Flushers : \/ Swap(f) \/ AddUsageLog(f)
                                \/ AddUsageLogFails(f) \/ AddUsage(f)
         \/ /\ ProcessEnds
            /\ (pc[Closer] = "exit" /\ UNCHANGED excused) \/ Excuse(Outstanding)
         \/ Start
BY DEF Next, Idle, Flush, Exit, Crash

\* Every step keeps the invariant.
LEMMA InvStep ==
  ASSUME Inv, [Next]_vars
  PROVE  Inv'
<1>1. CASE Idle
  BY <1>1, IdleMoves, IdleStep
<1>2. ASSUME NEW l \in Logs, Record(l)
      PROVE  Inv'
  BY <1>2, RecordStep
<1>3. ASSUME NEW f \in Flushers,
             Swap(f) \/ AddUsageLog(f) \/ AddUsageLogFails(f) \/ AddUsage(f)
      PROVE  Inv'
  BY <1>3, SwapStep, AddUsageLogStep, AddUsageLogFailsStep, AddUsageStep
<1>4. CASE /\ ProcessEnds
           /\ (pc[Closer] = "exit" /\ UNCHANGED excused) \/ Excuse(Outstanding)
  <2>1. excused' \subseteq Logs
    BY <1>4 DEF Inv, TypeOK, Excuse, Outstanding
  <2> QED
    BY <1>4, <2>1, ProcessEndsStep
<1>5. CASE Start
  BY <1>5, StartStep
<1>6. CASE UNCHANGED vars
  BY <1>6
  DEF vars, Inv, TypeOK, Located, OnePlace, Written, BilledOnce, Together,
      InBuffer, InBatch, InEntry, Held, Recorded
<1> QED
  BY <1>1, <1>2, <1>3, <1>4, <1>5, <1>6, Kinds

\* The invariant that the theorems rest on.
LEMMA Invariance == Spec => []Inv
BY InitInv, InvStep, PTL DEF Spec

\* Every variable keeps its type.
THEOREM BillingTypeCorrect == Spec => []TypeOK
BY Invariance, PTL DEF Inv

\* Recorder.Flush, run by any number of goroutines over failing writes,
\* crashes and restarts, writes a log at most once, and the totals of its key
\* after it and at most once.
THEOREM BilledOnceHolds == Spec => []BilledOnce
BY Invariance, PTL DEF Inv

-----------------------------------------------------------------------------
(* The ledger.                                                             *)

book == [l \in Logs |-> Entry(l)]

\* Every step is one of the ledger or none.
LEMMA BookStep ==
  ASSUME Inv, [Next]_vars
  PROVE  Book!Next \/ UNCHANGED book
<1>1. CASE Idle
  BY <1>1, IdleMoves, IdleStep DEF book
<1>2. ASSUME NEW l \in Logs, Record(l)
      PROVE  Book!Incur(l)
  BY <1>2, RecordStep DEF Book!Incur
<1>3. ASSUME NEW f \in Flushers, Swap(f)
      PROVE  UNCHANGED book
  BY <1>3, SwapStep DEF book
<1>4. ASSUME NEW f \in Flushers, AddUsageLog(f)
      PROVE  \E l \in Logs : Book!Enter(l)
  BY <1>4, AddUsageLogStep DEF Book!Enter
<1>5. ASSUME NEW f \in Flushers, AddUsageLogFails(f)
      PROVE  \E lost \in SUBSET Book!Pending : Book!Lose(lost)
  <2>1. PICK l \in Logs :
          /\ Entry(l) = "owed" /\ Entry(l)' = "lost"
          /\ \A k \in Logs \ {l} : Entry(k)' = Entry(k)
    BY <1>5, AddUsageLogFailsStep
  <2>2. {l} \in SUBSET Book!Pending /\ Book!Lose({l})
    BY <2>1 DEF Book!Pending, Book!Lose
  <2> QED
    BY <2>2
<1>6. ASSUME NEW f \in Flushers, AddUsage(f)
      PROVE  \/ \E l \in Logs : Book!Settle(l)
             \/ \E lost \in SUBSET Book!Pending : Book!Lose(lost)
  <2>1. PICK l \in Logs :
          /\ Entry(l) = "entered" /\ Entry(l)' \in {"settled", "lost"}
          /\ \A k \in Logs \ {l} : Entry(k)' = Entry(k)
    BY <1>6, AddUsageStep
  <2>2. CASE Entry(l)' = "settled"
    BY <2>1, <2>2 DEF Book!Settle
  <2>3. CASE Entry(l)' = "lost"
    <3>1. {l} \in SUBSET Book!Pending /\ Book!Lose({l})
      BY <2>1, <2>3 DEF Book!Pending, Book!Lose
    <3> QED
      BY <3>1
  <2> QED
    BY <2>1, <2>2, <2>3
<1>7. CASE /\ ProcessEnds
           /\ (pc[Closer] = "exit" /\ UNCHANGED excused) \/ Excuse(Outstanding)
  <2>1. excused' \subseteq Logs
    BY <1>7 DEF Inv, TypeOK, Excuse, Outstanding
  <2>2. Book!Lose(Book!Pending)
    BY <1>7, <2>1, ProcessEndsStep DEF Book!Pending, Book!Lose
  <2> QED
    BY <2>2 DEF Book!Next
<1>8. CASE Start
  BY <1>8, StartStep DEF book
<1>9. CASE UNCHANGED vars
  BY <1>9, EntryUnchanged DEF book
<1> QED
  BY <1>1, <1>2, <1>3, <1>4, <1>5, <1>6, <1>7, <1>8, <1>9, Kinds
  DEF Book!Next, book

\* Buffers, batches and tables together implement one ledger, on which the
\* usage of a request moves forward only.
THEOREM LedgerImplemented == Spec => ImplementsLedger
<1>1. Init => Book!Init
  BY DEF Init, Book!Init, Entry, Recorded, Flushers
<1>2. Inv /\ [Next]_vars => [Book!Next]_(book)
  BY BookStep
<1> QED
  BY <1>1, <1>2, Invariance, PTL DEF Spec, ImplementsLedger, Book!Spec, book

-----------------------------------------------------------------------------
(* The orderly stop.                                                       *)

\* A recorded log is held, in the database or excused.
Accounted == \A l \in Logs : Recorded(l) => Held(l) \/ Settled(l) \/ l \in excused

\* The steps of Close from the last flush on, and from its swap on.
LastSteps == Flushing \cup {"closeStore", "exit"}
SwappedSteps == {"write", "count", "closeStore", "exit"}

\* Once Close runs, requests run only if what they could still lose was
\* excused at the cut-off; the last flush runs after the loop has returned;
\* what is in the buffer after its swap came too late; and nothing runs while
\* the process is down.
Order ==
  /\ pc[Closer] \in Stopping /\ (\E l \in Logs : Active(l)) =>
       Outstanding \subseteq excused
  /\ pc[Closer] \in LastSteps => pc[Loop] = "stopped"
  /\ pc[Closer] \in SwappedSteps => buf \subseteq excused
  /\ pc[Closer] = "down" => buf = {} /\ \A l \in Logs : ~Active(l)

StopInv == Accounted /\ Order

\* At the start nobody stops.
LEMMA StopInit == Init => StopInv
BY DEF Init, StopInv, Accounted, Order, Recorded, Flushers, Active, Flushing,
       Stopping, LastSteps, SwappedSteps

\* A step does not unsettle a log, so what is outstanding was so before, or
\* belongs to a request that has just come in.
LEMMA SettledStays ==
  ASSUME Inv, [Next]_vars, NEW l \in Logs, Settled(l)
  PROVE  Settled(l)'
<1>1. rows'[l] >= rows[l] /\ totals'[l] >= totals[l]
  <2>1. CASE UNCHANGED <<rows, totals>>
    BY <2>1 DEF Inv, TypeOK
  <2>2. ASSUME NEW f \in Flushers, AddUsageLog(f)
        PROVE  rows'[l] >= rows[l] /\ totals'[l] >= totals[l]
    BY <2>2 DEF AddUsageLog, Inv, TypeOK
  <2>3. ASSUME NEW f \in Flushers, AddUsage(f)
        PROVE  rows'[l] >= rows[l] /\ totals'[l] >= totals[l]
    BY <2>3 DEF AddUsage, Inv, TypeOK
  <2>4. CASE Idle
    BY <2>1, <2>4, IdleMoves DEF Moves
  <2> QED
    BY <2>1, <2>2, <2>3, <2>4, Kinds
    DEF Record, Swap, AddUsageLogFails, ProcessEnds, Start, dbVars, vars
<1> QED
  BY <1>1, InvStep DEF Settled, Inv, TypeOK

\* Nothing that was excused stops being so.
LEMMA ExcusedStays ==
  ASSUME [Next]_vars
  PROVE  excused \subseteq excused'
BY DEF Next, Flush, Arrive, Record, Swap, AddUsageLog, AddUsageLogFails,
       AddUsage, FlushReturns, LoopTicks, LoopStops, Shutdown, Drained, CutOff,
       LastFlush, CloseStore, Exit, Crash, Start, dbVars, vars, Excuse

\* Once the store is closed nothing is held that was not excused.
LEMMA NothingHeld ==
  ASSUME Inv, StopInv, pc[Closer] \in {"exit", "down"},
         NEW l \in Logs, Recorded(l)
  PROVE  Settled(l) \/ l \in excused
<1> SUFFICES ASSUME ~Settled(l), l \notin excused
             PROVE  FALSE
  OBVIOUS
<1>1. Held(l) /\ l \in Outstanding
  BY DEF StopInv, Accounted, Outstanding, Recorded
<1>2. \A k \in Logs : ~Active(k)
  BY <1>1 DEF StopInv, Order, Stopping
<1>3. ~InBuffer(l)
  BY DEF StopInv, Order, SwappedSteps, InBuffer
<1>4. PICK f \in Flushers : InBatch(f, l) \/ InEntry(f, l)
  BY <1>1, <1>3 DEF Held
<1>5. pc[f] \in {"write", "count"}
  BY <1>4, NamesAssumption DEF Inv, Located, InBatch, InEntry
<1>6. f = Loop
  BY <1>2, <1>5 DEF Flushers, Active, Flushing
<1>7. pc[Loop] \in {"stopped", "down"}
  BY DEF StopInv, Order, LastSteps, Inv, Together
<1> QED
  BY <1>5, <1>6, <1>7

\* No step loses sight of a recorded log.
LEMMA AccountedStep ==
  ASSUME Inv, StopInv, [Next]_vars
  PROVE  Accounted'
<1> SUFFICES ASSUME NEW l \in Logs, Recorded(l)'
             PROVE  Held(l)' \/ Settled(l)' \/ l \in excused'
  BY DEF Accounted
<1>0. Recorded(l) => Held(l) \/ Settled(l)' \/ l \in excused'
  BY SettledStays, ExcusedStays DEF StopInv, Accounted
<1>1. CASE Idle
  <2>1. PICK f \in Flushers, step \in Steps : Moves(f, step)
    BY <1>1, IdleMoves
  <2>2. (Recorded(l)' <=> Recorded(l)) /\ (Held(l)' <=> Held(l))
    BY <2>1 DEF Moves, Recorded, Held, InBuffer, InBatch, InEntry, Inv, TypeOK,
                Flushers
  <2> QED
    BY <1>0, <2>2
<1>2. ASSUME NEW k \in Logs, Record(k)
      PROVE  Held(l)' \/ Settled(l)' \/ l \in excused'
  <2>1. l = k \/ (Recorded(l) /\ (Held(l) => Held(l)'))
    BY <1>2 DEF Record, Goto, dbVars, Recorded, Held, InBuffer, InBatch, InEntry,
                Inv, TypeOK, Flushers
  <2>2. l = k => Held(l)'
    BY <1>2 DEF Record, Held, InBuffer
  <2> QED
    BY <1>0, <2>1, <2>2
<1>3. ASSUME NEW f \in Flushers, Swap(f)
      PROVE  Held(l)' \/ Settled(l)' \/ l \in excused'
  <2>1. Recorded(l)
    BY <1>3 DEF Swap, Goto, Recorded, Inv, TypeOK, Flushers
  <2>2. Held(l) => Held(l)'
    BY <1>3 DEF Swap, EmptyBuffer, dbVars, Held, InBuffer, InBatch, InEntry, Inv,
                TypeOK, Located
  <2> QED
    BY <1>0, <2>1, <2>2
<1>4. ASSUME NEW f \in Flushers, AddUsageLog(f)
      PROVE  Held(l)' \/ Settled(l)' \/ l \in excused'
  <2>1. PICK k \in batch[f] :
          /\ rows' = [rows EXCEPT ![k] = @ + 1]
          /\ batch' = [batch EXCEPT ![f] = @ \ {k}]
          /\ IF k \in Keyed
             THEN entered' = [entered EXCEPT ![f] = k] /\ Goto(f, "count")
             ELSE UNCHANGED <<entered, pc>>
    BY <1>4 DEF AddUsageLog, Counts
  <2>2. Recorded(l) /\ UNCHANGED buf /\ pc[f] = "write"
    BY <1>4, <2>1 DEF AddUsageLog, Goto, Recorded, Inv, TypeOK, Flushers
  <2>3. CASE l # k
    <3>1. Held(l) => Held(l)'
      BY <2>1, <2>2, <2>3
      DEF Held, InBuffer, InBatch, InEntry, Inv, TypeOK, Located
    <3> QED
      BY <1>0, <2>2, <3>1
  <2>4. CASE l = k /\ l \in Keyed
    <3>1. InEntry(f, l)'
      BY <2>1, <2>4 DEF InEntry, Inv, TypeOK
    <3> QED
      BY <3>1 DEF Held
  <2>5. CASE l = k /\ l \notin Keyed
    BY <2>1, <2>5 DEF Settled, Inv, TypeOK
  <2> QED
    BY <2>3, <2>4, <2>5
<1>5. ASSUME NEW f \in Flushers, AddUsageLogFails(f)
      PROVE  Held(l)' \/ Settled(l)' \/ l \in excused'
  <2>1. PICK k \in batch[f] :
          /\ batch' = [batch EXCEPT ![f] = @ \ {k}]
          /\ UNCHANGED <<entered, pc, buf>>
          /\ excused' = excused \cup {k}
    BY <1>5 DEF AddUsageLogFails, NextLog, Excuse
  <2>2. Recorded(l) /\ (l # k /\ Held(l) => Held(l)')
    BY <2>1 DEF Recorded, Held, InBuffer, InBatch, InEntry, Inv, TypeOK
  <2> QED
    BY <1>0, <2>1, <2>2
<1>6. ASSUME NEW f \in Flushers, AddUsage(f)
      PROVE  Held(l)' \/ Settled(l)' \/ l \in excused'
  <2>1. Recorded(l) /\ (l # entered[f] /\ Held(l) => Held(l)')
    BY <1>6 DEF AddUsage, Goto, Recorded, Held, InBuffer, InBatch, InEntry, Inv,
                TypeOK, Flushers
  <2>2. l = entered[f] => Settled(l)' \/ l \in excused'
    BY <1>6 DEF AddUsage, Excuse, Settled, Inv, TypeOK, Written, InEntry
  <2> QED
    BY <1>0, <2>1, <2>2
<1>7. CASE /\ ProcessEnds
           /\ (pc[Closer] = "exit" /\ UNCHANGED excused) \/ Excuse(Outstanding)
  <2>1. Recorded(l)
    BY <1>7 DEF ProcessEnds, Recorded, Flushers, Inv, TypeOK, Flushing
  <2>2. CASE pc[Closer] = "exit" /\ UNCHANGED excused
    BY <1>0, <2>1, <2>2, NothingHeld, SettledStays
  <2>3. CASE Excuse(Outstanding)
    BY <2>1, <2>3, SettledStays DEF Excuse, Outstanding, Recorded
  <2> QED
    BY <1>7, <2>2, <2>3
<1>8. CASE Start
  BY <1>0, <1>8 DEF Start, dbVars, Recorded, Held, InBuffer, InBatch, InEntry, Inv,
                    TypeOK, Flushers
<1>9. CASE UNCHANGED vars
  BY <1>0, <1>9 DEF vars, Recorded, Held, InBuffer, InBatch, InEntry
<1> QED
  BY <1>1, <1>2, <1>3, <1>4, <1>5, <1>6, <1>7, <1>8, <1>9, Kinds

\* Once Close runs no request starts.
LEMMA RequestsOnlyEnd ==
  ASSUME Inv, [Next]_vars, NEW l \in Logs, ~Arrive(l)
  PROVE  /\ Active(l)' => Active(l)
         /\ pc'[l] # "idle" => pc[l] # "idle"
<1> USE DEF Inv, TypeOK, Flushers, Active, Flushing, Goto
<1>1. CASE Idle
  BY <1>1 DEF Idle, Arrive, FlushReturns, AfterFlush, LoopTicks, LoopStops, Shutdown,
              Drained, CutOff, LastFlush, CloseStore
<1>2. ASSUME NEW k \in Logs, Record(k)
      PROVE  (Active(l)' => Active(l)) /\ (pc'[l] # "idle" => pc[l] # "idle")
  BY <1>2 DEF Record
<1>3. ASSUME NEW f \in Flushers,
             Swap(f) \/ AddUsageLog(f) \/ AddUsageLogFails(f) \/ AddUsage(f)
      PROVE  (Active(l)' => Active(l)) /\ (pc'[l] # "idle" => pc[l] # "idle")
  BY <1>3 DEF Swap, AfterFlush, AddUsageLog, AddUsageLogFails, NextLog, AddUsage
<1>4. CASE ProcessEnds \/ Start \/ UNCHANGED vars
  BY <1>4 DEF ProcessEnds, Start, vars
<1> QED
  BY <1>1, <1>2, <1>3, <1>4, Kinds

\* Once the listener is closed no log comes to be outstanding.
LEMMA OutstandingShrinks ==
  ASSUME Inv, [Next]_vars, \A l \in Logs : ~Arrive(l)
  PROVE  Outstanding' \subseteq Outstanding
BY RequestsOnlyEnd, SettledStays DEF Outstanding

\* Where Close stands.
LEMMA CloserStep ==
  ASSUME Inv, [Next]_vars
  PROVE  \/ pc'[Closer] = pc[Closer] /\ ~ProcessEnds
         \/ Shutdown \/ Drained \/ CutOff \/ LastFlush \/ CloseStore \/ Flush(Closer)
         \/ ProcessEnds /\ pc'[Closer] = "down"
         \/ Start
<1> USE DEF Inv, TypeOK, Flushers, Goto
<1>1. ASSUME NEW l \in Logs, Arrive(l) \/ Record(l)
      PROVE  pc'[Closer] = pc[Closer]
  BY <1>1 DEF Arrive, Record
<1>2. ASSUME NEW f \in Flushers, f # Closer, Flush(f)
      PROVE  pc'[Closer] = pc[Closer]
  <2>1. CASE Swap(f) \/ FlushReturns(f) \/ AddUsage(f)
    BY <1>2, <2>1 DEF Swap, FlushReturns, AddUsage
  <2>2. CASE AddUsageLog(f)
    BY <1>2, <2>2 DEF AddUsageLog
  <2>3. CASE AddUsageLogFails(f)
    BY <2>3 DEF AddUsageLogFails, NextLog
  <2> QED
    BY <1>2, <2>1, <2>2, <2>3 DEF Flush
<1>3. ASSUME LoopTicks \/ LoopStops
      PROVE  pc'[Closer] = pc[Closer]
  BY <1>3 DEF LoopTicks, LoopStops
<1>4. CASE ProcessEnds
  BY <1>4 DEF ProcessEnds
<1> QED
  BY <1>1, <1>2, <1>3, <1>4 DEF Next, Exit, Crash, vars

\* While requests run after Close has begun, all that is outstanding is excused.
LEMMA CutOffOrder ==
  ASSUME Inv, StopInv, [Next]_vars,
         pc'[Closer] \in Stopping, NEW k \in Logs, Active(k)'
  PROVE  Outstanding' \subseteq excused'
<1> USE DEF Inv, TypeOK, Flushers, Goto, Stopping, Flushing
<1>1. CASE CutOff
  <2>1. Outstanding' = Outstanding
    BY <1>1 DEF CutOff, Outstanding, Settled
  <2> QED
    BY <1>1, <2>1 DEF CutOff, Excuse
<1>2. CASE Drained
  BY <1>2, RequestsOnlyEnd DEF Drained, Arrive
<1>3. CASE pc[Closer] \in Stopping
  <2>1. \A l \in Logs : ~Arrive(l)
    BY <1>3 DEF Arrive
  <2>2. Outstanding \subseteq excused
    BY <1>3, <2>1, RequestsOnlyEnd DEF StopInv, Order
  <2> QED
    BY <2>1, <2>2, OutstandingShrinks, ExcusedStays
<1>4. pc[Closer] \in Stopping \/ CutOff \/ Drained
  BY CloserStep DEF Shutdown, LastFlush, CloseStore, Flush, Swap, AddUsageLog,
     AddUsageLogFails, AddUsage, FlushReturns, Start
<1> QED
  BY <1>1, <1>2, <1>3, <1>4

\* Close flushes only after the loop has returned.
LEMMA LoopOrder ==
  ASSUME Inv, StopInv, [Next]_vars, pc'[Closer] \in LastSteps
  PROVE  pc'[Loop] = "stopped"
<1> USE DEF Inv, TypeOK, Flushers, Goto, LastSteps, Flushing
<1>1. LastFlush \/ pc[Closer] \in LastSteps
  BY CloserStep DEF Shutdown, Drained, CutOff, CloseStore, Flush, Swap, AddUsageLog,
     AddUsageLogFails, AddUsage, FlushReturns, Start
<1>2. pc[Loop] = "stopped"
  BY <1>1 DEF LastFlush, LoopReturned, StopInv, Order
<1>3. CASE Idle
  BY <1>2, <1>3 DEF Idle, Arrive, FlushReturns, LoopTicks, LoopStops, Shutdown,
                    Drained, CutOff, LastFlush, CloseStore
<1>4. ASSUME NEW k \in Logs, Record(k)
      PROVE  pc'[Loop] = "stopped"
  BY <1>2, <1>4 DEF Record
<1>5. ASSUME NEW f \in Flushers,
             Swap(f) \/ AddUsageLog(f) \/ AddUsageLogFails(f) \/ AddUsage(f)
      PROVE  pc'[Loop] = "stopped"
  BY <1>2, <1>5 DEF Swap, AddUsageLog, AddUsageLogFails, NextLog, AddUsage
<1>6. ~ProcessEnds /\ ~Start
  BY <1>1 DEF ProcessEnds, Start, LastFlush
<1> QED
  BY <1>2, <1>3, <1>4, <1>5, <1>6, Kinds DEF vars

\* After the last swap the buffer has excused logs only.
LEMMA BufferOrder ==
  ASSUME Inv, StopInv, [Next]_vars, pc'[Closer] \in SwappedSteps
  PROVE  buf' \subseteq excused'
<1> USE DEF Inv, TypeOK, Flushers, Goto, SwappedSteps, Flushing
<1>1. CASE Swap(Closer)
  BY <1>1 DEF Swap, EmptyBuffer
<1>2. CASE pc[Closer] \in SwappedSteps
  <2>1. buf \subseteq excused
    BY <1>2 DEF StopInv, Order
  <2>2. ASSUME NEW k \in Logs, Record(k)
        PROVE  buf' \subseteq excused'
    <3>1. Active(k) /\ k \in Outstanding
      BY <2>2 DEF Record, Active, Outstanding, Settled, Written, Recorded
    <3>2. k \in excused
      BY <1>2, <3>1 DEF StopInv, Order, Stopping
    <3> QED
      BY <2>1, <2>2, <3>2 DEF Record, dbVars
  <2>3. CASE \A k \in Logs : ~Record(k)
    <3>1. buf' \subseteq buf
      <4>1. CASE Idle
        BY <4>1, IdleMoves DEF Moves
      <4> QED
        BY <2>3, <4>1, Kinds
        DEF Swap, EmptyBuffer, AddUsageLog, AddUsageLogFails, AddUsage, ProcessEnds,
            Start, vars
    <3> QED
      BY <2>1, <3>1, ExcusedStays
  <2> QED
    BY <2>2, <2>3
<1>3. Swap(Closer) \/ pc[Closer] \in SwappedSteps
  BY CloserStep DEF Shutdown, Drained, CutOff, LastFlush, CloseStore, Flush,
     AddUsageLog, AddUsageLogFails, AddUsage, FlushReturns, Start
<1> QED
  BY <1>1, <1>2, <1>3

\* A process that is down has nothing in memory.
LEMMA DownOrder ==
  ASSUME Inv, StopInv, [Next]_vars, pc'[Closer] = "down"
  PROVE  buf' = {} /\ \A l \in Logs : ~Active(l)'
<1> USE DEF Inv, TypeOK, Flushers, Goto, Flushing
<1>1. CASE ProcessEnds
  BY <1>1 DEF ProcessEnds, Active
<1>2. CASE ~ProcessEnds
  <2>1. pc[Closer] = "down"
    BY <1>2, CloserStep
    DEF Shutdown, Drained, CutOff, LastFlush, CloseStore, Flush, Swap, AfterFlush,
        AddUsageLog, AddUsageLogFails, NextLog, AddUsage, FlushReturns, Start
  <2>2. buf = {} /\ \A l \in Logs : ~Active(l)
    BY <2>1 DEF StopInv, Order
  <2>3. \A l \in Logs : ~Active(l)'
    BY <2>1, <2>2, RequestsOnlyEnd DEF Arrive
  <2>4. buf' = {}
    <3>1. CASE Idle
      BY <2>2, <3>1, IdleMoves DEF Moves
    <3>2. \A l \in Logs : ~Record(l)
      BY <2>2 DEF Record, Active
    <3> QED
      BY <1>2, <2>2, <3>1, <3>2, Kinds
      DEF Swap, EmptyBuffer, AddUsageLog, AddUsageLogFails, AddUsage, Start, vars, dbVars
  <2> QED
    BY <2>3, <2>4
<1> QED
  BY <1>1, <1>2

\* Every step keeps the order of the stop.
LEMMA StopStep ==
  ASSUME Inv, StopInv, [Next]_vars
  PROVE  StopInv'
BY AccountedStep, CutOffOrder, LoopOrder, BufferOrder, DownOrder
DEF StopInv, Order, Stopping, LastSteps, SwappedSteps, Flushing

\* Recorder.Close, run after Shutdown has waited for the requests and before
\* Store.Close, leaves nothing behind that was recorded.
THEOREM NothingLostHolds == Spec => []NothingLostByStop
<1>1. Inv /\ StopInv => NothingLostByStop
  BY NothingHeld DEF NothingLostByStop
<1>2. Spec => []StopInv
  BY Invariance, StopInit, StopStep, PTL DEF Spec
<1> QED
  BY <1>1, <1>2, Invariance, PTL

-----------------------------------------------------------------------------
(* The size of the buffer.                                                 *)

Pushers == {l \in Logs : pc[l] = "flush"}

\* The sets that are counted are finite, now and after a step.
LEMMA Countable ==
  ASSUME Inv, Inv'
  PROVE  /\ IsFiniteSet(buf) /\ IsFiniteSet(buf') /\ IsFiniteSet(Pushers) /\ IsFiniteSet(Pushers')
         /\ Cardinality(buf) \in Nat /\ Cardinality(buf') \in Nat
         /\ Cardinality(Pushers) \in Nat /\ Cardinality(Pushers') \in Nat
<1>1. buf \in SUBSET Logs /\ buf' \in SUBSET Logs
  BY DEF Inv, TypeOK
<1>2. Pushers \in SUBSET Logs /\ Pushers' \in SUBSET Logs
  BY DEF Pushers
<1>3. IsFiniteSet(buf) /\ IsFiniteSet(buf') /\ IsFiniteSet(Pushers) /\ IsFiniteSet(Pushers')
  BY <1>1, <1>2, FS_Subset, LogsAssumption
<1> QED
  BY <1>3, FS_CardinalityType

\* Whoever fills the buffer goes to flush it.
LEMMA RecordBounded ==
  ASSUME Inv, Inv', BufferBounded, NEW l \in Logs, Record(l)
  PROVE  BufferBounded'
<1>1. /\ pc \in [Flushers -> RequestSteps \cup LoopSteps \cup CloserSteps]
      /\ pc[l] = "serving" /\ l \in Flushers
      /\ buf' = buf \cup {l}
      /\ pc' = [pc EXCEPT ![l] = IF Full(buf') THEN "flush" ELSE "done"]
  BY DEF Record, Goto, Inv, TypeOK, Flushers
<1>2. Cardinality(buf') <= Cardinality(buf) + 1
  BY <1>1, Countable, FS_AddElement
<1>3. CASE Full(buf')
  <2>1. Pushers' = Pushers \cup {l} /\ l \notin Pushers
    BY <1>1, <1>3 DEF Pushers, Flushers
  <2>2. Cardinality(Pushers') = Cardinality(Pushers) + 1
    BY <2>1, Countable, FS_AddElement
  <2> QED
    BY <1>2, <2>2, Countable, FlushBatchAssumption DEF BufferBounded, Pushers
<1>4. CASE ~Full(buf')
  BY <1>4, Countable, FlushBatchAssumption DEF BufferBounded, Pushers, Full
<1> QED
  BY <1>3, <1>4

\* Nobody leaves the way to a flush but by emptying the buffer.
LEMMA PushersStay ==
  ASSUME Inv, [Next]_vars, \A l \in Logs : ~Record(l)
  PROVE  buf' = {} \/ (buf' = buf /\ Pushers \subseteq Pushers')
<1> USE DEF Inv, TypeOK, Flushers, Pushers, Goto, dbVars
<1>1. CASE Idle
  <2>1. buf' = buf
    BY <1>1, IdleMoves DEF Moves
  <2>2. Pushers \subseteq Pushers'
    BY <1>1
    DEF Idle, Arrive, FlushReturns, LoopTicks, LoopStops, Shutdown, Drained, CutOff,
        LastFlush, CloseStore
  <2> QED
    BY <2>1, <2>2
<1>2. CASE Start
  BY <1>2 DEF Start
<1>3. ASSUME NEW f \in Flushers, AddUsageLog(f) \/ AddUsageLogFails(f) \/ AddUsage(f)
      PROVE  buf' = buf /\ Pushers \subseteq Pushers'
  BY <1>3 DEF AddUsageLog, AddUsageLogFails, NextLog, AddUsage
<1>4. ASSUME NEW f \in Flushers, Swap(f)
      PROVE  buf' = {}
  BY <1>4 DEF Swap, EmptyBuffer
<1>5. CASE ProcessEnds
  BY <1>5 DEF ProcessEnds
<1>6. CASE UNCHANGED vars
  BY <1>6 DEF vars
<1> QED
  BY <1>1, <1>2, <1>3, <1>4, <1>5, <1>6, Kinds

\* Every step keeps the bound.
LEMMA BoundedStep ==
  ASSUME Inv, Inv', BufferBounded, [Next]_vars
  PROVE  BufferBounded'
<1>1. CASE \E l \in Logs : Record(l)
  BY <1>1, RecordBounded
<1>2. CASE buf' = {}
  BY <1>2, Countable, FS_EmptySet, FlushBatchAssumption DEF BufferBounded, Pushers
<1>3. CASE buf' = buf /\ Pushers \subseteq Pushers'
  <2>1. Cardinality(Pushers) <= Cardinality(Pushers')
    BY <1>3, Countable, FS_Subset
  <2> QED
    BY <1>3, <2>1, Countable, FlushBatchAssumption DEF BufferBounded, Pushers
<1> QED
  BY <1>1, <1>2, <1>3, PushersStay

\* Recorder.buf holds less than a batch beyond one log for each request that
\* is about to flush it, whoever else flushes meanwhile.
THEOREM BufferBoundedHolds == Spec => []BufferBounded
<1>1. Init => BufferBounded
  <2> SUFFICES ASSUME Init PROVE BufferBounded
    OBVIOUS
  <2>1. Pushers \in SUBSET Logs
    BY DEF Pushers
  <2>2. Cardinality(Pushers) \in Nat
    BY <2>1, FS_Subset, FS_CardinalityType, LogsAssumption
  <2> QED
    BY <2>2, FS_EmptySet, FlushBatchAssumption DEF Init, BufferBounded, Pushers
<1>2. Inv /\ Inv' /\ BufferBounded /\ [Next]_vars => BufferBounded'
  BY BoundedStep
<1> QED
  BY <1>1, <1>2, Invariance, PTL DEF Spec

=============================================================================
