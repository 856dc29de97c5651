------------------------------- MODULE Ledger -------------------------------
(***************************************************************************)
(* What the billing of a request promises: its usage is owed once the      *)
(* request is recorded, then entered in usage_logs, then added to the      *)
(* totals of its key if it has one; it moves forward only, and may be lost *)
(* before the end.  Billing implements it.                                 *)
(***************************************************************************)
CONSTANTS Logs,     \* the usage logs of all requests
          Keyed     \* those of a request that presented a key

VARIABLE entry      \* how far each log has come

Init == entry = [l \in Logs |-> "none"]

Incur(l) ==
  /\ entry[l] = "none"
  /\ entry' = [entry EXCEPT ![l] = "owed"]

Enter(l) ==
  /\ entry[l] = "owed"
  /\ entry' = [entry EXCEPT ![l] = IF l \in Keyed THEN "entered" ELSE "settled"]

Settle(l) ==
  /\ entry[l] = "entered"
  /\ entry' = [entry EXCEPT ![l] = "settled"]

Pending == {l \in Logs : entry[l] \in {"owed", "entered"}}

\* The process dies, or the database refuses a write.
Lose(lost) == entry' = [l \in Logs |-> IF l \in lost THEN "lost" ELSE entry[l]]

Next == \/ \E l \in Logs : Incur(l) \/ Enter(l) \/ Settle(l)
        \/ \E lost \in SUBSET Pending : Lose(lost)

Spec == Init /\ [][Next]_entry

=============================================================================
