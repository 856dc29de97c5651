---------------------------- MODULE AccountSlots ----------------------------
(***************************************************************************)
(* What TryAcquire and Release promise: every account is a bounded         *)
(* semaphore, a request holds at most one slot at a time, and taking or    *)
(* giving a slot is one atomic step.  Forward implements it with an atomic *)
(* counter, a load and a compare-and-swap.                                 *)
(***************************************************************************)
EXTENDS Naturals, FiniteSets

CONSTANTS Requests, Accounts, MaxConc

VARIABLE holders    \* the requests that hold a slot of each account

Init == holders = [a \in Accounts |-> {}]

Take(r, a) ==
  /\ \A b \in Accounts : r \notin holders[b]
  /\ Cardinality(holders[a]) < MaxConc
  /\ holders' = [holders EXCEPT ![a] = @ \cup {r}]

Give(r, a) ==
  /\ r \in holders[a]
  /\ holders' = [holders EXCEPT ![a] = @ \ {r}]

Next == \E r \in Requests, a \in Accounts : Take(r, a) \/ Give(r, a)

Spec == Init /\ [][Next]_holders

=============================================================================
