------------------------------- MODULE Backoff -------------------------------
(***************************************************************************)
(* The cooldown that Pool.ReportFailure (internal/pool/pool.go) gives an   *)
(* account at its n-th failure in a row: baseBackoff << (n - 1), cut to    *)
(* maxBackoff when it is larger or negative, in the 64-bit nanoseconds of  *)
(* a Go time.Duration.  A word is the set of the positions of its one      *)
(* bits; both constants are multiples of 2^9 ns.                           *)
(***************************************************************************)
LOCAL INSTANCE Integers

TimesTwoTo9(n) == {i + 9 : i \in {j \in 0..30 : (n \div 2^j) % 2 = 1}}

\* 15 s and 10 min in nanoseconds.
BaseBackoff64 == TimesTwoTo9(29296875)
MaxBackoff64 == TimesTwoTo9(1171875000)

\* Go's << drops the bits that leave the word.
ShiftLeft64(w, n) == {i + n : i \in w} \cap (0..63)

Negative64(w) == 63 \in w

\* For words that are not negative: the highest bit they do not share decides.
Greater64(v, w) == \E i \in v \ w : \A j \in w \ v : j < i

Backoff64(n) ==
  LET b == ShiftLeft64(BaseBackoff64, n - 1)
  IN  IF Negative64(b) \/ Greater64(b, MaxBackoff64) THEN MaxBackoff64 ELSE b

\* What the comment at pool.go:361 says of it, for n in 1..55: 15 s doubled
\* n - 1 times, at most 10 min.
ASSUME BackoffUpTo55 ==
  \A n \in 1..55 :
    Backoff64(n) = IF n <= 6 THEN TimesTwoTo9(29296875 * 2^(n - 1)) ELSE MaxBackoff64

\* Below the seventh failure nothing is lost or cut, and the most is not 0.
ASSUME BackoffBelowMax ==
  /\ \A n \in 1..6 : Backoff64(n) \notin {{}, MaxBackoff64}
  /\ MaxBackoff64 # {}

=============================================================================
