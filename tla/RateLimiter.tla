---------------------------- MODULE RateLimiter ----------------------------
(***************************************************************************)
(* ItemExponentialFailureRateLimiter                                       *)
(* (pkg/util/workqueue/default_rate_limiters.go), the back-off of every    *)
(* rate limited work queue.  A delay is an int64 number of nanoseconds;    *)
(* TLC's integers have 32 bits, so it is a Word, four digits of 16 bits,   *)
(* the lowest first, in two's complement.  The base and the maximal delay  *)
(* are powers of ten, as in DefaultItemBasedRateLimiter (1 ms = 10^6 ns,   *)
(* 1000 s = 10^12 ns).                                                     *)
(***************************************************************************)
EXTENDS Naturals

CONSTANTS
    Items,          \* the queued keys
    BaseExp,        \* baseDelay is 10^BaseExp ns
    MaxExp,         \* maxDelay is 10^MaxExp ns
    MaxFailures     \* bound on the failures of an item

VARIABLES
    failures,       \* the failures counted for each item
    delay           \* the last delay When returned for it, zero after Forget

vars == <<failures, delay>>

Digit == 2^16
Word == [0..3 -> 0..(Digit - 1)]
Zero == [i \in 0..3 |-> 0]
One == [i \in 0..3 |-> IF i = 0 THEN 1 ELSE 0]
Negative(w) == w[3] >= Digit \div 2

\* The smallest and the largest int64.
MinInt64 == [i \in 0..3 |-> IF i = 3 THEN Digit \div 2 ELSE 0]
MaxInt64 == [i \in 0..3 |-> IF i = 3 THEN Digit \div 2 - 1 ELSE Digit - 1]

\* The signed comparison a > b.
Greater(a, b) ==
    IF Negative(a) # Negative(b) THEN Negative(b)
    ELSE \E i \in 0..3 : a[i] > b[i] /\ \A j \in (i + 1)..3 : a[j] = b[j]

\* Multiplication by ten, modulo 2^64.
Times10(w) ==
    LET p[i \in 0..3] == 10 * w[i] + (IF i = 0 THEN 0 ELSE p[i - 1] \div Digit)
    IN  [i \in 0..3 |-> p[i] % Digit]

TimesPow10(w, e) ==
    LET t[i \in 0..e] == IF i = 0 THEN w ELSE Times10(t[i - 1])
    IN  t[e]

\* What time.Duration(math.Pow10(e)) may be: 10^19 and more do not fit, and Go
\* leaves the conversion to the platform (amd64 gives the smallest int64,
\* arm64 the largest).
Duration(e) == IF e <= 18 THEN {TimesPow10(One, e)} ELSE {MinInt64, MaxInt64}

maxDelay == TimesPow10(One, MaxExp)

Init ==
    /\ failures = [i \in Items |-> 0]
    /\ delay = [i \in Items |-> Zero]

-----------------------------------------------------------------------------
\* When: one more failure, baseDelay * 10^(failures - 1) capped by maxDelay.
When(i) ==
    /\ failures[i] < MaxFailures
    /\ failures' = [failures EXCEPT ![i] = @ + 1]
    /\ \E d \in Duration(failures[i]) :
          LET calculated == TimesPow10(d, BaseExp)
          IN  delay' = [delay EXCEPT ![i] =
                           IF Greater(calculated, maxDelay) THEN maxDelay ELSE calculated]

Forget(i) ==
    /\ failures' = [failures EXCEPT ![i] = 0]
    /\ delay' = [delay EXCEPT ![i] = Zero]

Next == \E i \in Items : When(i) \/ Forget(i)

Spec == Init /\ [][Next]_vars

-----------------------------------------------------------------------------
TypeOK ==
    /\ failures \in [Items -> 0..MaxFailures]
    /\ delay \in [Items -> Word]

\* An item that has failed waits at least baseDelay: rate limited queues exist
\* to requeue items after failures "without ending up in a hot-loop"
\* (comment of RateLimitingInterface).
NoHotLoop ==
    \A i \in Items : failures[i] > 0 => ~Greater(TimesPow10(One, BaseExp), delay[i])
=============================================================================
