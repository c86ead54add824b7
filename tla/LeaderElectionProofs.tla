------------------------ MODULE LeaderElectionProofs ------------------------
(***************************************************************************)
(* For any number of candidates and for all durations that satisfy the     *)
(* assumptions of LeaderElection: a client leads only while the record     *)
(* names it, it steps down in time, and no lease is cut short: together,   *)
(* the record is a lease in the sense of module Lease.                     *)
(***************************************************************************)
EXTENDS LeaderElection, TLAPS

\* A call is at most Delay old, and the second of a try begins where the
\* first may last have ended.
CallsEnd(c) ==
    /\ call[c] \in {"get", "got"} => /\ callStart[c] = tryStart[c]
                                     /\ tryStart[c] <= now /\ now <= tryStart[c] + Delay
    /\ call[c] \in {"put", "ok"}  => /\ tryStart[c] <= callStart[c]
                                     /\ callStart[c] <= tryStart[c] + Delay
                                     /\ callStart[c] <= now /\ now <= callStart[c] + Delay

\* How long after its last renewal, and after the deadline of Poll, a leader
\* may still be at work.
PollEnds(c) ==
    /\ final[c] => phase[c] = "renew" /\ call[c] # "none"
    /\ lease[c] <= now
    /\ phase[c] = "renew" =>
          /\ deadline[c] <= lease[c] + RenewDeadline + 2 * Delay
          /\ call[c] = "none" => now <= deadline[c] + 2 * Delay
          /\ call[c] # "none" => lease[c] <= tryStart[c]
          /\ call[c] # "none" /\ ~final[c] => tryStart[c] <= deadline[c]
          /\ call[c] # "none" /\ final[c]  => tryStart[c] <= deadline[c] + 2 * Delay

\* What a candidate knows of the record.
Knows(c) ==
    /\ fresh[c] => seen[c] = record /\ call[c] \in {"got", "put"}
    /\ seen[c].renewTime <= now
    /\ observed[c].renewTime <= observedTime[c]
    /\ call[c] = "put" /\ seen[c] # NoRecord /\ seen[c].holder # c
          => seen[c].renewTime + LeaseDuration <= tryStart[c]

\* A leader, and a candidate whose write was applied, hold the record.
Holds(c) ==
    /\ phase[c] = "renew" => record.holder = c /\ lease[c] < record.renewTime + Second
    /\ call[c] = "ok"     => record.holder = c /\ tryStart[c] < record.renewTime + Second

\* The record of a candidate was written by an earlier try of its own.
OwnIsOlder(c) ==
    record.holder = c /\ call[c] \in {"get", "got", "put"} => record.renewTime <= Stored(tryStart[c])

RecordSound ==
    /\ record.renewTime <= now
    /\ record.renewTime <= Stored(now)
    /\ record.holder = Nobody => record = NoRecord

\* A write with the time t that finds the object unchanged, sent by a try of c:
\* the record was another's and its lease over when the try began, or it was
\* its own or nobody's, and no later.
Due(c, t) ==
    /\ t \in Int /\ t <= Stored(now) /\ record.renewTime <= t
    /\ record.holder \notin {Nobody, c} => record.renewTime + LeaseDuration <= now

LateIsDue == \A w \in late : Due(w.by, w.renewTime)

\* An abandoned write belongs to an earlier try than the present one.
LateIsOlder ==
    \A w \in late : call[w.by] # "none" => w.renewTime <= Stored(tryStart[w.by])

IInv ==
    /\ TypeOK
    /\ RecordSound
    /\ LateIsDue
    /\ LateIsOlder
    /\ \A c \in Candidates : CallsEnd(c) /\ PollEnds(c) /\ Knows(c) /\ Holds(c) /\ OwnIsOlder(c)

-----------------------------------------------------------------------------
\* A stored time is less than a second old.
LEMMA StoredBound ==
    ASSUME NEW t \in Nat
    PROVE  Stored(t) \in Int /\ Stored(t) <= t /\ t < Stored(t) + Second
  BY TimesAssumption DEF Stored

\* The remainder of a division, and the quotient.
LEMMA ModBound ==
    ASSUME NEW a \in Int, NEW b \in Nat \ {0}
    PROVE  a % b \in Int /\ 0 <= a % b /\ a % b < b
  OBVIOUS

LEMMA DivMod ==
    ASSUME NEW a \in Int, NEW b \in Nat \ {0}
    PROVE  \E k \in Int : a = b * k + (a % b)
  <1>1. a \div b \in Int
    OBVIOUS
  <1>2. a = b * (a \div b) + (a % b)
    OBVIOUS
  <1> QED BY <1>1, <1>2

\* Two different multiples of b are at least b apart.
LEMMA MultiplesApart ==
    ASSUME NEW b \in Nat \ {0}, NEW p \in Int, NEW q \in Int, b * p > b * q
    PROVE  b * p >= b * q + b
  <1>1. p >= q + 1
    <2> SUFFICES ASSUME p <= q PROVE FALSE
      OBVIOUS
    <2>1. b * p <= b * q
      OBVIOUS
    <2> QED BY <2>1
  <1>2. b * p >= b * (q + 1)
    BY <1>1
  <1>3. b * (q + 1) = b * q + b
    OBVIOUS
  <1> QED BY <1>2, <1>3

\* Cutting times to the second keeps their order.
LEMMA StoredMonotone ==
    ASSUME NEW t \in Nat, NEW u \in Nat, t <= u
    PROVE  Stored(t) <= Stored(u)
  <1>1. Second \in Nat \ {0} /\ t \in Int /\ u \in Int
    BY TimesAssumption
  <1>2. PICK p \in Int : t = Second * p + (t % Second)
    BY <1>1, DivMod
  <1>3. PICK q \in Int : u = Second * q + (u % Second)
    BY <1>1, DivMod
  <1> DEFINE P == Second * p
             Q == Second * q
             r == t % Second
             v == u % Second
  <1>4. P \in Int /\ Q \in Int
    BY <1>1
  <1>5. r \in Int /\ 0 <= r /\ r < Second /\ v \in Int /\ 0 <= v /\ v < Second
    BY <1>1, ModBound
  <1>6. P > Q => P >= Q + Second
    BY <1>1, MultiplesApart
  <1>7. t = P + r /\ u = Q + v
    BY <1>2, <1>3
  <1>8. Stored(t) = t - r /\ Stored(u) = u - v
    BY DEF Stored
  <1> HIDE DEF P, Q, r, v
  <1> QED BY <1>1, <1>4, <1>5, <1>6, <1>7, <1>8

\* The next tick of Poll is not over.
LEMMA TickIsLater ==
    ASSUME NEW t \in Int, NEW u \in Nat
    PROVE  u + RetryPeriod - (t % RetryPeriod) \in Nat
  BY TimesAssumption

LEMMA NoRecordIsRecord == NoRecord \in Record
  BY DEF NoRecord, Record

LEMMA InitHolds == Init => IInv
  <1> SUFFICES ASSUME Init PROVE IInv
    OBVIOUS
  <1> USE TimesAssumption DEF Init
  <1>1. TypeOK
    BY NoRecordIsRecord DEF TypeOK
  <1>2. RecordSound
    <2>1. Stored(0) \in Int /\ 0 < Stored(0) + Second /\ Stored(0) <= 0
      BY StoredBound
    <2>2. Stored(0) = 0
      BY DEF Stored
    <2> QED BY <2>2 DEF RecordSound, NoRecord
  <1>3. ASSUME NEW c \in Candidates
        PROVE  CallsEnd(c) /\ PollEnds(c) /\ Knows(c) /\ Holds(c) /\ OwnIsOlder(c)
    BY DEF CallsEnd, PollEnds, Knows, Holds, OwnIsOlder, NoRecord
  <1> QED BY <1>1, <1>2, <1>3 DEF IInv, LateIsDue, LateIsOlder

\* The variables keep their types.
LEMMA TypeStays == TypeOK /\ [Next]_vars => TypeOK'
  <1> SUFFICES ASSUME TypeOK, [Next]_vars PROVE TypeOK'
    OBVIOUS
  <1> USE TimesAssumption, NoRecordIsRecord DEF TypeOK, object, try, timing
  <1>r. ASSUME NEW c \in Candidates, Return(c)
        PROVE  /\ tryStart' \in [Candidates -> Nat] /\ callStart' \in [Candidates -> Nat]
               /\ seen' \in [Candidates -> Record] /\ fresh' \in [Candidates -> BOOLEAN]
    BY <1>r DEF Return
  <1>x. ASSUME NEW c \in Candidates, Exit(c)
        PROVE  /\ phase' \in [Candidates -> {"acquire", "renew", "over"}]
               /\ observed' \in [Candidates -> Record] /\ observedTime' \in [Candidates -> Nat]
               /\ due' \in [Candidates -> Nat]
               /\ deadline' \in [Candidates -> Nat] /\ final' \in [Candidates -> BOOLEAN]
               /\ lease' \in [Candidates -> Nat]
    BY <1>x DEF Exit
  <1>b. ASSUME NEW c \in Candidates, Abandon(c)
        PROVE  late' \subseteq [by : Candidates, renewTime : Int]
    <2>1. Stored(tryStart[c]) \in Int
      BY StoredBound
    <2> QED BY <1>b, <2>1 DEF Abandon
  <1>f. ASSUME NEW c \in Candidates, TryFails(c), UNCHANGED <<now, object>>,
               late' \subseteq [by : Candidates, renewTime : Int],
               observed' \in [Candidates -> Record], observedTime' \in [Candidates -> Nat]
        PROVE  TypeOK'
    <2> DEFINE tick == now + RetryPeriod - ((now + RenewDeadline - deadline[c]) % RetryPeriod)
    <2>1. tick \in Nat
      <3>1. now + RenewDeadline - deadline[c] \in Int
        OBVIOUS
      <3> QED BY <3>1, TickIsLater
    <2> HIDE DEF tick
    <2>2. due' \in [Candidates -> Nat]
      BY <1>f, <2>1 DEF TryFails, tick
    <2> QED BY <1>f, <1>r, <2>2 DEF TryFails
  <1>l. ASSUME NEW c \in Candidates, LastTryFails(c), UNCHANGED <<now, object>>,
               late' \subseteq [by : Candidates, renewTime : Int]
        PROVE  TypeOK'
    BY <1>l, <1>r, <1>x DEF LastTryFails
  <1>1. CASE UNCHANGED vars
    BY <1>1 DEF vars
  <1>2. CASE Tick
    BY <1>2 DEF Tick
  <1>3. ASSUME NEW c \in Candidates, StartTry(c) PROVE TypeOK'
    BY <1>3 DEF StartTry
  <1>4. ASSUME NEW c \in Candidates, GetReads(c) PROVE TypeOK'
    BY <1>4 DEF GetReads
  <1>5. ASSUME NEW c \in Candidates, GetReturns(c) PROVE TypeOK'
    <2>1. Observe(c) => /\ observed' \in [Candidates -> Record]
                        /\ observedTime' \in [Candidates -> Nat]
      BY DEF Observe, FirstSeen
    <2>2. CASE ~Refused(c) /\ Observe(c) /\ call' = [call EXCEPT ![c] = "put"]
               /\ callStart' = [callStart EXCEPT ![c] = now]
               /\ UNCHANGED <<phase, timing, tryStart, seen, fresh, lease>>
      BY <1>5, <2>1, <2>2 DEF GetReturns
    <2>3. CASE TryFails(c) /\ Observe(c)
      BY <1>5, <2>1, <2>3, <1>f DEF GetReturns
    <2>4. CASE LastTryFails(c)
      BY <1>5, <2>4, <1>l DEF GetReturns
    <2> QED BY <1>5, <2>2, <2>3, <2>4 DEF GetReturns
  <1>6. ASSUME NEW c \in Candidates, PutApplies(c) PROVE TypeOK'
    <2>1. Stored(tryStart[c]) \in Int
      BY StoredBound
    <2>2. record' \in Record
      BY <1>6, <2>1 DEF PutApplies, Write, Record
    <2> QED BY <1>6, <2>2 DEF PutApplies, Write
  <1>7. ASSUME NEW c \in Candidates, PutReturns(c) PROVE TypeOK'
    BY <1>7 DEF PutReturns, Return
  <1>8. ASSUME NEW c \in Candidates, CallFails(c) PROVE TypeOK'
    BY <1>8, <1>b, <1>f, <1>l DEF CallFails
  <1>9. ASSUME NEW c \in Candidates, Crash(c) PROVE TypeOK'
    <2>1. /\ tryStart' \in [Candidates -> Nat] /\ callStart' \in [Candidates -> Nat]
          /\ seen' \in [Candidates -> Record] /\ fresh' \in [Candidates -> BOOLEAN]
          /\ call' \in [Candidates -> {"none", "get", "got", "put", "ok"}]
      BY <1>9, <1>r DEF Crash
    <2> QED BY <1>9, <1>b, <1>x, <2>1 DEF Crash
  <1>10. ASSUME NEW c \in Candidates, Restart(c) PROVE TypeOK'
    BY <1>10 DEF Restart
  <1>11. ASSUME NEW w \in late, LateApplies(w) PROVE TypeOK'
    <2>1. w.by \in Candidates /\ w.renewTime \in Int
      OBVIOUS
    <2>2. record' \in Record
      BY <1>11, <2>1 DEF LateApplies, Write, Record
    <2> QED BY <1>11, <2>2 DEF LateApplies, Write
  <1> QED BY <1>1, <1>2, <1>3, <1>4, <1>5, <1>6, <1>7, <1>8, <1>9, <1>10, <1>11 DEF Next

\* Calls stay within their bounds, because time does not pass a pending one.
LEMMA CallsEndStays == IInv /\ [Next]_vars => \A d \in Candidates : CallsEnd(d)'
  <1> SUFFICES ASSUME IInv, [Next]_vars, NEW d \in Candidates PROVE CallsEnd(d)'
    OBVIOUS
  <1>0. TypeOK /\ CallsEnd(d)
    BY DEF IInv
  <1> USE <1>0, TimesAssumption DEF TypeOK, CallsEnd, object, try, timing
  <1>1. CASE UNCHANGED vars
    BY <1>1 DEF vars
  <1>2. CASE Tick
    BY <1>2 DEF Tick, MayPass
  <1>3. ASSUME NEW c \in Candidates, StartTry(c) PROVE CallsEnd(d)'
    BY <1>3 DEF StartTry
  <1>4. ASSUME NEW c \in Candidates, GetReads(c) PROVE CallsEnd(d)'
    BY <1>4 DEF GetReads
  <1>5. ASSUME NEW c \in Candidates, GetReturns(c) PROVE CallsEnd(d)'
    BY <1>5 DEF GetReturns, TryFails, LastTryFails, Return
  <1>6. ASSUME NEW c \in Candidates, PutApplies(c) PROVE CallsEnd(d)'
    BY <1>6 DEF PutApplies
  <1>7. ASSUME NEW c \in Candidates, PutReturns(c) PROVE CallsEnd(d)'
    BY <1>7 DEF PutReturns, Return
  <1>8. ASSUME NEW c \in Candidates, CallFails(c) PROVE CallsEnd(d)'
    BY <1>8 DEF CallFails, TryFails, LastTryFails, Return
  <1>9. ASSUME NEW c \in Candidates, Crash(c) PROVE CallsEnd(d)'
    BY <1>9 DEF Crash, Return
  <1>10. ASSUME NEW c \in Candidates, Restart(c) PROVE CallsEnd(d)'
    BY <1>10 DEF Restart
  <1>11. ASSUME NEW w \in late, LateApplies(w) PROVE CallsEnd(d)'
    BY <1>11 DEF LateApplies, Write
  <1> QED BY <1>1, <1>2, <1>3, <1>4, <1>5, <1>6, <1>7, <1>8, <1>9, <1>10, <1>11 DEF Next

\* So does a Poll: one try may be under way at its deadline, and one follows.
LEMMA PollEndsStays == IInv /\ [Next]_vars => \A d \in Candidates : PollEnds(d)'
  <1> SUFFICES ASSUME IInv, [Next]_vars, NEW d \in Candidates PROVE PollEnds(d)'
    OBVIOUS
  <1>0. TypeOK /\ CallsEnd(d) /\ PollEnds(d)
    BY DEF IInv
  <1> USE <1>0, TimesAssumption DEF TypeOK, CallsEnd, PollEnds, object, try, timing
  <1>1. CASE UNCHANGED vars
    BY <1>1 DEF vars
  <1>2. CASE Tick
    BY <1>2 DEF Tick, MayPass
  <1>3. ASSUME NEW c \in Candidates, StartTry(c) PROVE PollEnds(d)'
    BY <1>3 DEF StartTry
  <1>4. ASSUME NEW c \in Candidates, GetReads(c) PROVE PollEnds(d)'
    BY <1>4 DEF GetReads
  <1>5. ASSUME NEW c \in Candidates, GetReturns(c) PROVE PollEnds(d)'
    BY <1>5 DEF GetReturns, TryFails, LastTryFails, Return, Exit
  <1>6. ASSUME NEW c \in Candidates, PutApplies(c) PROVE PollEnds(d)'
    BY <1>6 DEF PutApplies
  <1>7. ASSUME NEW c \in Candidates, PutReturns(c) PROVE PollEnds(d)'
    BY <1>7 DEF PutReturns, Return
  <1>8. ASSUME NEW c \in Candidates, CallFails(c) PROVE PollEnds(d)'
    BY <1>8 DEF CallFails, TryFails, LastTryFails, Return, Exit
  <1>9. ASSUME NEW c \in Candidates, Crash(c) PROVE PollEnds(d)'
    BY <1>9 DEF Crash, Return, Exit
  <1>10. ASSUME NEW c \in Candidates, Restart(c) PROVE PollEnds(d)'
    BY <1>10 DEF Restart
  <1>11. ASSUME NEW w \in late, LateApplies(w) PROVE PollEnds(d)'
    BY <1>11 DEF LateApplies, Write
  <1> QED BY <1>1, <1>2, <1>3, <1>4, <1>5, <1>6, <1>7, <1>8, <1>9, <1>10, <1>11 DEF Next

\* A write for which the object is still the one that was read.
LEMMA FreshIsDue ==
    ASSUME IInv, NEW c \in Candidates, call[c] = "put", fresh[c]
    PROVE  Due(c, Stored(tryStart[c]))
  <1>1. seen[c] = record /\ Knows(c) /\ CallsEnd(c) /\ OwnIsOlder(c)
    BY DEF IInv, Knows
  <1>2. /\ record.renewTime \in Int /\ now \in Nat
        /\ tryStart[c] \in Nat /\ callStart[c] \in Nat
    BY DEF IInv, TypeOK, Record
  <1>3. tryStart[c] <= now
    BY <1>1, <1>2 DEF CallsEnd
  <1>4. /\ Stored(tryStart[c]) \in Int /\ Stored(now) \in Int
        /\ Stored(tryStart[c]) <= Stored(now)
        /\ tryStart[c] < Stored(tryStart[c]) + Second
    BY <1>2, <1>3, StoredBound, StoredMonotone
  <1>5. CASE record.holder = c
    BY <1>1, <1>4, <1>5 DEF OwnIsOlder, Due
  <1>6. CASE record.holder = Nobody
    <2>1. record.renewTime = 0
      BY <1>6 DEF IInv, RecordSound, NoRecord
    <2>2. Stored(0) <= Stored(tryStart[c])
      BY <1>2, StoredMonotone
    <2>3. Stored(0) = 0
      BY TimesAssumption DEF Stored
    <2> QED BY <1>4, <1>6, <2>1, <2>2, <2>3 DEF Due
  <1>7. CASE record.holder \notin {Nobody, c}
    <2>1. seen[c] # NoRecord
      BY <1>1, <1>7 DEF NoRecord
    <2>2. record.renewTime + LeaseDuration <= tryStart[c]
      BY <1>1, <1>7, <2>1 DEF Knows
    <2> QED BY <1>2, <1>3, <1>4, <2>2, TimesAssumption, LeaseAssumption DEF Due
  <1> QED BY <1>5, <1>6, <1>7

\* The writes: a try's own, and the abandoned ones.
Writing(c, t) == Write(c, t) /\ Due(c, t) /\ UNCHANGED <<now, phase>>

LEMMA PutIsWriting ==
    ASSUME IInv, NEW c \in Candidates, PutApplies(c)
    PROVE  Writing(c, Stored(tryStart[c]))
  BY FreshIsDue DEF PutApplies, Writing

LEMMA LateIsWriting ==
    ASSUME IInv, NEW w \in late, LateApplies(w)
    PROVE  w.by \in Candidates /\ Writing(w.by, w.renewTime)
  BY DEF IInv, TypeOK, LateIsDue, LateApplies, Writing

\* The bound on a leader's time.
LEMMA LeaderInTime ==
    ASSUME IInv, NEW c \in Candidates, phase[c] = "renew"
    PROVE  now <= lease[c] + RenewDeadline + 6 * Delay
  BY TimesAssumption DEF IInv, TypeOK, CallsEnd, PollEnds

\* Nobody writes over the record of a leader, or over one just written.
LEMMA NobodyIntervenes ==
    ASSUME IInv, NEW c \in Candidates, NEW t, Writing(c, t),
           NEW d \in Candidates, phase[d] = "renew" \/ call[d] = "ok"
    PROVE  c = d
  <1> SUFFICES ASSUME c # d PROVE FALSE
    OBVIOUS
  <1>1. record.holder = d
    BY DEF IInv, Holds
  <1>2. record.renewTime + LeaseDuration <= now
    BY <1>1, NobodyIsNobody DEF Writing, Due
  <1>3. record.renewTime \in Int /\ now \in Nat /\ lease[d] \in Nat /\ tryStart[d] \in Nat
        /\ callStart[d] \in Nat
    BY DEF IInv, TypeOK, Record
  <1>4. CASE phase[d] = "renew"
    <2>1. lease[d] < record.renewTime + Second
      BY <1>4 DEF IInv, Holds
    <2>2. now <= lease[d] + RenewDeadline + 6 * Delay
      BY <1>4, LeaderInTime
    <2> QED BY <1>2, <1>3, <2>1, <2>2, TimesAssumption, LeaseAssumption
  <1>5. CASE call[d] = "ok"
    <2>1. tryStart[d] < record.renewTime + Second
      BY <1>5 DEF IInv, Holds
    <2>2. now <= tryStart[d] + 2 * Delay
      BY <1>3, <1>5, TimesAssumption DEF IInv, CallsEnd
    <2> QED BY <1>2, <1>3, <2>1, <2>2, TimesAssumption, LeaseAssumption
  <1> QED BY <1>4, <1>5

\* A record once seen was written before.
LEMMA KnowsStays == IInv /\ [Next]_vars => \A d \in Candidates : Knows(d)'
  <1> SUFFICES ASSUME IInv, [Next]_vars, NEW d \in Candidates PROVE Knows(d)'
    OBVIOUS
  <1>0. TypeOK /\ CallsEnd(d) /\ Knows(d) /\ record.renewTime <= now
    BY DEF IInv, RecordSound
  <1>a. record.renewTime \in Int /\ seen[d].renewTime \in Int /\ observed[d].renewTime \in Int
    BY <1>0 DEF TypeOK, Record
  <1>b. NoRecord.renewTime = 0
    BY DEF NoRecord
  <1> USE <1>0, <1>a, <1>b, TimesAssumption DEF TypeOK, Knows, object, try, timing
  <1>1. CASE UNCHANGED vars
    BY <1>1 DEF vars
  <1>2. CASE Tick
    BY <1>2 DEF Tick
  <1>3. ASSUME NEW c \in Candidates, StartTry(c) PROVE Knows(d)'
    BY <1>3 DEF StartTry
  <1>4. ASSUME NEW c \in Candidates, GetReads(c) PROVE Knows(d)'
    BY <1>4 DEF GetReads
  <1>5. ASSUME NEW c \in Candidates, GetReturns(c) PROVE Knows(d)'
    <2>1. CASE c # d
      BY <1>5, <2>1 DEF GetReturns, TryFails, LastTryFails, Return, Exit, Observe
    <2>2. CASE c = d /\ ~Refused(d) /\ call' = [call EXCEPT ![d] = "put"] /\ Observe(d)
               /\ UNCHANGED <<tryStart, seen, fresh, now, record>>
      <3>1. seen[d].renewTime <= FirstSeen(d)
        BY DEF FirstSeen
      <3>2. observed'[d].renewTime <= observedTime'[d]
        BY <2>2, <3>1 DEF Observe
      <3>3. FirstSeen(d) \in Nat
        BY DEF FirstSeen
      <3>4. seen[d] # NoRecord /\ seen[d].holder # d
               => seen[d].renewTime + LeaseDuration <= tryStart[d]
        BY <2>2, <3>1, <3>3 DEF Refused
      <3>5. call[d] = "got"
        BY <1>5, <2>2 DEF GetReturns
      <3> QED BY <2>2, <3>2, <3>4, <3>5
    <2>3. CASE c = d /\ ((TryFails(d) /\ Observe(d)) \/ LastTryFails(d))
      <3>1. seen[d].renewTime <= FirstSeen(d)
        BY DEF FirstSeen
      <3>2. observed'[d].renewTime <= observedTime'[d]
        BY <2>3, <3>1 DEF LastTryFails, Exit, Observe
      <3> QED BY <1>5, <2>3, <3>2 DEF GetReturns, TryFails, LastTryFails, Return
    <2> QED BY <1>5, <2>1, <2>2, <2>3 DEF GetReturns
  <1>6. ASSUME NEW c \in Candidates, PutApplies(c) PROVE Knows(d)'
    BY <1>6 DEF PutApplies, Write
  <1>7. ASSUME NEW c \in Candidates, PutReturns(c) PROVE Knows(d)'
    BY <1>7 DEF PutReturns, Return
  <1>8. ASSUME NEW c \in Candidates, CallFails(c) PROVE Knows(d)'
    BY <1>8 DEF CallFails, TryFails, LastTryFails, Return, Exit
  <1>9. ASSUME NEW c \in Candidates, Crash(c) PROVE Knows(d)'
    BY <1>9 DEF Crash, Return, Exit
  <1>10. ASSUME NEW c \in Candidates, Restart(c) PROVE Knows(d)'
    BY <1>10 DEF Restart
  <1>11. ASSUME NEW w \in late, LateApplies(w) PROVE Knows(d)'
    BY <1>11 DEF LateApplies, Write
  <1> QED BY <1>1, <1>2, <1>3, <1>4, <1>5, <1>6, <1>7, <1>8, <1>9, <1>10, <1>11 DEF Next

\* The record of a leader stays its own.
LEMMA HoldsStays == IInv /\ [Next]_vars => \A d \in Candidates : Holds(d)'
  <1> SUFFICES ASSUME IInv, [Next]_vars, NEW d \in Candidates PROVE Holds(d)'
    OBVIOUS
  <1>0. TypeOK /\ CallsEnd(d) /\ PollEnds(d) /\ Holds(d)
    BY DEF IInv
  <1> USE <1>0 DEF TypeOK, Holds, object, try, timing
  <1>1. CASE UNCHANGED vars
    BY <1>1 DEF vars
  <1>2. CASE Tick
    BY <1>2 DEF Tick
  <1>3. ASSUME NEW c \in Candidates, StartTry(c) PROVE Holds(d)'
    BY <1>3 DEF StartTry
  <1>4. ASSUME NEW c \in Candidates, GetReads(c) PROVE Holds(d)'
    BY <1>4 DEF GetReads
  <1>5. ASSUME NEW c \in Candidates, GetReturns(c) PROVE Holds(d)'
    BY <1>5 DEF GetReturns, TryFails, LastTryFails, Return, Exit
  <1>6. ASSUME NEW c \in Candidates, PutApplies(c) PROVE Holds(d)'
    <2>1. CASE c # d
      <3>1. phase'[d] # "renew" /\ call'[d] # "ok"
        BY <1>6, <2>1, PutIsWriting, NobodyIntervenes DEF PutApplies
      <3> QED BY <3>1
    <2>2. CASE c = d
      <3>1. record'.holder = d /\ record'.renewTime = Stored(tryStart[d])
        BY <1>6, <2>2 DEF PutApplies, Write
      <3>2. Stored(tryStart[d]) \in Int /\ tryStart[d] < Stored(tryStart[d]) + Second
        BY StoredBound
      <3>3. phase[d] = "renew" => lease[d] <= tryStart[d]
        BY <1>6, <2>2 DEF PutApplies, PollEnds
      <3> QED BY <1>6, <3>1, <3>2, <3>3, TimesAssumption DEF PutApplies
    <2> QED BY <2>1, <2>2
  <1>7. ASSUME NEW c \in Candidates, PutReturns(c) PROVE Holds(d)'
    BY <1>7 DEF PutReturns, Return
  <1>8. ASSUME NEW c \in Candidates, CallFails(c) PROVE Holds(d)'
    BY <1>8 DEF CallFails, TryFails, LastTryFails, Return, Exit
  <1>9. ASSUME NEW c \in Candidates, Crash(c) PROVE Holds(d)'
    BY <1>9 DEF Crash, Return, Exit
  <1>10. ASSUME NEW c \in Candidates, Restart(c) PROVE Holds(d)'
    BY <1>10 DEF Restart
  <1>11. ASSUME NEW w \in late, LateApplies(w) PROVE Holds(d)'
    <2>1. /\ w.by \in Candidates /\ Writing(w.by, w.renewTime)
          /\ UNCHANGED <<phase, call, tryStart, lease>>
      BY <1>11, LateIsWriting DEF LateApplies
    <2>2. /\ record'.holder = w.by /\ record'.renewTime = w.renewTime
          /\ w.renewTime \in Int /\ record.renewTime <= w.renewTime
      BY <2>1 DEF Writing, Write, Due
    <2>3. record.renewTime \in Int
      BY DEF Record
    <2>4. phase[d] = "renew" \/ call[d] = "ok" => w.by = d
      BY <2>1, NobodyIntervenes
    <2> QED BY <2>1, <2>2, <2>3, <2>4, TimesAssumption
  <1> QED BY <1>1, <1>2, <1>3, <1>4, <1>5, <1>6, <1>7, <1>8, <1>9, <1>10, <1>11 DEF Next

LEMMA RecordStays == IInv /\ [Next]_vars => RecordSound'
  <1> SUFFICES ASSUME IInv, [Next]_vars PROVE RecordSound'
    OBVIOUS
  <1>0. TypeOK /\ RecordSound
    BY DEF IInv
  <1>1. CASE UNCHANGED <<now, record>>
    BY <1>0, <1>1 DEF RecordSound, Stored
  <1>2. CASE Tick
    <2>1. now' = now + 1 /\ record' = record /\ now \in Nat /\ record.renewTime \in Int
      BY <1>0, <1>2 DEF Tick, TypeOK, Record, object
    <2>2. Stored(now) \in Int /\ Stored(now + 1) \in Int /\ Stored(now) <= Stored(now + 1)
      BY <2>1, StoredBound, StoredMonotone
    <2>3. Stored(now)' = Stored(now + 1)
      BY <2>1 DEF Stored
    <2> QED BY <1>0, <2>1, <2>2, <2>3 DEF RecordSound
  <1>3. ASSUME NEW c \in Candidates, NEW t, Writing(c, t) PROVE RecordSound'
    <2>1. /\ record'.holder = c /\ record'.renewTime = t /\ now' = now
          /\ t \in Int /\ t <= Stored(now)
      BY <1>3 DEF Writing, Write, Due
    <2>2. now \in Nat /\ Stored(now) \in Int /\ Stored(now) <= now /\ Stored(now)' = Stored(now)
      BY <1>0, <2>1, StoredBound DEF TypeOK, Stored
    <2> QED BY <2>1, <2>2, NobodyIsNobody DEF RecordSound
  <1>4. ASSUME NEW c \in Candidates,
               \/ StartTry(c) \/ GetReads(c) \/ GetReturns(c) \/ PutReturns(c) \/ CallFails(c)
               \/ Crash(c) \/ Restart(c)
        PROVE  UNCHANGED <<now, record>>
    BY <1>4 DEF StartTry, GetReads, GetReturns, PutReturns, CallFails, Crash, Restart, object
  <1>5. CASE UNCHANGED vars
    BY <1>1, <1>5 DEF vars, object
  <1> QED BY <1>1, <1>2, <1>3, <1>4, <1>5, PutIsWriting, LateIsWriting DEF Next

\* Nothing that is due becomes too early; a write ends what else is due.
LEMMA LateStays == IInv /\ [Next]_vars => LateIsDue'
  <1> SUFFICES ASSUME IInv, [Next]_vars PROVE LateIsDue'
    OBVIOUS
  <1>0. now \in Nat /\ record.renewTime \in Int /\ LateIsDue
    BY DEF IInv, TypeOK, Record
  <1>1. ASSUME UNCHANGED <<late, now, record>> PROVE LateIsDue'
    BY <1>0, <1>1 DEF LateIsDue, Due, Stored
  <1>2. CASE Tick
    <2>1. now' = now + 1 /\ record' = record /\ late' = late
      BY <1>2 DEF Tick, object
    <2>2. Stored(now) \in Int /\ Stored(now + 1) \in Int /\ Stored(now) <= Stored(now + 1)
      BY <1>0, StoredBound, StoredMonotone
    <2>3. Stored(now)' = Stored(now + 1)
      BY <2>1 DEF Stored
    <2> QED BY <1>0, <2>1, <2>2, <2>3, TimesAssumption DEF LateIsDue, Due
  <1>3. ASSUME NEW c \in Candidates, NEW t, Write(c, t) PROVE LateIsDue'
    BY <1>3 DEF Write, LateIsDue
  <1>4. ASSUME NEW c \in Candidates, Abandon(c), UNCHANGED <<now, record>> PROVE LateIsDue'
    <2>1. call[c] = "put" /\ fresh[c] => Due(c, Stored(tryStart[c]))
      BY FreshIsDue
    <2>2. Stored(now)' = Stored(now)
      BY <1>4 DEF Stored
    <2>3. \A a, t : Due(a, t) => Due(a, t)'
      BY <1>4, <2>2 DEF Due
    <2> QED BY <1>0, <1>4, <2>1, <2>3 DEF Abandon, LateIsDue
  <1>5. ASSUME NEW c \in Candidates,
               \/ StartTry(c) \/ GetReads(c) \/ GetReturns(c) \/ PutReturns(c) \/ Restart(c)
        PROVE  UNCHANGED <<late, now, record>>
    BY <1>5 DEF StartTry, GetReads, GetReturns, PutReturns, Restart, object
  <1>6. ASSUME NEW c \in Candidates, CallFails(c) \/ Crash(c) PROVE LateIsDue'
    BY <1>4, <1>6 DEF CallFails, Crash, object
  <1>7. CASE UNCHANGED vars
    BY <1>1, <1>7 DEF vars, object
  <1>8. ASSUME NEW w \in late, LateApplies(w) PROVE LateIsDue'
    BY <1>3, <1>8, LateIsWriting DEF Writing
  <1>9. ASSUME NEW c \in Candidates, PutApplies(c) PROVE LateIsDue'
    BY <1>3, <1>9 DEF PutApplies
  <1> QED BY <1>1, <1>2, <1>5, <1>6, <1>7, <1>8, <1>9 DEF Next

LEMMA OlderStays == IInv /\ [Next]_vars => LateIsOlder'
  <1> SUFFICES ASSUME IInv, [Next]_vars PROVE LateIsOlder'
    OBVIOUS
  <1>0. TypeOK /\ LateIsDue /\ LateIsOlder
    BY DEF IInv
  <1> USE <1>0 DEF TypeOK, LateIsOlder, object, try, timing
  <1>1. ASSUME UNCHANGED <<late, call, tryStart>> PROVE LateIsOlder'
    BY <1>1 DEF Stored
  <1>2. ASSUME NEW c \in Candidates, StartTry(c) PROVE LateIsOlder'
    <2>1. \A w \in late : w.renewTime <= Stored(now)
      BY DEF LateIsDue, Due
    <2>2. /\ late' = late /\ call' = [call EXCEPT ![c] = "get"]
          /\ tryStart' = [tryStart EXCEPT ![c] = now]
      BY <1>2 DEF StartTry
    <2> QED BY <2>1, <2>2 DEF Stored
  <1>3. ASSUME NEW c \in Candidates, UNCHANGED <<late, tryStart>>, call[c] # "none",
               \E p \in {"got", "put"} : call' = [call EXCEPT ![c] = p]
        PROVE  LateIsOlder'
    BY <1>3 DEF Stored
  <1>4. ASSUME NEW c \in Candidates, call' = [call EXCEPT ![c] = "none"], Return(c),
               UNCHANGED late \/ Abandon(c)
        PROVE  LateIsOlder'
    BY <1>4 DEF Return, Stored, Abandon
  <1>5. ASSUME NEW c \in Candidates, NEW t, Write(c, t) PROVE LateIsOlder'
    BY <1>5 DEF Write
  <1>6. ASSUME NEW c \in Candidates, GetReads(c) \/ GetReturns(c) PROVE LateIsOlder'
    BY <1>3, <1>4, <1>6 DEF GetReads, GetReturns, TryFails, LastTryFails
  <1>7. ASSUME NEW c \in Candidates, PutReturns(c) \/ CallFails(c) \/ Crash(c) PROVE LateIsOlder'
    BY <1>4, <1>7 DEF PutReturns, CallFails, Crash, TryFails, LastTryFails
  <1>8. ASSUME NEW c \in Candidates, PutApplies(c) PROVE LateIsOlder'
    BY <1>5, <1>8 DEF PutApplies
  <1>9. ASSUME NEW w \in late, LateApplies(w) PROVE LateIsOlder'
    BY <1>5, <1>9 DEF LateApplies
  <1>10. ASSUME NEW c \in Candidates, Restart(c) PROVE LateIsOlder'
    BY <1>1, <1>10 DEF Restart
  <1>11. CASE UNCHANGED vars \/ Tick
    BY <1>1, <1>11 DEF vars, Tick
  <1> QED BY <1>2, <1>6, <1>7, <1>8, <1>9, <1>10, <1>11 DEF Next

\* Another try begins no earlier than the record was written.
LEMMA OwnStays == IInv /\ [Next]_vars => \A d \in Candidates : OwnIsOlder(d)'
  <1> SUFFICES ASSUME IInv, [Next]_vars, NEW d \in Candidates PROVE OwnIsOlder(d)'
    OBVIOUS
  <1>0. TypeOK /\ CallsEnd(d) /\ OwnIsOlder(d) /\ record.renewTime <= Stored(now)
    BY DEF IInv, RecordSound
  <1> USE <1>0 DEF TypeOK, OwnIsOlder, object, try, timing, Stored
  <1>1. CASE UNCHANGED vars
    BY <1>1 DEF vars
  <1>2. CASE Tick
    BY <1>2 DEF Tick
  <1>3. ASSUME NEW c \in Candidates, StartTry(c) PROVE OwnIsOlder(d)'
    BY <1>3 DEF StartTry
  <1>4. ASSUME NEW c \in Candidates, GetReads(c) PROVE OwnIsOlder(d)'
    BY <1>4 DEF GetReads
  <1>5. ASSUME NEW c \in Candidates, GetReturns(c) PROVE OwnIsOlder(d)'
    BY <1>5 DEF GetReturns, TryFails, LastTryFails, Return
  <1>6. ASSUME NEW c \in Candidates, PutApplies(c) PROVE OwnIsOlder(d)'
    <2>1. record'.holder = c /\ call' = [call EXCEPT ![c] = "ok"]
      BY <1>6 DEF PutApplies, Write
    <2> QED BY <2>1
  <1>7. ASSUME NEW c \in Candidates, PutReturns(c) PROVE OwnIsOlder(d)'
    BY <1>7 DEF PutReturns, Return
  <1>8. ASSUME NEW c \in Candidates, CallFails(c) PROVE OwnIsOlder(d)'
    BY <1>8 DEF CallFails, TryFails, LastTryFails, Return
  <1>9. ASSUME NEW c \in Candidates, Crash(c) PROVE OwnIsOlder(d)'
    BY <1>9 DEF Crash, Return
  <1>10. ASSUME NEW c \in Candidates, Restart(c) PROVE OwnIsOlder(d)'
    BY <1>10 DEF Restart
  <1>11. ASSUME NEW w \in late, LateApplies(w) PROVE OwnIsOlder(d)'
    BY <1>11 DEF LateApplies, Write, IInv, LateIsOlder
  <1> QED BY <1>1, <1>2, <1>3, <1>4, <1>5, <1>6, <1>7, <1>8, <1>9, <1>10, <1>11 DEF Next

LEMMA InvStays == IInv /\ [Next]_vars => IInv'
  BY TypeStays, RecordStays, LateStays, OlderStays, CallsEndStays, PollEndsStays, KnowsStays, HoldsStays, OwnStays DEF IInv

LEMMA InvAlways == Spec => []IInv
  BY InitHolds, InvStays, PTL DEF Spec

-----------------------------------------------------------------------------
\* The variables have their types (leaderelection.go:146-167).
THEOREM TypeCorrect == Spec => []TypeOK
  <1>1. IInv => TypeOK
    BY DEF IInv
  <1> QED BY <1>1, InvAlways, PTL

\* Two clients never act as leaders at the same time: whoever leads is the
\* holder on record (leaderelection.go:170-180).
THEOREM OneLeader == Spec => []LeaderHoldsRecord
  <1>1. IInv => LeaderHoldsRecord
    BY DEF IInv, Holds, LeaderHoldsRecord, Leads
  <1> QED BY <1>1, InvAlways, PTL

\* A leader whose renewals fail returns from renew in time
\* (leaderelection.go:221-236).
THEOREM LeaderStepsDown == Spec => []StepsDownInTime
  <1>1. IInv => StepsDownInTime
    BY LeaderInTime DEF StepsDownInTime, Leads
  <1> QED BY <1>1, InvAlways, PTL

\* The record changes hands only when its lease is over
\* (leaderelection.go:290-298).
THEOREM LeaseIsRespected == Spec => LeaseRespected
  <1> DEFINE Respects == record.holder \notin {Nobody, record'.holder}
                             => now >= record.renewTime + LeaseDuration
  <1>1. ASSUME IInv, [Next]_vars PROVE [Respects]_vars
    <2>1. ASSUME NEW c \in Candidates, NEW t, Writing(c, t) PROVE Respects
      <3>1. record'.holder = c
        BY <2>1 DEF Writing, Write
      <3>2. record.renewTime \in Int /\ now \in Nat
        BY <1>1 DEF IInv, TypeOK, Record
      <3> QED BY <2>1, <3>1, <3>2, TimesAssumption DEF Writing, Due
    <2>2. ASSUME NEW c \in Candidates,
                 \/ StartTry(c) \/ GetReads(c) \/ GetReturns(c) \/ PutReturns(c) \/ CallFails(c)
                 \/ Crash(c) \/ Restart(c)
          PROVE  record' = record
      BY <2>2 DEF StartTry, GetReads, GetReturns, PutReturns, CallFails, Crash, Restart, object
    <2>3. Tick => record' = record
      BY DEF Tick, object
    <2> QED BY <1>1, <2>1, <2>2, <2>3, PutIsWriting, LateIsWriting DEF Next
  <1> QED BY <1>1, InvAlways, PTL DEF Spec, LeaseRespected

-----------------------------------------------------------------------------
(* The record is a lease.                                                  *)

Leaders == {c \in Candidates : Leads(c)}

\* A lease is not over while its holder leads, nor right after it was written.
LEMMA NotOver ==
    ASSUME IInv, NEW c \in Candidates, phase[c] = "renew" \/ call[c] = "ok"
    PROVE  record.holder = c /\ now < record.renewTime + LeaseDuration
  <1>1. record.holder = c
    BY DEF IInv, Holds
  <1>2. /\ record.renewTime \in Int /\ now \in Nat /\ lease[c] \in Nat
        /\ tryStart[c] \in Nat /\ callStart[c] \in Nat
    BY DEF IInv, TypeOK, Record
  <1>3. CASE phase[c] = "renew"
    <2>1. lease[c] < record.renewTime + Second
      BY <1>3 DEF IInv, Holds
    <2>2. now <= lease[c] + RenewDeadline + 6 * Delay
      BY <1>3, LeaderInTime
    <2> QED BY <1>1, <1>2, <2>1, <2>2, TimesAssumption, LeaseAssumption
  <1>4. CASE call[c] = "ok"
    <2>1. tryStart[c] < record.renewTime + Second
      BY <1>4 DEF IInv, Holds
    <2>2. now <= tryStart[c] + 2 * Delay
      BY <1>2, <1>4, TimesAssumption DEF IInv, CallsEnd
    <2> QED BY <1>1, <1>2, <2>1, <2>2, TimesAssumption, LeaseAssumption
  <1> QED BY <1>3, <1>4

\* So in every state.
LEMMA LeadersInLease ==
    IInv => \A c \in Candidates : phase[c] = "renew" => now < record.renewTime + LeaseDuration
  BY NotOver

LEMMA LeadersInLeaseNext ==
    (IInv => \A c \in Candidates : phase[c] = "renew" => now < record.renewTime + LeaseDuration)'
  BY LeadersInLease, PTL

\* A write grants the lease: to its holder, or to another when it is over, and
\* from a time that is not before the present one.
LEMMA WriteGrants ==
    ASSUME IInv, NEW c \in Candidates, NEW t, Writing(c, t)
    PROVE  Abs!Grant(c)
  <1>1. /\ record'.holder = c /\ record'.renewTime = t
        /\ now' = now /\ phase' = phase
        /\ t \in Int /\ t <= Stored(now) /\ record.renewTime <= t
        /\ record.holder \notin {Nobody, c} => record.renewTime + LeaseDuration <= now
    BY DEF Writing, Write, Due
  <1>2. record.renewTime \in Int /\ now \in Nat
    BY DEF IInv, TypeOK, Record
  <1>3. Leaders' = Leaders
    BY <1>1 DEF Leaders, Leads
  <1>4. record.holder \in {Nobody, c} \/ now >= record.renewTime + LeaseDuration
    BY <1>1, <1>2, TimesAssumption
  <1>5. Stored(now) \in Int /\ Stored(now) <= now
    BY <1>2, StoredBound
  <1>6. record'.renewTime \in record.renewTime..now
    BY <1>1, <1>2, <1>5
  <1> QED BY <1>1, <1>3, <1>4, <1>6 DEF Abs!Grant, Abs!Over, Leaders

\* A client that stops leading, or does not lead, changes nothing else of the
\* lease.
LEMMA StepsDown ==
    ASSUME TypeOK, NEW c \in Candidates, UNCHANGED <<now, record>>,
           phase' = phase \/ \E p \in {"acquire", "over"} : phase' = [phase EXCEPT ![c] = p]
    PROVE  [Abs!Next]_Abs!vars
  <1>1. CASE Leaders' = Leaders
    BY <1>1 DEF Abs!vars, Leaders
  <1>2. CASE c \in Leaders /\ Leaders' = Leaders \ {c}
    <2>1. Abs!End(c)
      BY <1>2 DEF Abs!End, Leaders
    <2> QED BY <2>1 DEF Abs!Next
  <1> QED BY <1>1, <1>2 DEF TypeOK, Leaders, Leads

LEMMA LeaseStep == IInv /\ IInv' /\ [Next]_vars => [Abs!Next]_Abs!vars
  <1> SUFFICES ASSUME IInv, IInv', [Next]_vars PROVE [Abs!Next]_Abs!vars
    OBVIOUS
  <1>0. TypeOK
    BY DEF IInv
  <1>1. CASE UNCHANGED vars
    BY <1>1 DEF vars, object, Abs!vars, Leads
  <1>2. CASE Tick
    <2>1. now' = now + 1 /\ record' = record /\ phase' = phase
      BY <1>2 DEF Tick, object
    <2>2. Leaders' = Leaders
      BY <2>1 DEF Leaders, Leads
    <2>3. ASSUME NEW c \in Leaders PROVE now + 1 < record.renewTime + LeaseDuration
      <3>1. phase'[c] = "renew" /\ c \in Candidates
        BY <2>1, <2>3 DEF Leaders, Leads
      <3>2. ASSUME NEW d \in Candidates, phase'[d] = "renew"
            PROVE  now' < record'.renewTime + LeaseDuration
        BY <3>2, LeadersInLeaseNext
      <3> QED BY <2>1, <3>1, <3>2
    <2>4. Abs!Pass
      BY <2>1, <2>2, <2>3 DEF Abs!Pass, Leaders
    <2> QED BY <2>4 DEF Abs!Next
  <1>3. ASSUME NEW c \in Candidates, StartTry(c) \/ GetReads(c) PROVE [Abs!Next]_Abs!vars
    <2>1. UNCHANGED <<now, record, phase>>
      BY <1>3 DEF StartTry, GetReads, object
    <2> QED BY <1>0, <2>1, StepsDown
  <1>4. ASSUME NEW c \in Candidates, GetReturns(c) \/ CallFails(c) \/ Crash(c) \/ Restart(c)
        PROVE  [Abs!Next]_Abs!vars
    <2>1. UNCHANGED <<now, record>>
      BY <1>4 DEF GetReturns, CallFails, Crash, Restart, object
    <2>2. phase' = phase \/ \E p \in {"acquire", "over"} : phase' = [phase EXCEPT ![c] = p]
      BY <1>4 DEF GetReturns, CallFails, Crash, Restart, TryFails, LastTryFails, Exit
    <2> QED BY <1>0, <2>1, <2>2, StepsDown
  <1>5. ASSUME NEW c \in Candidates, PutApplies(c) PROVE [Abs!Next]_Abs!vars
    BY <1>5, PutIsWriting, WriteGrants DEF Abs!Next
  <1>7. ASSUME NEW w \in late, LateApplies(w) PROVE [Abs!Next]_Abs!vars
    BY <1>7, LateIsWriting, WriteGrants DEF Abs!Next
  <1>6. ASSUME NEW c \in Candidates, PutReturns(c) PROVE [Abs!Next]_Abs!vars
    <2>1. /\ call[c] = "ok" /\ phase' = [phase EXCEPT ![c] = "renew"]
          /\ now' = now /\ record' = record
      BY <1>6 DEF PutReturns, object
    <2>2. Leaders' = Leaders \cup {c}
      BY <1>0, <2>1 DEF Leaders, Leads, TypeOK
    <2>3. record.holder = c /\ now < record.renewTime + LeaseDuration
      BY <2>1, NotOver
    <2>4. ~(now >= record.renewTime + LeaseDuration)
      BY <2>3, TimesAssumption DEF IInv, TypeOK, Record
    <2>5. Abs!Begin(c)
      BY <2>1, <2>2, <2>3, <2>4 DEF Abs!Begin, Abs!Over, Leaders
    <2> QED BY <2>5 DEF Abs!Next
  <1> QED BY <1>1, <1>2, <1>3, <1>4, <1>5, <1>6, <1>7 DEF Next

\* ImplementsLease: the candidates, who read and write a record and look at
\* the clock, share a lease.  It changes hands only when it is over, no
\* renewal shortens it, and a client acts only as its owner and has stopped
\* when it ends (leaderelection.go:170-312).
THEOREM RecordIsALease == Spec => ImplementsLease
  <1>1. Init => Abs!Init
    BY DEF Init, Abs!Init, NoRecord, Leads
  <1>2. IInv /\ IInv' /\ [Next]_vars => [Abs!Next]_Abs!vars
    BY LeaseStep
  <1> QED BY <1>1, <1>2, InvAlways, PTL DEF Spec, ImplementsLease, Abs!Spec

\* Whoever leads is the holder of the record, whose lease is not over: no
\* candidate can take it from the leader (leaderelection.go:170-312).
THEOREM LeaseIsExclusive == Spec => []Abs!Exclusive
  <1>1. IInv => Abs!Exclusive
    <2> SUFFICES ASSUME IInv, NEW c \in Candidates, Leads(c)
                 PROVE  record.holder = c /\ ~(now >= record.renewTime + LeaseDuration)
      BY DEF Abs!Exclusive, Abs!Over
    <2>1. record.holder = c /\ now < record.renewTime + LeaseDuration
      BY NotOver DEF Leads
    <2>2. now \in Nat /\ record.renewTime \in Int
      BY DEF IInv, TypeOK, Record
    <2> QED BY <2>1, <2>2, TimesAssumption
  <1> QED BY <1>1, InvAlways, PTL
=============================================================================
