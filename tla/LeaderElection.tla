--------------------------- MODULE LeaderElection ---------------------------
(***************************************************************************)
(* Leader election (pkg/client/leaderelection): candidates compete for a   *)
(* record kept as an annotation of an Endpoints object.                    *)
(*                                                                         *)
(* Time is the variable now; a candidate's clock may differ from it by an  *)
(* offset, which no comparison in the code can tell, but not in its rate.  *)
(* A try is two calls of the API server, each of at most Delay; the server *)
(* reads or writes at some moment of the call.  Everything else a          *)
(* candidate does takes no time, except that it may be late to start a     *)
(* try.  Any call may fail, and a process may crash and start again under  *)
(* its identity; a write whose caller has given up or died may be applied  *)
(* at any later time, if the object is still the one that was read.        *)
(*                                                                         *)
(* The package says of itself that it "does not guarantee that only one    *)
(* client is acting as a leader": RenewDeadline < LeaseDuration, which is  *)
(* all that is checked, is not enough.  LeaseAssumption is what is.        *)
(***************************************************************************)
EXTENDS Integers, FiniteSets

CONSTANTS
    Candidates,
    Nobody,             \* the holder of the zero record
    LeaseDuration, RenewDeadline, RetryPeriod,
    Second,             \* the unit to which a stored time is cut
    Delay,              \* the longest time a call takes
    MaxTime,            \* bound on now
    MaxLate             \* bound on the abandoned writes on their way at a time

ASSUME NobodyIsNobody == Nobody \notin Candidates
ASSUME TimesAssumption ==
    /\ LeaseDuration \in Nat /\ RenewDeadline \in Nat /\ Delay \in Nat /\ MaxTime \in Nat
    /\ MaxLate \in Nat
    /\ RetryPeriod \in Nat \ {0} /\ Second \in Nat \ {0}

\* What NewLeaderElector checks.
ASSUME ConfigAssumption ==
    /\ LeaseDuration > RenewDeadline
    /\ 5 * RenewDeadline > 6 * RetryPeriod

\* What it takes: the last renewal is two calls old when Poll begins, two
\* tries of two calls may follow the deadline, and the renewal may have left
\* the record of an earlier one within the same second.
ASSUME LeaseAssumption ==
    LeaseDuration >= RenewDeadline + 6 * Delay + Second

VARIABLES
    now,
    exists,         \* there is an Endpoints object
    record,         \* its LeaderElectionRecord
    phase,          \* where Run is: in acquire, in renew, or over
    call,           \* where tryAcquireOrRenew is
    tryStart,       \* now, as taken at its beginning
    callStart,      \* when the pending call was made
    seen,           \* the record that Get returned
    fresh,          \* the object still has the resource version Get returned
    observed,       \* observedRecord
    observedTime,
    due,            \* when the next try is due
    deadline,       \* when the channel of wait.Poll is closed
    final,          \* this is the try after that
    late,           \* the writes on their way whose callers do not wait for them
    lease           \* history: the start of the last try that succeeded

object  == <<exists, record>>
try     == <<tryStart, callStart, seen>>
timing  == <<due, deadline, final>>
vars    == <<now, object, phase, call, try, fresh, observed, observedTime, timing, late, lease>>

\* AcquireTime is the same for all records of a holder until there is another.
Record   == [holder : Candidates \cup {Nobody}, renewTime : Int, transitions : Nat]
NoRecord == [holder |-> Nobody, renewTime |-> 0, transitions |-> 0]

TypeOK ==
    /\ now \in Nat
    /\ exists \in BOOLEAN /\ record \in Record
    /\ phase \in [Candidates -> {"acquire", "renew", "over"}]
    /\ call \in [Candidates -> {"none", "get", "got", "put", "ok"}]
    /\ tryStart \in [Candidates -> Nat] /\ callStart \in [Candidates -> Nat]
    /\ seen \in [Candidates -> Record] /\ fresh \in [Candidates -> BOOLEAN]
    /\ observed \in [Candidates -> Record] /\ observedTime \in [Candidates -> Nat]
    /\ due \in [Candidates -> Nat] /\ deadline \in [Candidates -> Nat]
    /\ final \in [Candidates -> BOOLEAN]
    /\ late \subseteq [by : Candidates, renewTime : Int]
    /\ lease \in [Candidates -> Nat]

\* The Endpoints object may exist without the annotation.
Init ==
    /\ now = 0
    /\ exists \in BOOLEAN /\ record = NoRecord
    /\ phase = [c \in Candidates |-> "acquire"]
    /\ call = [c \in Candidates |-> "none"]
    /\ tryStart = [c \in Candidates |-> 0] /\ callStart = [c \in Candidates |-> 0]
    /\ seen = [c \in Candidates |-> NoRecord] /\ fresh = [c \in Candidates |-> FALSE]
    /\ observed = [c \in Candidates |-> NoRecord]
    /\ observedTime = [c \in Candidates |-> 0]
    /\ due = [c \in Candidates |-> 0] /\ deadline = [c \in Candidates |-> 0]
    /\ final = [c \in Candidates |-> FALSE]
    /\ late = {}
    /\ lease = [c \in Candidates |-> 0]

Leads(c) == phase[c] = "renew"

\* A time as it is stored: RFC 3339 has no fractions of a second.
Stored(t) == t - (t % Second)

\* tryAcquireOrRenew returns: its variables are gone.
Return(c) ==
    /\ tryStart' = [tryStart EXCEPT ![c] = 0]
    /\ callStart' = [callStart EXCEPT ![c] = 0]
    /\ seen' = [seen EXCEPT ![c] = NoRecord]
    /\ fresh' = [fresh EXCEPT ![c] = FALSE]

-----------------------------------------------------------------------------
(* Deviations, see module WorkQueue.                                       *)

\* A new record leaves observedTime as it was.
FirstSeenOnce(c) == IF observed[c] = NoRecord THEN now ELSE observedTime[c]

\* renew that goes on when the last try has failed.
LastTryForgiven(c) ==
    /\ final[c]
    /\ call' = [call EXCEPT ![c] = "none"]
    /\ due' = [due EXCEPT ![c] = now + RetryPeriod]
    /\ deadline' = [deadline EXCEPT ![c] = now + RenewDeadline]
    /\ final' = [final EXCEPT ![c] = FALSE]
    /\ Return(c)
    /\ UNCHANGED <<phase, lease, observed, observedTime>>

\* Update that does not compare resource versions.
PutAppliesUnchecked(c) ==
    /\ call[c] = "put"
    /\ exists' = TRUE
    /\ record' = [holder |-> c, renewTime |-> Stored(tryStart[c]), transitions |-> 0]
    /\ fresh' = [d \in Candidates |-> FALSE] /\ late' = {}
    /\ call' = [call EXCEPT ![c] = "ok"]
    /\ UNCHANGED <<now, phase, try, observed, observedTime, timing, lease>>

-----------------------------------------------------------------------------
\* A try begins when it is due: in acquire after a jittered RetryPeriod, in
\* renew at a tick, or because the deadline has closed the channel.
StartTry(c) ==
    /\ call[c] = "none"
    /\ \/ /\ phase[c] = "acquire" /\ now >= due[c]
          /\ UNCHANGED final
       \/ /\ phase[c] = "renew" /\ now >= due[c] /\ now <= deadline[c]
          /\ UNCHANGED final
       \/ /\ phase[c] = "renew" /\ now >= deadline[c]
          /\ final' = [final EXCEPT ![c] = TRUE]
    /\ call' = [call EXCEPT ![c] = "get"]
    /\ tryStart' = [tryStart EXCEPT ![c] = now]
    /\ callStart' = [callStart EXCEPT ![c] = now]
    /\ due' = [due EXCEPT ![c] = 0]
    /\ UNCHANGED <<now, object, phase, seen, fresh, observed, observedTime, deadline, late, lease>>

\* The process ends, its memory is lost.
Exit(c) ==
    /\ phase' = [phase EXCEPT ![c] = "over"]
    /\ observed' = [observed EXCEPT ![c] = NoRecord]
    /\ observedTime' = [observedTime EXCEPT ![c] = 0]
    /\ due' = [due EXCEPT ![c] = 0] /\ deadline' = [deadline EXCEPT ![c] = 0]
    /\ final' = [final EXCEPT ![c] = FALSE]
    /\ lease' = [lease EXCEPT ![c] = 0]

\* tryAcquireOrRenew returns false, and is called again in acquire after
\* RetryPeriod, in renew at the next tick.
TryFails(c) ==
    /\ ~final[c]
    /\ call' = [call EXCEPT ![c] = "none"]
    /\ due' = [due EXCEPT ![c] =
                 IF phase[c] = "acquire" THEN now + RetryPeriod
                 ELSE now + RetryPeriod - ((now + RenewDeadline - deadline[c]) % RetryPeriod)]
    /\ Return(c)
    /\ UNCHANGED <<phase, deadline, final, lease>>

\* It was Poll's last call: renew and Run return, OnStoppedLeading is called.
LastTryFails(c) ==
    /\ final[c]
    /\ call' = [call EXCEPT ![c] = "none"]
    /\ Return(c)
    /\ Exit(c)

\* The server answers Get.
GetReads(c) ==
    /\ call[c] = "get"
    /\ seen' = [seen EXCEPT ![c] = record]
    /\ fresh' = [fresh EXCEPT ![c] = TRUE]
    /\ call' = [call EXCEPT ![c] = "got"]
    /\ UNCHANGED <<now, object, phase, tryStart, callStart, observed, observedTime, timing, late, lease>>

\* observedTime is when the record was first seen.
FirstSeen(c) == IF seen[c] = observed[c] THEN observedTime[c] ELSE now

\* An object without a record is not looked at.
Observe(c) ==
    \/ seen[c] = NoRecord /\ UNCHANGED <<observed, observedTime>>
    \/ /\ seen[c] # NoRecord
       /\ observed' = [observed EXCEPT ![c] = seen[c]]
       /\ observedTime' = [observedTime EXCEPT ![c] = FirstSeen(c)]

\* The lease of another was not over when the try began.
Refused(c) ==
    /\ seen[c] # NoRecord
    /\ tryStart[c] < FirstSeen(c) + LeaseDuration
    /\ seen[c].holder # c

\* Get has returned.
GetReturns(c) ==
    /\ call[c] = "got"
    /\ \/ /\ ~Refused(c)
          /\ call' = [call EXCEPT ![c] = "put"]
          /\ callStart' = [callStart EXCEPT ![c] = now]
          /\ Observe(c)
          /\ UNCHANGED <<phase, timing, tryStart, seen, fresh, lease>>
       \/ Refused(c) /\ TryFails(c) /\ Observe(c)
       \/ Refused(c) /\ LastTryFails(c)
    /\ UNCHANGED <<now, object, late>>

\* The server performs Create or Update for a try of c with the time t: the
\* object is the one that Get returned, and no other write that has been sent
\* finds it so.  (A renewal writes the zero it began with over
\* LeaderTransitions.)
Write(c, t) ==
    /\ exists' = TRUE
    /\ record' = [holder |-> c, renewTime |-> t,
                  transitions |-> IF ~exists \/ record.holder = c
                                    THEN 0 ELSE record.transitions + 1]
    /\ fresh' = [d \in Candidates |-> FALSE]
    /\ late' = {}

PutApplies(c) ==
    /\ call[c] = "put"
    /\ fresh[c]
    /\ Write(c, Stored(tryStart[c]))
    /\ call' = [call EXCEPT ![c] = "ok"]
    /\ UNCHANGED <<now, phase, try, observed, observedTime, timing, lease>>

\* So late that nobody waits for the answer.
LateApplies(w) ==
    /\ w \in late
    /\ Write(w.by, w.renewTime)
    /\ UNCHANGED <<now, phase, call, try, observed, observedTime, timing, lease>>

\* The try has succeeded: the candidate leads, and a new Poll begins.
\* (observedRecord has its times uncut, which matters to no comparison: the
\* holder's own record is never refused.)
PutReturns(c) ==
    /\ call[c] = "ok"
    /\ call' = [call EXCEPT ![c] = "none"]
    /\ phase' = [phase EXCEPT ![c] = "renew"]
    /\ observed' = [observed EXCEPT ![c] = record]
    /\ observedTime' = [observedTime EXCEPT ![c] = now]
    /\ due' = [due EXCEPT ![c] = now + RetryPeriod]
    /\ deadline' = [deadline EXCEPT ![c] = now + RenewDeadline]
    /\ final' = [final EXCEPT ![c] = FALSE]
    /\ lease' = [lease EXCEPT ![c] = tryStart[c]]
    /\ Return(c)
    /\ UNCHANGED <<now, object, late>>

\* The caller is gone: a write it has sent may be lost, or be applied yet.
Abandon(c) ==
    \/ UNCHANGED late
    \/ /\ call[c] = "put" /\ fresh[c]
       /\ Cardinality(late) < MaxLate
       /\ late' = late \cup {[by |-> c, renewTime |-> Stored(tryStart[c])]}

\* A call returns an error: a conflict, or the request or the answer is lost.
CallFails(c) ==
    /\ call[c] # "none"
    /\ \/ TryFails(c) /\ UNCHANGED <<observed, observedTime>>
       \/ LastTryFails(c)
    /\ Abandon(c)
    /\ UNCHANGED <<now, object>>

Crash(c) ==
    /\ phase[c] # "over"
    /\ Exit(c)
    /\ call' = [call EXCEPT ![c] = "none"]
    /\ Return(c)
    /\ Abandon(c)
    /\ UNCHANGED <<now, object>>

Restart(c) ==
    /\ phase[c] = "over"
    /\ phase' = [phase EXCEPT ![c] = "acquire"]
    /\ due' = [due EXCEPT ![c] = now]
    /\ UNCHANGED <<now, object, call, try, fresh, observed, observedTime, deadline, final, late, lease>>

\* Time passes, but not beyond the end of a call, nor while a closed channel
\* waits to be noticed.
MayPass(c) ==
    /\ call[c] # "none" => now < callStart[c] + Delay
    /\ call[c] = "none" /\ phase[c] = "renew" => now < deadline[c]

Tick ==
    /\ now < MaxTime
    /\ \A c \in Candidates : MayPass(c)
    /\ now' = now + 1
    /\ UNCHANGED <<object, phase, call, try, fresh, observed, observedTime, timing, late, lease>>

Next ==
    \/ Tick
    \/ \E c \in Candidates :
          \/ StartTry(c) \/ GetReads(c) \/ GetReturns(c) \/ PutApplies(c) \/ PutReturns(c)
          \/ CallFails(c) \/ Crash(c) \/ Restart(c)
    \/ \E w \in late : LateApplies(w)

Spec == Init /\ [][Next]_vars

-----------------------------------------------------------------------------
\* A client that acts as leader is the holder on record, so there is never
\* another: the callbacks OnStartedLeading of two clients do not overlap
\* (leaderelection.go:170-180).
LeaderHoldsRecord == \A c \in Candidates : Leads(c) => record.holder = c

\* A leader that cannot renew steps down in time, whatever fails: the poll of
\* renew gives up at its deadline (leaderelection.go:221-236, wait.go:206-268).
StepsDownInTime ==
    \A c \in Candidates : Leads(c) => now <= lease[c] + RenewDeadline + 6 * Delay

\* The record passes from one holder to another only when it is older than
\* the lease, whatever is lost, crashes or is restarted
\* (leaderelection.go:290-298).
LeaseRespected ==
    [][ record.holder \notin {Nobody, record'.holder}
            => now >= record.renewTime + LeaseDuration ]_vars

\* Clients that act as leaders do so under a lease, of which they know only what
\* they have read and when: the record is the lease, granted from the second in
\* which the try began that wrote it, and no renewal makes it shorter
\* (leaderelection.go:241-312).
Abs == INSTANCE Lease WITH
         Clients  <- Candidates,
         Duration <- LeaseDuration,
         owner    <- record.holder,
         since    <- record.renewTime,
         acting   <- {c \in Candidates : Leads(c)}

ImplementsLease == Abs!Spec

=============================================================================
