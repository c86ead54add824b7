--------------------------- MODULE DelayingQueue ---------------------------
(***************************************************************************)
(* The work queue with delayed additions                                   *)
(* (pkg/util/workqueue/delaying_queue.go).  delayingType embeds the queue  *)
(* of module WorkQueue, whose methods its users go on calling.  AddAfter   *)
(* sends an entry into a buffered channel; the goroutine waitingLoop keeps *)
(* the entries sorted by the time they are due and calls Add for each when *)
(* that has come.                                                          *)
(*                                                                         *)
(* Entries are [id, at, item].  waitingLoop is at "top" (head of the       *)
(* loop), "add" (adding the ready entries, one locked Add after another),  *)
(* "select", "drain" (the inner loop that empties the channel) or          *)
(* "exited"; a caller is idle or blocked in AddAfter's select.  The clock  *)
(* may advance between any two steps; MaxTime stands for all later times.  *)
(***************************************************************************)
EXTENDS WorkQueue

CONSTANTS
    Callers,    \* the goroutines that call AddAfter
    Cap,        \* capacity of waitingForAddCh (1000 in the code)
    MaxTime,    \* bound on the clock
    MaxIds      \* bound on the number of calls of AddAfter

ASSUME BoundsAreNaturals == Cap \in Nat \ {0} /\ MaxTime \in Nat /\ MaxIds \in Nat

Never == MaxTime + 1

VARIABLES
    now,            \* the clock
    waitingForAddCh,
    waitingForAdd,  \* sorted list of entries
    stopped,        \* stopCh is closed
    loop,           \* where waitingLoop is
    loopNow,        \* its variable now
    beat,           \* the heartbeat channel has a tick
    nextReadyAt,    \* when the timer of the select fires, or Never
    caller,         \* the entry each caller is sending, or NoEntry
    ids,            \* history: the number of calls so far
    added           \* history: the entries for which Add was called, and when

delayVars == <<now, waitingForAddCh, waitingForAdd, stopped, loop, loopNow,
               beat, nextReadyAt, caller, ids, added>>
allVars == <<vars, delayVars>>

Entry == [id : 1..MaxIds, at : 0..MaxTime, item : Items]
NoEntry == [id |-> 0, at |-> 0, item |-> None]

LoopTypeOK ==
    /\ now \in 0..MaxTime
    /\ waitingForAddCh \in Seq(Entry) /\ Len(waitingForAddCh) <= Cap
    /\ waitingForAdd \in Seq(Entry)
    /\ stopped \in BOOLEAN
    /\ loop \in {"top", "add", "select", "drain", "exited"} /\ loopNow \in 0..MaxTime
    /\ beat \in BOOLEAN
    /\ nextReadyAt \in 0..Never
    /\ caller \in [Callers -> Entry \cup {NoEntry}]
    /\ ids \in 0..MaxIds
    /\ added \subseteq [id : 1..MaxIds, at : 0..MaxTime, item : Items, time : 0..MaxTime]

DelayTypeOK == TypeOK /\ LoopTypeOK

DelayInit ==
    /\ Init
    /\ now = 0
    /\ waitingForAddCh = <<>> /\ waitingForAdd = <<>>
    /\ stopped = FALSE
    /\ loop = "top" /\ loopNow = 0
    /\ beat = FALSE
    /\ nextReadyAt = Never
    /\ caller = [c \in Callers |-> NoEntry]
    /\ ids = 0
    /\ added = {}

Added(e) == [id |-> e.id, at |-> e.at, item |-> e.item, time |-> now]

\* The item of an entry is added; a queue that shuts down takes nothing.
Put(e) ==
    /\ Add(e.item)
    /\ added' = IF shuttingDown THEN added ELSE added \cup {Added(e)}

\* Time passes; the heartbeat may tick, every maxWait.
Tick ==
    /\ now < MaxTime
    /\ now' = now + 1
    /\ beat' \in {beat, TRUE}
    /\ UNCHANGED <<vars, waitingForAddCh, waitingForAdd, stopped, loop, loopNow,
                   nextReadyAt, caller, ids, added>>

-----------------------------------------------------------------------------
\* AddAfter up to its select: nothing when the queue shuts down, an addition
\* at once without a delay.
AddAfter(c, i, d) ==
    /\ caller[c] = NoEntry
    /\ ~shuttingDown
    /\ ids < MaxIds /\ now + d <= MaxTime
    /\ ids' = ids + 1
    /\ LET e == [id |-> ids + 1, at |-> now + d, item |-> i]
       IN  \/ d = 0 /\ Put(e) /\ UNCHANGED caller
           \/ d > 0 /\ caller' = [caller EXCEPT ![c] = e] /\ UNCHANGED <<vars, added>>
    /\ UNCHANGED <<now, beat, waitingForAddCh, waitingForAdd, stopped, loop, loopNow, nextReadyAt>>

\* AddAfter's select sends the entry.
SendEntry(c) ==
    /\ caller[c] # NoEntry
    /\ Len(waitingForAddCh) < Cap
    /\ waitingForAddCh' = Append(waitingForAddCh, caller[c])
    /\ caller' = [caller EXCEPT ![c] = NoEntry]
    /\ UNCHANGED <<vars, now, beat, waitingForAdd, stopped, loop, loopNow, nextReadyAt, ids, added>>

\* Deviation: AddAfter's select has no case for stopCh.
NeverUnblocked(c) == caller[c] # NoEntry /\ FALSE

\* AddAfter's select takes the case of the closed stopCh.
Unblocked(c) ==
    /\ caller[c] # NoEntry
    /\ stopped
    /\ caller' = [caller EXCEPT ![c] = NoEntry]
    /\ UNCHANGED <<vars, now, beat, waitingForAddCh, waitingForAdd, stopped, loop, loopNow,
                   nextReadyAt, ids, added>>

\* The two statements of ShutDown, which is called once (a second close of
\* stopCh would panic).
ShutDownQueue ==
    /\ ~shuttingDown
    /\ ShutDown
    /\ UNCHANGED delayVars

CloseStopCh ==
    /\ shuttingDown /\ ~stopped
    /\ stopped' = TRUE
    /\ UNCHANGED <<vars, now, beat, waitingForAddCh, waitingForAdd, loop, loopNow,
                   nextReadyAt, caller, ids, added>>

\* The methods of Interface, which delayingType inherits.
UseQueue ==
    /\ \/ \E i \in Items : Add(i)
       \/ \E w \in Workers : Get(w) \/ Done(w)
    /\ UNCHANGED delayVars

-----------------------------------------------------------------------------
\* Deviation: the entry goes before those that are due at the same time or
\* earlier.
insertFirst(entries, e) == <<e>> \o entries

\* The entry goes behind the last one that is not due later: in a sorted list
\* that is where sort.Search finds the first one that is.
insert(entries, e) ==
    LET n == Cardinality({i \in DOMAIN entries : entries[i].at <= e.at})
    IN  SubSeq(entries, 1, n) \o <<e>> \o SubSeq(entries, n + 1, Len(entries))

LoopExit ==
    /\ loop = "top"
    /\ shuttingDown
    /\ waitingForAdd' = <<>>
    /\ loop' = "exited"
    /\ UNCHANGED <<vars, now, beat, waitingForAddCh, stopped, loopNow, nextReadyAt, caller, ids, added>>

\* The loop reads the clock.
LoopTop ==
    /\ loop = "top"
    /\ ~shuttingDown
    /\ loopNow' = now
    /\ loop' = "add"
    /\ UNCHANGED <<vars, now, beat, waitingForAddCh, waitingForAdd, stopped, nextReadyAt, caller, ids, added>>

HeadIsReady == waitingForAdd # <<>> /\ Head(waitingForAdd).at <= loopNow

\* A ready entry is added.  (The slice is cut when all of them are; nobody
\* else looks at it meanwhile.)
AddReady ==
    /\ loop = "add"
    /\ HeadIsReady
    /\ Put(Head(waitingForAdd))
    /\ waitingForAdd' = Tail(waitingForAdd)
    /\ UNCHANGED <<now, beat, waitingForAddCh, stopped, loop, loopNow, nextReadyAt, caller, ids>>

\* Deviation: no timer is set.
SetNoTimer ==
    /\ loop = "add"
    /\ ~HeadIsReady
    /\ nextReadyAt' = Never
    /\ loop' = "select" /\ loopNow' = 0
    /\ UNCHANGED <<vars, now, beat, waitingForAddCh, waitingForAdd, stopped, caller, ids, added>>

\* Deviation: one entry too many is cut off.
SetTimerCutsOneMore ==
    /\ loop = "add"
    /\ ~HeadIsReady
    /\ waitingForAdd' = IF waitingForAdd = <<>> THEN <<>> ELSE Tail(waitingForAdd)
    /\ nextReadyAt' = IF waitingForAdd = <<>> THEN Never ELSE Head(waitingForAdd).at
    /\ loop' = "select" /\ loopNow' = 0
    /\ UNCHANGED <<vars, now, beat, waitingForAddCh, stopped, caller, ids, added>>

\* The timer of the select is set for the first of the others, counted from
\* the time the loop has read: it is late by what the additions have taken.
SetTimer ==
    /\ loop = "add"
    /\ ~HeadIsReady
    /\ LET fires == now + (Head(waitingForAdd).at - loopNow)
       IN  nextReadyAt' = CASE waitingForAdd = <<>> -> Never
                            [] waitingForAdd # <<>> /\ fires <= MaxTime -> fires
                            [] waitingForAdd # <<>> /\ fires > MaxTime  -> MaxTime
    /\ loop' = "select" /\ loopNow' = 0
    /\ UNCHANGED <<vars, now, beat, waitingForAddCh, waitingForAdd, stopped, caller, ids, added>>

\* The select returns because stopCh is closed.
SelectStop ==
    /\ loop = "select"
    /\ stopped
    /\ loop' = "exited"
    /\ UNCHANGED <<vars, now, beat, waitingForAddCh, waitingForAdd, stopped, loopNow,
                   nextReadyAt, caller, ids, added>>

SelectHeartbeat ==
    /\ loop = "select"
    /\ beat /\ beat' = FALSE
    /\ loop' = "top"
    /\ UNCHANGED <<vars, now, waitingForAddCh, waitingForAdd, stopped, loopNow,
                   nextReadyAt, caller, ids, added>>

SelectTimer ==
    /\ loop = "select"
    /\ now >= nextReadyAt
    /\ loop' = "top"
    /\ UNCHANGED <<vars, now, beat, waitingForAddCh, waitingForAdd, stopped, loopNow,
                   nextReadyAt, caller, ids, added>>

\* Deviation: an entry is added when it is received, due or not.
ReceiveAdds ==
    /\ loop \in {"select", "drain"}
    /\ waitingForAddCh # <<>>
    /\ Put(Head(waitingForAddCh))
    /\ waitingForAddCh' = Tail(waitingForAddCh)
    /\ loop' = "drain"
    /\ UNCHANGED <<now, beat, waitingForAdd, stopped, loopNow, nextReadyAt, caller, ids>>

\* An entry is received: added if it is due, kept otherwise.  The channel is
\* then drained.
ReceiveEntry ==
    /\ loop \in {"select", "drain"}
    /\ waitingForAddCh # <<>>
    /\ LET e == Head(waitingForAddCh)
       IN  \/ e.at > now  /\ waitingForAdd' = insert(waitingForAdd, e) /\ UNCHANGED <<vars, added>>
           \/ e.at <= now /\ Put(e) /\ UNCHANGED waitingForAdd
    /\ waitingForAddCh' = Tail(waitingForAddCh)
    /\ loop' = "drain"
    /\ UNCHANGED <<now, beat, stopped, loopNow, nextReadyAt, caller, ids>>

Drained ==
    /\ loop = "drain"
    /\ waitingForAddCh = <<>>
    /\ loop' = "top"
    /\ UNCHANGED <<vars, now, beat, waitingForAddCh, waitingForAdd, stopped, loopNow,
                   nextReadyAt, caller, ids, added>>

WaitingLoop ==
    \/ LoopExit \/ LoopTop \/ AddReady \/ SetTimer
    \/ SelectStop \/ SelectTimer \/ ReceiveEntry \/ Drained

DelayNext ==
    \/ Tick
    \/ \E c \in Callers :
          \/ \E i \in Items, d \in 0..MaxTime : AddAfter(c, i, d)
          \/ SendEntry(c) \/ Unblocked(c)
    \/ ShutDownQueue \/ CloseStopCh
    \/ UseQueue
    \/ WaitingLoop \/ SelectHeartbeat

DelaySpec == DelayInit /\ [][DelayNext]_allVars

\* Time passes, the loop's goroutine runs whenever a case of its select is
\* ready (the heartbeat is not relied on), Go serves the senders blocked on a
\* channel in order, and ShutDown, once begun, is completed.
DelayFairness ==
    /\ WF_allVars(Tick) /\ WF_allVars(WaitingLoop) /\ WF_allVars(CloseStopCh)
    /\ \A c \in Callers : SF_allVars(SendEntry(c)) /\ WF_allVars(Unblocked(c))
DelayFairSpec == DelaySpec /\ DelayFairness

-----------------------------------------------------------------------------
\* Nothing is added before its delay has passed, and nothing is added twice.
AddedOnTime ==
    \A a \in added : a.time >= a.at /\ \A b \in added : a.id = b.id => a = b

\* Until shutdown, every entry that a call of AddAfter has taken on is
\* somewhere between the caller and the work queue.
NothingLost ==
    shuttingDown \/ \A n \in 1..ids :
        \/ \E c \in Callers : caller[c].id = n
        \/ \E i \in DOMAIN waitingForAddCh : waitingForAddCh[i].id = n
        \/ \E i \in DOMAIN waitingForAdd : waitingForAdd[i].id = n
        \/ \E a \in added : a.id = n

\* "waitingForAdd is an ordered slice": the loop stops at its first entry that
\* is not due, and sort.Search is right on sorted slices only.
WaitingIsSorted ==
    \A i, j \in DOMAIN waitingForAdd : i < j => waitingForAdd[i].at <= waitingForAdd[j].at

\* Every call of AddAfter leads to an addition, unless the queue is shut down.
EveryEntryAdded ==
    \A n \in 1..MaxIds : ids >= n ~> (shuttingDown \/ \E a \in added : a.id = n)

\* No caller of AddAfter stays blocked, not even when the channel is full and
\* the loop has exited.
CallersReturn == \A c \in Callers : caller[c] # NoEntry ~> caller[c] = NoEntry
=============================================================================
