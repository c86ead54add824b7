----------------------------- MODULE WorkQueue -----------------------------
(***************************************************************************)
(* The work queue that feeds the workers of every controller               *)
(* (pkg/util/workqueue/queue.go).                                          *)
(*                                                                         *)
(* Every method of Type holds q.cond.L from its first to its last line, so *)
(* a method is one action, except Get: cond.Wait releases the lock, parks  *)
(* the goroutine until a Signal or a Broadcast, and takes the lock again   *)
(* before the loop condition is re-evaluated.  A worker is therefore in    *)
(* one of five places:                                                     *)
(*   "idle"    about to call Get;                                          *)
(*   "parked"  inside cond.Wait, not notified;                             *)
(*   "woken"   notified, waiting for cond.L;                               *)
(*   "working" returned from Get with held[w], Done not yet called;        *)
(*   "exited"  told to shut down by Get.                                   *)
(* A worker that never parked may take the lock before a woken one: the    *)
(* model lets "idle" and "woken" workers run Get in any order.             *)
(***************************************************************************)
EXTENDS Naturals, Sequences, FiniteSets

CONSTANTS
    Items,      \* the keys that can be added
    Workers,    \* the goroutines that run Get ... Done in a loop
    None        \* the item of a worker that holds none

ASSUME WorkersFinite == IsFiniteSet(Workers)
ASSUME NoneIsNoItem  == None \notin Items

VARIABLES
    queue,          \* the order in which items are worked on
    dirty,          \* the items that need processing
    processing,     \* the items that are being processed
    shuttingDown,   \* ShutDown has been called
    pc,             \* where each worker is
    held            \* the item Get returned to each worker

vars == <<queue, dirty, processing, shuttingDown, pc, held>>

Places == {"idle", "parked", "woken", "working", "exited"}

TypeOK ==
    /\ queue \in Seq(Items)
    /\ dirty \subseteq Items
    /\ processing \subseteq Items
    /\ shuttingDown \in BOOLEAN
    /\ pc \in [Workers -> Places]
    /\ held \in [Workers -> Items \cup {None}]

Parked == {w \in Workers : pc[w] = "parked"}
Woken  == {w \in Workers : pc[w] = "woken"}

Init ==
    /\ queue = <<>>
    /\ dirty = {}
    /\ processing = {}
    /\ shuttingDown = FALSE
    /\ pc = [w \in Workers |-> "idle"]
    /\ held = [w \in Workers |-> None]

-----------------------------------------------------------------------------
\* sync.Cond's Signal wakes one parked goroutine if there is one; f is the
\* worker table the caller leaves behind.
Signal(f) ==
    LET parked == {w \in Workers : f[w] = "parked"}
    IN  \/ parked = {} /\ pc' = f
        \/ \E w \in parked : pc' = [f EXCEPT ![w] = "woken"]

Broadcast(f) ==
    pc' = [w \in Workers |-> IF f[w] = "parked" THEN "woken" ELSE f[w]]

-----------------------------------------------------------------------------
(* Deviations: each is the body some action would have with one line of    *)
(* the code missing or misplaced.  No specification uses them; every       *)
(* property below is refuted by one of them.                               *)

\* Add without its call of Signal.
AddWithoutSignal(i) ==
    /\ ~shuttingDown /\ i \notin dirty
    /\ i \notin processing
    /\ dirty' = dirty \cup {i}
    /\ queue' = Append(queue, i)
    /\ UNCHANGED <<processing, shuttingDown, pc, held>>

\* Add that queues an item although it is being processed.
AddQueuesProcessing(i) ==
    /\ ~shuttingDown /\ i \notin dirty
    /\ i \in processing
    /\ dirty' = dirty \cup {i}
    /\ queue' = Append(queue, i)
    /\ Signal(pc)
    /\ UNCHANGED <<processing, shuttingDown, held>>

\* ShutDown with Signal in the place of Broadcast.
ShutDownSignals ==
    /\ shuttingDown' = TRUE
    /\ Signal(pc)
    /\ UNCHANGED <<queue, dirty, processing, held>>

\* Get that tells a worker to stop as soon as the queue is shutting down,
\* without draining it.
GetShutdownAtOnce(w) ==
    /\ pc[w] \in {"idle", "woken"}
    /\ shuttingDown
    /\ pc' = [pc EXCEPT ![w] = "exited"]
    /\ UNCHANGED <<queue, dirty, processing, shuttingDown, held>>

-----------------------------------------------------------------------------
\* Add returns early on a queue that is shutting down and on a dirty item.
AddIgnored(i) ==
    /\ shuttingDown \/ i \in dirty
    /\ UNCHANGED vars

\* An item that is being processed is only marked: Done will queue it.
AddWhileProcessing(i) ==
    /\ ~shuttingDown /\ i \notin dirty
    /\ i \in processing
    /\ dirty' = dirty \cup {i}
    /\ UNCHANGED <<queue, processing, shuttingDown, pc, held>>

AddToQueue(i) ==
    /\ ~shuttingDown /\ i \notin dirty
    /\ i \notin processing
    /\ dirty' = dirty \cup {i}
    /\ queue' = Append(queue, i)
    /\ Signal(pc)
    /\ UNCHANGED <<processing, shuttingDown, held>>

Add(i) == AddIgnored(i) \/ AddWhileProcessing(i) \/ AddToQueue(i)

\* Get is entered by an idle worker and re-entered by a woken one.
InGet(w) == pc[w] \in {"idle", "woken"}

GetWait(w) ==
    /\ InGet(w)
    /\ queue = <<>> /\ ~shuttingDown
    /\ pc' = [pc EXCEPT ![w] = "parked"]
    /\ UNCHANGED <<queue, dirty, processing, shuttingDown, held>>

GetShutdown(w) ==
    /\ InGet(w)
    /\ queue = <<>> /\ shuttingDown
    /\ pc' = [pc EXCEPT ![w] = "exited"]
    /\ UNCHANGED <<queue, dirty, processing, shuttingDown, held>>

GetItem(w) ==
    /\ InGet(w)
    /\ queue # <<>>
    /\ queue' = Tail(queue)
    /\ processing' = processing \cup {Head(queue)}
    /\ dirty' = dirty \ {Head(queue)}
    /\ pc' = [pc EXCEPT ![w] = "working"]
    /\ held' = [held EXCEPT ![w] = Head(queue)]
    /\ UNCHANGED shuttingDown

Get(w) == GetWait(w) \/ GetShutdown(w) \/ GetItem(w)

\* Done(held[w]), after which the worker loops back to Get.
Done(w) ==
    /\ pc[w] = "working"
    /\ processing' = processing \ {held[w]}
    /\ held' = [held EXCEPT ![w] = None]
    /\ \/ /\ held[w] \in dirty
          /\ queue' = Append(queue, held[w])
          /\ Signal([pc EXCEPT ![w] = "idle"])
       \/ /\ held[w] \notin dirty
          /\ pc' = [pc EXCEPT ![w] = "idle"]
          /\ UNCHANGED queue
    /\ UNCHANGED <<dirty, shuttingDown>>

ShutDown ==
    /\ shuttingDown' = TRUE
    /\ Broadcast(pc)
    /\ UNCHANGED <<queue, dirty, processing, held>>

Next ==
    \/ \E i \in Items : Add(i)
    \/ \E w \in Workers : Get(w) \/ Done(w)
    \/ ShutDown

Spec == Init /\ [][Next]_vars

\* Goroutines are scheduled fairly by the Go runtime and syncs return: a
\* worker that can run Get or Done eventually does.  Nobody has to call Add
\* or ShutDown.
Fairness == \A w \in Workers : WF_vars(Get(w)) /\ WF_vars(Done(w))

FairSpec == Spec /\ Fairness

-----------------------------------------------------------------------------
(* Properties.                                                             *)

InQueue(i) == \E k \in 1..Len(queue) : queue[k] = i

\* The comment on Type.queue: every element of queue is dirty and is not
\* being processed, and no item is queued twice.
QueueSound ==
    /\ \A k \in 1..Len(queue) : queue[k] \in dirty \ processing
    /\ \A j, k \in 1..Len(queue) : queue[j] = queue[k] => j = k

\* No Add is lost: a dirty item is either queued or will be queued by the
\* Done of the worker that is processing it.
NoLostAdd == \A i \in dirty : InQueue(i) \/ i \in processing

\* What controllers rely on ("the workqueue guarantees that they will not end
\* up processing the same service at the same time"): an item is in the hands
\* of at most one worker, and processing holds exactly the items in hand.
OneWorkerPerItem ==
    /\ \A v, w \in Workers :
         pc[v] = "working" /\ pc[w] = "working" /\ held[v] = held[w] => v = w
    /\ processing = {held[w] : w \in {v \in Workers : pc[v] = "working"}}

\* Signal wakes one goroutine per queued item, and an idle worker may take the
\* item first: still, while a worker stays parked, every queued item has a
\* woken worker on its way to it.
NoLostWakeup == Parked # {} => Len(queue) <= Cardinality(Woken)

\* After the Broadcast of ShutDown no worker parks again.
NobodyParkedAfterShutDown == shuttingDown => Parked = {}

\* The inductive invariant: the parts above hold each other up.  QueueSound
\* needs OneWorkerPerItem (a Done frees the only holder), NoLostWakeup needs
\* that parking happens on an empty queue only.
IInv ==
    /\ TypeOK
    /\ QueueSound
    /\ NoLostAdd
    /\ \A w \in Workers : pc[w] = "working" => held[w] \in Items
    /\ OneWorkerPerItem
    /\ NoLostWakeup
    /\ NobodyParkedAfterShutDown

\* The detailed queue implements the abstract one: what is dirty is pending,
\* and an item is in the hands of the worker between Get and Done.
Abs == INSTANCE WorkSet WITH
         pending <- dirty,
         holding <- [w \in Workers |-> IF pc[w] = "working" THEN held[w] ELSE None],
         closed  <- shuttingDown,
         gone    <- {w \in Workers : pc[w] = "exited"}

\* The queue hands out an item only while it is pending and in nobody's hands,
\* an Add during processing makes it pending again, and Get says "shutdown" only
\* when nothing is left to hand out.
ImplementsWorkSet == Abs!Spec

\* Every added item is handed to a worker after the Add, also when ShutDown
\* comes in between (the queue is drained first).
EveryAddServed ==
    \A i \in Items : i \in dirty ~> (i \in processing /\ i \notin dirty)

\* "As soon as the worker goroutines have drained the existing items in the
\* queue, they will be instructed to exit."
WorkersExitAfterShutDown ==
    shuttingDown ~> (dirty = {} /\ \A w \in Workers : pc[w] = "exited")

=============================================================================
