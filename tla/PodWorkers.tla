----------------------------- MODULE PodWorkers -----------------------------
(***************************************************************************)
(* The kubelet's pod workers (pkg/kubelet/pod_workers.go): one goroutine   *)
(* per pod runs managePodLoop over a channel of capacity one; an update    *)
(* that arrives while the pod is being synced waits in                     *)
(* lastUndeliveredWorkUpdate.  ForgetWorker closes the channel and drops   *)
(* the waiting update but leaves isWorking alone, so a pod that comes back *)
(* gets a second goroutine while the first may still be syncing it.        *)
(*                                                                         *)
(* UpdatePod, removeWorker and checkForUpdates hold podLock: each is one   *)
(* action.  A worker is at                                                 *)
(*   "free"      no goroutine: the slot may be used for a new one;         *)
(*   "receive"   at the head of the range over its channel;                *)
(*   "sync"      inside GetNewerThan or syncPodFn;                         *)
(*   "callback"  about to call OnCompleteFunc;                             *)
(*   "wrapup"    about to put the pod into the work queue;                 *)
(*   "check"     about to call checkForUpdates.                            *)
(* An update is [n, kill]; n numbers the calls of UpdatePod.  killPodNow   *)
(* waits for the callback of its kill, which sends on an unbuffered        *)
(* channel, or for a timeout.  The other callers are handlers of syncLoop, *)
(* one goroutine, which first takes what is due out of the work queue and  *)
(* then dispatches it pod by pod.                                          *)
(***************************************************************************)
EXTENDS Naturals, FiniteSets

CONSTANTS
    UIDs,           \* the pods
    Workers,        \* slots for worker goroutines
    None,           \* no worker, no pod
    MaxCalls,       \* bound on the calls of UpdatePod
    MaxTimeouts     \* bound on the kills whose caller gives up

ASSUME NoneIsNoWorker == None \notin Workers /\ None \notin UIDs
ASSUME BoundsAreNaturals == MaxCalls \in Nat /\ MaxTimeouts \in Nat

VARIABLES
    podUpdates,     \* the worker whose channel UpdatePod sends to
    isWorking,      \* an update of the pod is being delivered or processed
    lastUndelivered,\* lastUndeliveredWorkUpdate
    workQueue,      \* the pods that wait for their next periodic sync
    pods,           \* the pods podManager knows
    terminated,     \* those whose status, as far as known, is Failed or Succeeded
    toSync,         \* the pods getPodsToSync has returned, not yet dispatched
    pc, pod,        \* of each worker: its place and its pod
    buf, closed,    \* of each worker: its channel
    cur,            \* of each worker: the update it processes
    calls,          \* the calls of UpdatePod so far
    waiting,        \* the kills whose caller waits for the callback
    timeouts,
    synced          \* history: the updates synced per pod

workerVars == <<pc, pod, buf, closed, cur>>
callerVars == <<calls, waiting, timeouts>>
podVars == <<pods, terminated>>
vars == <<podUpdates, isWorking, lastUndelivered, workQueue, podVars, toSync, workerVars,
          callerVars, synced>>

Updates == [n : 0..MaxCalls, kill : BOOLEAN]
NoUpdate == [n |-> 0, kill |-> FALSE]
Places == {"free", "receive", "sync", "callback", "wrapup", "check"}
Processing == {"sync", "callback", "wrapup", "check"}

TypeOK ==
    /\ podUpdates \in [UIDs -> Workers \cup {None}]
    /\ isWorking \in [UIDs -> BOOLEAN]
    /\ lastUndelivered \in [UIDs -> Updates]
    /\ workQueue \subseteq UIDs
    /\ pods \subseteq UIDs /\ terminated \subseteq UIDs /\ toSync \subseteq UIDs
    /\ pc \in [Workers -> Places]
    /\ pod \in [Workers -> UIDs \cup {None}]
    /\ buf \in [Workers -> Updates]
    /\ closed \in [Workers -> BOOLEAN]
    /\ cur \in [Workers -> Updates]
    /\ calls \in 0..MaxCalls
    /\ waiting \subseteq 1..MaxCalls
    /\ timeouts \in 0..MaxTimeouts
    /\ synced \in [UIDs -> SUBSET (1..MaxCalls)]

Init ==
    /\ podUpdates = [u \in UIDs |-> None]
    /\ isWorking = [u \in UIDs |-> FALSE]
    /\ lastUndelivered = [u \in UIDs |-> NoUpdate]
    /\ workQueue = {} /\ pods = {} /\ terminated = {} /\ toSync = {}
    /\ pc = [w \in Workers |-> "free"]
    /\ pod = [w \in Workers |-> None]
    /\ buf = [w \in Workers |-> NoUpdate]
    /\ closed = [w \in Workers |-> FALSE]
    /\ cur = [w \in Workers |-> NoUpdate]
    /\ calls = 0 /\ timeouts = 0
    /\ waiting = {}
    /\ synced = [u \in UIDs |-> {}]

-----------------------------------------------------------------------------
\* UpdatePod finds the pod's worker, or starts one.
Channel(u, w) ==
    \/ /\ podUpdates[u] = w
       /\ UNCHANGED <<podUpdates, pc, pod, closed>>
    \/ /\ podUpdates[u] = None
       /\ pc[w] = "free"
       /\ podUpdates' = [podUpdates EXCEPT ![u] = w]
       /\ pc' = [pc EXCEPT ![w] = "receive"]
       /\ pod' = [pod EXCEPT ![w] = u]
       /\ closed' = [closed EXCEPT ![w] = FALSE]

\* The pod is idle: send the update to its worker's channel.
Send(u, w, x) ==
    /\ ~isWorking[u]
    /\ buf[w] = NoUpdate
    /\ isWorking' = [isWorking EXCEPT ![u] = TRUE]
    /\ buf' = [buf EXCEPT ![w] = x]
    /\ UNCHANGED lastUndelivered

\* Deviation: a pending kill is overwritten.
KeepOverwritesKill(u, x) ==
    /\ isWorking[u]
    /\ lastUndelivered' = [lastUndelivered EXCEPT ![u] = x]
    /\ UNCHANGED <<isWorking, buf>>

\* The pod is being synced: keep the update, unless a kill is pending.
Keep(u, x) ==
    /\ isWorking[u]
    /\ lastUndelivered' = IF lastUndelivered[u].kill THEN lastUndelivered
                          ELSE [lastUndelivered EXCEPT ![u] = x]
    /\ UNCHANGED <<isWorking, buf>>

UpdatePod(u, kill) ==
    /\ calls < MaxCalls
    /\ calls' = calls + 1
    /\ \E w \in Workers :
          /\ Channel(u, w)
          /\ LET x == [n |-> calls + 1, kill |-> kill] IN Send(u, w, x) \/ Keep(u, x)
    /\ UNCHANGED <<cur, timeouts, synced>>

\* dispatchWork: a terminated pod is not given to a worker.
DispatchWork(u) ==
    \/ u \notin terminated /\ UpdatePod(u, FALSE)
    \/ /\ u \in terminated
       /\ UNCHANGED <<podUpdates, isWorking, lastUndelivered, workerVars, calls, timeouts, synced>>

\* HandlePodAdditions: the pod is admitted or rejected, which is a status of
\* Failed; one that was terminated before comes with its status.
AddPod(u) ==
    /\ toSync = {} /\ u \notin pods
    /\ pods' = pods \cup {u}
    /\ \/ /\ terminated' = terminated \ {u}
          /\ UpdatePod(u, FALSE)
       \/ /\ terminated' = terminated \cup {u}
          /\ UNCHANGED <<podUpdates, isWorking, lastUndelivered, workerVars, calls, timeouts, synced>>
    /\ UNCHANGED <<workQueue, toSync, waiting>>

\* HandlePodUpdates, and the syncs asked for by PLEG, by the liveness manager or
\* by a pod's deadline (PodSyncLoopHandlers).
Dispatch(u) ==
    /\ toSync = {} /\ u \in pods
    /\ DispatchWork(u)
    /\ UNCHANGED <<workQueue, podVars, toSync, waiting>>

\* syncLoop's ticker: GetWork takes all that is due out of the queue;
\* getPodsToSync drops what podManager does not know.
GetPodsToSync(S) ==
    /\ toSync = {}
    /\ S # {} /\ S \subseteq workQueue
    /\ workQueue' = workQueue \ S
    /\ toSync' = S \cap pods
    /\ UNCHANGED <<podUpdates, isWorking, lastUndelivered, podVars, workerVars, callerVars, synced>>

\* HandlePodSyncs, one pod of its loop.
PeriodicSync(u) ==
    /\ u \in toSync
    /\ toSync' = toSync \ {u}
    /\ DispatchWork(u)
    /\ UNCHANGED <<workQueue, podVars, waiting>>

\* killPodNow up to its select.  The eviction manager has taken the pod from a
\* list of active pods, which it may have left since.
KillPodNow(u) ==
    /\ isWorking[u] \/ synced[u] # {}
    /\ UpdatePod(u, TRUE)
    /\ waiting' = waiting \cup {calls + 1}
    /\ UNCHANGED <<workQueue, podVars, toSync>>

\* killPodNow gives up.
KillTimesOut(n) ==
    /\ n \in waiting
    /\ timeouts < MaxTimeouts
    /\ timeouts' = timeouts + 1
    /\ waiting' = waiting \ {n}
    /\ UNCHANGED <<podUpdates, isWorking, lastUndelivered, workQueue, podVars, toSync, workerVars,
                   calls, synced>>

-----------------------------------------------------------------------------
\* Deviation: the undelivered update of a forgotten pod is kept.
ForgetKeepsUndelivered(S) ==
    /\ closed' = [w \in Workers |-> closed[w] \/ \E u \in S : podUpdates[u] = w]
    /\ podUpdates' = [u \in UIDs |-> IF u \in S THEN None ELSE podUpdates[u]]
    /\ UNCHANGED <<isWorking, lastUndelivered>>

\* Deviation: isWorking is cleared together with the worker.
ForgetClearsIsWorking(S) ==
    /\ closed' = [w \in Workers |-> closed[w] \/ \E u \in S : podUpdates[u] = w]
    /\ podUpdates' = [u \in UIDs |-> IF u \in S THEN None ELSE podUpdates[u]]
    /\ lastUndelivered' = [u \in UIDs |-> IF u \in S THEN NoUpdate ELSE lastUndelivered[u]]
    /\ isWorking' = [u \in UIDs |-> u \notin S /\ isWorking[u]]

\* removeWorker for the pods of S, by ForgetWorker or ForgetNonExistingPodWorkers.
Forget(S) ==
    /\ closed' = [w \in Workers |-> closed[w] \/ \E u \in S : podUpdates[u] = w]
    /\ podUpdates' = [u \in UIDs |-> IF u \in S THEN None ELSE podUpdates[u]]
    /\ lastUndelivered' = [u \in UIDs |-> IF u \in S THEN NoUpdate ELSE lastUndelivered[u]]
    /\ UNCHANGED isWorking

\* HandlePodDeletions: while not all sources are ready the worker is left alone.
DeletePod(u) ==
    /\ toSync = {} /\ u \in pods
    /\ pods' = pods \ {u}
    /\ Forget({u}) \/ UNCHANGED <<closed, podUpdates, lastUndelivered, isWorking>>
    /\ UNCHANGED <<workQueue, terminated, toSync, pc, pod, buf, cur, callerVars, synced>>

\* HandlePodCleanups: workers of pods that are unknown or terminated end.
HandlePodCleanups ==
    /\ toSync = {}
    /\ Forget(UIDs \ (pods \ terminated))
    /\ UNCHANGED <<workQueue, podVars, toSync, pc, pod, buf, cur, callerVars, synced>>

-----------------------------------------------------------------------------
\* The worker receives an update from its channel.
Receive(w) ==
    /\ pc[w] = "receive"
    /\ buf[w] # NoUpdate
    /\ cur' = [cur EXCEPT ![w] = buf[w]]
    /\ buf' = [buf EXCEPT ![w] = NoUpdate]
    /\ pc' = [pc EXCEPT ![w] = "sync"]
    /\ UNCHANGED <<podUpdates, isWorking, lastUndelivered, workQueue, podVars, toSync, pod, closed,
                   callerVars, synced>>

\* The channel is closed and empty: the goroutine ends.
Exit(w) ==
    /\ pc[w] = "receive"
    /\ closed[w] /\ buf[w] = NoUpdate
    /\ pc' = [pc EXCEPT ![w] = "free"]
    /\ pod' = [pod EXCEPT ![w] = None]
    /\ closed' = [closed EXCEPT ![w] = FALSE]
    /\ UNCHANGED <<podUpdates, isWorking, lastUndelivered, workQueue, podVars, toSync, buf, cur,
                   callerVars, synced>>

\* GetNewerThan and syncPodFn return; syncPod has set the pod's status.
SyncPod(w) ==
    /\ pc[w] = "sync"
    /\ synced' = [synced EXCEPT ![pod[w]] = @ \cup {cur[w].n}]
    /\ terminated' \in {terminated, terminated \cup {pod[w]}, terminated \ {pod[w]}}
    /\ pc' = [pc EXCEPT ![w] = "callback"]
    /\ UNCHANGED <<podUpdates, isWorking, lastUndelivered, workQueue, pods, toSync, pod, buf,
                   closed, cur, callerVars>>

\* OnCompleteFunc: the callback of a kill blocks until killPodNow receives.
OnComplete(w) ==
    /\ pc[w] = "callback"
    /\ cur[w].kill => cur[w].n \in waiting
    /\ waiting' = waiting \ {cur[w].n}
    /\ pc' = [pc EXCEPT ![w] = "wrapup"]
    /\ UNCHANGED <<podUpdates, isWorking, lastUndelivered, workQueue, podVars, toSync, pod, buf,
                   closed, cur, calls, timeouts, synced>>

\* Deviation: the pod is put into the work queue after a failed sync only.
WrapUpOnErrorOnly(w) ==
    /\ pc[w] = "wrapup"
    /\ workQueue' \in {workQueue, workQueue \cup {pod[w]}}
    /\ pc' = [pc EXCEPT ![w] = "check"]
    /\ UNCHANGED <<podUpdates, isWorking, lastUndelivered, podVars, toSync, pod, buf, closed, cur,
                   callerVars, synced>>

\* wrapUp: after the resync interval or, if the sync failed, the back-off
\* period the pod is synced again.
WrapUp(w) ==
    /\ pc[w] = "wrapup"
    /\ workQueue' = workQueue \cup {pod[w]}
    /\ pc' = [pc EXCEPT ![w] = "check"]
    /\ UNCHANGED <<podUpdates, isWorking, lastUndelivered, podVars, toSync, pod, buf, closed, cur,
                   callerVars, synced>>

\* Deviation: the update that is sent stays undelivered.
CheckSendsTwice(w) ==
    LET u == pod[w]
    IN  /\ pc[w] = "check"
        /\ \/ /\ lastUndelivered[u] # NoUpdate
              /\ podUpdates[u] # None /\ buf[podUpdates[u]] = NoUpdate
              /\ buf' = [buf EXCEPT ![podUpdates[u]] = lastUndelivered[u]]
              /\ UNCHANGED <<lastUndelivered, isWorking>>
           \/ /\ lastUndelivered[u] = NoUpdate
              /\ isWorking' = [isWorking EXCEPT ![u] = FALSE]
              /\ UNCHANGED <<buf, lastUndelivered>>
        /\ pc' = [pc EXCEPT ![w] = "receive"]
        /\ cur' = [cur EXCEPT ![w] = NoUpdate]
        /\ UNCHANGED <<podUpdates, workQueue, podVars, toSync, pod, closed, callerVars, synced>>

\* checkForUpdates sends the undelivered update to the pod's channel, which is
\* not this worker's if the pod was forgotten and came back.
CheckForUpdates(w) ==
    LET u == pod[w]
    IN  /\ pc[w] = "check"
        /\ \/ /\ lastUndelivered[u] # NoUpdate
              /\ podUpdates[u] # None /\ buf[podUpdates[u]] = NoUpdate
              /\ buf' = [buf EXCEPT ![podUpdates[u]] = lastUndelivered[u]]
              /\ lastUndelivered' = [lastUndelivered EXCEPT ![u] = NoUpdate]
              /\ UNCHANGED isWorking
           \/ /\ lastUndelivered[u] = NoUpdate
              /\ isWorking' = [isWorking EXCEPT ![u] = FALSE]
              /\ UNCHANGED <<buf, lastUndelivered>>
        /\ pc' = [pc EXCEPT ![w] = "receive"]
        /\ cur' = [cur EXCEPT ![w] = NoUpdate]
        /\ UNCHANGED <<podUpdates, workQueue, podVars, toSync, pod, closed, callerVars, synced>>

Work(w) ==
    \/ Receive(w) \/ Exit(w) \/ SyncPod(w)
    \/ OnComplete(w) \/ WrapUp(w) \/ CheckForUpdates(w)

Next ==
    \/ \E u \in UIDs : AddPod(u) \/ Dispatch(u) \/ PeriodicSync(u) \/ KillPodNow(u) \/ DeletePod(u)
    \/ \E S \in SUBSET UIDs : GetPodsToSync(S)
    \/ HandlePodCleanups
    \/ \E n \in waiting : KillTimesOut(n)
    \/ \E w \in Workers : Work(w)

Spec == Init /\ [][Next]_vars

\* A worker goroutine runs on unless it is blocked, and a sync returns.
Fairness == \A w \in Workers : WF_vars(Work(w))
FairSpec == Spec /\ Fairness

-----------------------------------------------------------------------------
\* A worker that has an update of its pod, or is processing one.
Active(w) == buf[w] # NoUpdate \/ pc[w] \in Processing

\* A pod is never synced by two goroutines at once, not even when it is
\* forgotten and comes back while the first goroutine is still busy.
OneSyncPerPod ==
    \A v, w \in Workers :
        pc[v] \in Processing /\ pc[w] \in Processing /\ pod[v] = pod[w] => v = w

\* "it is guaranteed that in such case the channel is empty, so buffer of
\* size 1 is enough": a send made under podLock finds an open channel with a
\* free slot, otherwise every caller of UpdatePod would block with it.
SendsNeverBlock ==
    /\ \A u \in UIDs : ~isWorking[u] /\ podUpdates[u] # None =>
          buf[podUpdates[u]] = NoUpdate /\ ~closed[podUpdates[u]]
    /\ \A w \in Workers : pc[w] = "check" /\ lastUndelivered[pod[w]] # NoUpdate =>
          /\ podUpdates[pod[w]] # None
          /\ buf[podUpdates[pod[w]]] = NoUpdate
          /\ ~closed[podUpdates[pod[w]]]

\* The inductive invariant behind the two properties above.  Workers that run
\* have a pod and idle slots no update; a pod's channel is open and its own;
\* a pod with an active worker is marked, and has one active worker only; a
\* worker that processes an update has an empty channel; what is undelivered
\* has a channel to go to and a worker to bring it there.
Located ==
    \A w \in Workers : IF pc[w] = "free" THEN buf[w] = NoUpdate ELSE pod[w] \in UIDs
ChannelsOpen ==
    \A u \in UIDs : podUpdates[u] # None =>
        /\ pod[podUpdates[u]] = u
        /\ pc[podUpdates[u]] # "free"
        /\ ~closed[podUpdates[u]]
ActiveIsMarked == \A w \in Workers : Active(w) => isWorking[pod[w]]
OneActivePerPod ==
    \A v, w \in Workers : Active(v) /\ Active(w) /\ pod[v] = pod[w] => v = w
ProcessingHasEmptyChannel ==
    \A w \in Workers : pc[w] \in Processing => buf[w] = NoUpdate
UndeliveredHasChannel ==
    \A u \in UIDs : lastUndelivered[u] # NoUpdate => podUpdates[u] # None /\ isWorking[u]
Numbered ==
    /\ \A u \in UIDs : lastUndelivered[u] = NoUpdate \/ lastUndelivered[u].n \in 1..MaxCalls
    /\ \A w \in Workers : buf[w] = NoUpdate \/ buf[w].n \in 1..MaxCalls
    /\ \A w \in Workers : pc[w] \in Processing => cur[w].n \in 1..MaxCalls

IInv ==
    /\ TypeOK
    /\ Located
    /\ ChannelsOpen
    /\ ActiveIsMarked
    /\ OneActivePerPod
    /\ ProcessingHasEmptyChannel
    /\ UndeliveredHasChannel
    /\ Numbered

\* No update of a pod is synced after one that was requested later, and none
\* is synced twice, whichever goroutine syncs it.
SyncsInOrder ==
    \A w \in Workers : pc[w] = "sync" => \A m \in synced[pod[w]] : m < cur[w].n

\* A pod that podManager knows, that has not ended and that has a worker is
\* being synced, waits for its next sync, or is about to be dispatched: it is
\* never left to wait for somebody else's event (wrapUp, getPodsToSync and
\* dispatchWork: pod_workers.go:259, kubelet.go:2131, 2633).
PodStaysScheduled ==
    \A u \in pods \ terminated :
        podUpdates[u] # None => isWorking[u] \/ u \in workQueue \cup toSync

\* "if a request to kill a pod is pending, we do not let anything overwrite
\* that request": only delivery and removeWorker take it away.
PendingKillKept ==
    [][\A u \in UIDs : lastUndelivered[u].kill =>
          lastUndelivered'[u] \in {lastUndelivered[u], NoUpdate}]_vars

\* A kill that has to wait behind a sync is carried out in the end, whatever is
\* requested meanwhile, unless the pod is forgotten or a caller has timed out.
PendingKillServed ==
    \A u \in UIDs, n \in 1..MaxCalls :
        lastUndelivered[u] = [n |-> n, kill |-> TRUE]
            ~> n \in synced[u] \/ podUpdates[u] = None \/ timeouts > 0

\* When the requests stop and no kill has timed out, every pod's worker comes
\* to rest, with nothing undelivered.
WorkersComeToRest ==
    <>[](timeouts = 0 => \A u \in UIDs : ~isWorking[u] /\ lastUndelivered[u] = NoUpdate)

=============================================================================
