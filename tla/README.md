# A TLA+ verification project for Hypernetes

Hypernetes is Kubernetes with a hypervisor-based container runtime (Hyper), multi-tenant
networks, and load balancers that an external *network provider* (Neutron, behind gRPC)
implements. This directory holds TLA+ models of the parts of it that are concurrent and
stateful, the TLC configurations that check them, and TLAPS proofs of the results that
should hold for every number of items, workers, pods and events.

Every definition is translated from the source; `PROJECT.json` maps it to the lines it
stands for. Operators whose comment begins with *Deviation* are what an action would be
with a plausible mistake in it. No specification uses them; they show that each property
would notice that mistake.

## 1. The system and its parts

```
 API server (etcd, watch cache)
      |  list / watch                                      ^ writes: status, bindings, pods, leases
      v                                                    |
 Reflector --> DeltaFIFO --> store + handlers --> WorkQueue --> controllers: network, replica sets,
 (informer: pkg/client/cache, controller/framework)             attach/detach, scheduler (one leader)
      |                                                    ^
      v                                                    |  node status: volumes attached / in use
 kubelet syncLoop --> pod workers --> runtime       volume manager (populator, reconciler)
```

| part | state | operations | what makes it correct |
|---|---|---|---|
| work queue, `pkg/util/workqueue/queue.go` | `queue`, `dirty`, `processing`, `shuttingDown`, a condition variable | Add, Get, Done, ShutDown | an item has one worker at a time; an Add during processing leads to another processing; no lost wake-up; shutdown drains |
| delaying queue, `delaying_queue.go` | a channel of 1000 entries, a list sorted by due time, timer, heartbeat, `stopCh` | AddAfter, waitingLoop, ShutDown | nothing early, nothing lost, callers never stuck |
| rate limiters, `default_rate_limiters.go` | failures per item | When, Forget | delays grow to the maximum and stay there |
| DeltaFIFO, `delta_fifo.go` | deltas per key, queue of keys, population count | Add, Update, Delete, Replace, Resync, Pop | queue and deltas agree; deletions are reported once; the store follows the server |
| Reflector, `reflector.go` | resource version, resync timer | ListAndWatch, watchHandler, resync goroutine | the store catches up after every failure |
| pod workers, `pod_workers.go` | per pod: a channel, `isWorking`, the last undelivered update; the kubelet's work queue | UpdatePod, killPodNow, ForgetWorker, managePodLoop | one sync per pod; `podLock` never held for ever; a pending kill is not overwritten |
| network controller, `network_controller.go` | service and endpoints caches, a work queue, the provider's load balancers | event handlers, startUp, syncService | each NetworkProvider service has the load balancer it asks for, deleted ones none |
| attach/detach controller, `pkg/controller/volume` | desired and actual state of the world, lists to report per node, one pending operation per volume | pod and node handlers, the reconciler, status updater, attach and detach operations | never detaches what is mounted; what nobody uses is detached |
| kubelet volume manager, `pkg/kubelet/volume`, `pkg/volume/util/operationexecutor` | desired and actual state, `reportedInUse`, pending operations | populator, reconciler, verify, mount, unmount, the node status heartbeat | mounts only what is attached; a pod gets its volume |
| leader election, `pkg/client/leaderelection` | the record in an Endpoints annotation; per client the record it observed and when | acquire, renew, tryAcquireOrRenew | one leader; it steps down before the lease is over |
| expectations and replica sets, `controller_utils.go`, `pkg/controller/replicaset` | expected creations and deletions per set, stores of pods and sets, a work queue | handlers, syncReplicaSet, manageReplicas, updateReplicaCount | not too many pods, none deleted twice, convergence |
| scheduler, `plugin/pkg/scheduler` | the cache (pod states, assumed pods, pods per node), the pod queue, bindings and retries under way | scheduleOne, bind, the error function, AddPod, UpdatePod, RemovePod, expiry | every pod counted once and where it runs; no node overcommitted |
| PLEG, status manager, Hyper runtime, volume binder, watch cache, allocators, other controllers | see section 6 | | not modelled |

The parts meet in a few places. Informer handlers run inside DeltaFIFO's `Pop`, under its
lock, and put keys into a work queue. Workers take the keys and read the informer's store,
which by then may be older or newer than the event that queued the key. Their remote calls
interleave with users, other controllers and other workers. The hard behaviours come from
there: stale caches, relists that cross pending deltas, timers and goroutines that outlive
the call that started them, timeouts that race with late answers, restarts, and calls that
fail after taking effect. The attach/detach controller and the kubelet agree through two lists in
the node's status, each read from a copy; the scheduler goes on before its write is confirmed; the
replica set controller remembers what it did because its store does not show it yet. `PROJECT.json` lists these under "hazards", at their lines, with
the properties that cover them.

## 2. Modules

| module | models | remarks |
|---|---|---|
| `WorkSet` | what `workqueue.Type` promises | abstract: items are marked, taken by one worker at a time, finished; no queue, no condition variable |
| `WorkQueue` | `workqueue.Type` | one action per critical section; a waiting worker is *parked* or *woken*; `ImplementsWorkSet` is the refinement of `WorkSet` (INSTANCE ... WITH) |
| `DelayingQueue` | `delayingType` | `EXTENDS WorkQueue`, which it embeds as the code does; time is a counter that may advance between any two steps |
| `RateLimiter` | `ItemExponentialFailureRateLimiter` | int64 as four 16-bit digits, since the overflow is the point |
| `DeltaFIFO` | `DeltaFIFO` and the informer's `Process` | actions without a `Next`; an object is its resource version |
| `Informer` | Reflector and API server on top of `DeltaFIFO` | `EXTENDS DeltaFIFO`; the server is the history of its collections |
| `PodWorkers` | `podWorkers`, `killPodNow`, `basicWorkQueue`, and the handlers of `kubelet.go` that feed them | goroutines are slots, a pod may have several over time |
| `NetworkController` | services, endpoints and load balancers | each remote call of `syncService` is a step; uses the work queue's guarantee (one worker per key), which `WorkQueueProofs` proves |
| `KubeletVolumes` | the kubelet's volume manager and node status heartbeat, and the API server's lists | actions without a `Next` |
| `AttachDetach` | the attach/detach controller of one node, composed with its kubelet | `EXTENDS KubeletVolumes`; both loops, all operations and both watches interleave |
| `Lease` | what leader election promises | abstract: a lease with an owner and a beginning, and the clients that act under it; no calls, no records read |
| `LeaderElection` | `LeaderElector`, `wait.Poll` | real time: calls take up to `Delay`, the record's times are cut to `Second`; `ImplementsLease` is the refinement of `Lease` |
| `Expectations` | `ControllerExpectations`, `UIDTrackingControllerExpectations` | actions on one set's expectations |
| `ReplicaSet` | the replica set controller for one set | `EXTENDS Expectations` |
| `Scheduler` | scheduler cache, scheduling loop, bindings and retries | room on a node is a number of pods and a number of units, a pod needing one |
| `MC*` | symmetry sets, the volumes of pods, state constraints | the other modules need no definitions for TLC and are run as they are |
| `*Proofs` | TLAPS proofs | section 5 |

Correspondence with the code, beyond the map:

* **Locks.** A method that holds a lock from its first to its last line is one action.
  `Get` is split at `cond.Wait`; `AddAfter` and `waitingLoop` at their selects; the pod
  worker loop at every point where it does not hold `podLock`; `syncService` at every remote
  call.
* **WorkQueue.** `Signal` wakes any one parked worker (the documented contract of
  `sync.Cond`); a worker that never slept may enter `Get` before the woken one.
* **Informer.** A list with `ResourceVersion: "0"` comes from the API server's cache and may be
  old; the model allows every collection from the reflector's version on. A watch delivers
  changes in order and may end anywhere. `timer` and `orphans` follow the resync goroutines:
  the deferred `cleanup` of `ListAndWatch` is bound to the first timer only. `diverged` is a
  history variable with the keys for which a relist or a resync crossed a pending delta. `Resync`
  takes the lock for reading only, although it changes the maps: it excludes every other method the
  informer calls, but not a second Resync. Two of them race, which is left out; they are taken one after the other.
* **PodWorkers.** `Forget(S)` is `removeWorker` for the pods of S; it closes the channel, drops
  the undelivered update and, as in the code, leaves `isWorking` alone. The unbuffered send of
  a kill's callback is enabled only while `killPodNow` still waits. The sync loop's handlers are one
  goroutine, so while it works off what `getPodsToSync` has taken from the work queue (`toSync`) no other
  handler runs; kills come from the eviction manager at any time. `pods` is what podManager knows,
  `terminated` what `podIsTerminated` says: for such a pod `dispatchWork` returns early, and the next cleanup forgets its
  worker. A sync may end a pod, or find that one which had failed runs. Success and failure of a
  sync differ only in the delay after which the pod is due again; delays are abstracted to
  "some time later".
* **DelayingQueue.** `Interface` is embedded, so the queue's users go on calling Add, Get and Done
  (`UseQueue`). The loop reads the clock, makes one locked Add per ready entry and arms the timer in
  separate steps, between which time passes, others use the queue, and it may be shut down. The timer
  counts from the time that was read, so it fires late by what the additions took. `MaxTime` stands for all later times: a
  timer beyond it fires then.
* **NetworkController.** Services carry type, selector, presence of ExternalIPs, status and
  resource version; host lists are numbers compared for equality (in the code `hostPortsEqual`
  compares them without order). `createLoadBalancer`'s reads of namespace and network are part
  of the step that creates: each may fail, which is the step's failure. `networked` are the services whose
  namespace has a network, chosen at the start; for the others no load balancer is made. The new status is put into the
  informer's own object before it is written (`SetStatus`), so that the cache may show a status the server
  does not have. `startUp` enqueues through the
  endpoints only: the loop over services passes `api.Service` values to `keyFunc`, whose
  `meta.Accessor` accepts pointers only. A remote write that fails may have taken effect. A
  restart loses everything in the process, at any point; a call in flight then either took
  effect or did not. `wasNP` and `switched` are history variables: the services that were once of type
  NetworkProvider, and those that were of another type after that. `enqueueService` ignores the
  deletion of the latter, so `NoLoadBalancerLeaked` leaves them out.
* **WorkSet.** The refinement maps marked items to `dirty` and the item in a worker's hands to
  itself; sleeping, waking and the order of the queue disappear. Leaving is allowed only to a
  worker that finds the set closed with nothing to take, so a `Get` that answered *shutdown*
  while items are queued would not be a step of `WorkSet`.
* **Volumes.** The controller's reconciler is split where it calls out: reading the list to
  report, the patch with the reset of the flag, the start of an operation. `cached` is the informer's
  copy of the node, which the status updater changes before it patches. The goroutine map is the
  value of `cOp` and `kOp`: one operation per volume, and after an error a back-off of unknown
  length. The kubelet's reconciler goes over copies: `kLoop` holds what is left of the pods to unmount, of those to mount
  with the `reportedInUse` they had, and of the unmounted volumes with whether they were globally mounted;
  what the code looks up for each element (`PodExistsInVolume`, `VolumeExists`, the pending operation) is the state of the moment.
  A mount is four steps (`MountDevice`, `MarkDeviceAsMounted`, `SetUp`, `MarkVolumeAsMounted`), each of which
  may fail and leave behind what the earlier ones did. A pod whose volume the populator cannot add counts as processed (`skipped`) until
  a sync of the pod has it processed again. `crossed` is a history variable with the volumes for which the hand-shake of the two
  lists was bypassed; the comment above `MountExcludesDetach` lists the ways, three of the controller and four of the kubelet.
* **LeaderElection.** A try is a Get, then possibly a Create or Update with the resource version that
  was read; each call ends within `Delay`. That is an assumption, of the kind the package documentation asks
  for: the client the code is given sets no timeout of its own. A request may be applied though its answer is
  lost. When its caller has given up or died it may be applied at any later time, if the object is still the one that was read
  (`late`, at most `MaxLate` at a time); `fresh` says whether the object still has the version the
  try has read. The ticks of the poller are dropped when nobody listens and
  one more try follows the deadline, as in `WaitFor`. All clocks run alike. A renewal writes a new
  `LeaderElectionRecord` into which the count of transitions is not copied, so it starts from 0 again.
* **Lease.** The refinement maps the owner to the record's holder, the beginning of the lease to its renew
  time and the acting clients to those in `renew`. A write that is applied is a grant, the return of a successful
  try a beginning, a failed deadline or a crash an end. Time may not pass the end of a lease while somebody
  acts under it: that is what the code has to achieve with clocks and deadlines.
* **ReplicaSet.** Pods are names that are used again only when nobody remembers them. An event is
  put into the store first and then handled (two steps). A pod that has Succeeded or Failed is `done`: it is not active, and
  the controller makes another. After a restart the store is any mixture of what the old process knew and what the server
  has, because the list is read at resource version 0; calls the old process had under way (`late`) are carried out later or
  lost. `blind` is a history variable: expectations expired while the
  informer was behind, were deleted with their set although something was still expected, were lowered for a call
  that took effect, or went with a process that had calls under way or whose successor reads an old list. A restart
  with an up-to-date list and no call under way is not blind.
* **Scheduler.** `podStates` has the node a pod was assumed on or added to, `nodePods` what the cache counts per node. A node without
  Node object stays in the cache while pods are counted on it. `Schedule` reads the lister, then the snapshot, then looks at the nodes one
  by one, and fails as a whole when the cache does not have a node of the lister. The snapshot's lists of pods are copies, so that their
  number (`HasRoom`) is that of one instant; its counters are the cache's own (`Clone`
  copies pointers) and are read without the lock (`CheckNode`), also in the middle of `updatePod`, which is two steps for that
  reason. Pods may be created with a node. The watch of the assigned pods delivers event by event, or skips some by a relist, so that
  events of an old pod meet the record of a new one of its name. The binding runs on its own. `lapsed` is set when an assumption expires with its
  pod on its way, when AssumePod refuses, when an event of an older pod of the same name takes a pod off its node, and by a
  restart, after which bindings of the old process may land late; `misplaced` holds the pods whose assumption was
  confirmed by the event of another node.

## 3. Runs

Passing runs. Each checks the safety and the liveness properties of its component together, but for the
volumes, where safety is checked with a second pod:

| run | instance | shows |
|---|---|---|
| `wq` | 3 items, 4 workers | exclusion, no lost wake-up; implements `WorkSet`; every Add is served, everyone exits after ShutDown |
| `dq` | 2 callers, channel of 1, 2 entries, 1 item, 1 worker, clock to 2 | nothing early or twice, nothing lost, the list sorted; every entry added, nobody stuck |
| `informer` | 2 objects, 4 writes, 2 relists, 1 resync | single reports of deletions, HasSynced, freshness before a resync; the store follows the server, and converges to it, outside `diverged` |
| `pw` | 1 pod, 3 goroutines, 4 requests, 1 timeout | one sync per pod, in order; sends never block; a pod that has not ended stays scheduled; a pending kill is carried out; workers come to rest |
| `nc` | 1 service with or without a network, 2 workers, 3 changes, 2 failures, 1 relist, 1 restart | creation finds nothing, status writes never undo user changes; at rest and without faults the load balancer is right; with faults existing services converge |
| `ad` | 1 node, 2 pods sharing a volume, 1 failure | no volume is detached that is mounted or being mounted, outside `crossed` |
| `ad_live` | 1 pod, 1 failure | the pod gets its volume, an unused volume is released, outside `crossed` |
| `le` | 2 candidates, lease 10, deadline 2, a second of 2 units, calls up to 1, one abandoned write, clock to 10 | a leader is the holder on record and steps down in time; implements `Lease` |
| `rs` | 1 set, 2 pod names, 1 or 2 replicas, 3 changes, 1 failure or restart | never more pods than asked for, none deleted counted again (unless `blind`); convergence, always |
| `sched` | 2 pods, 2 nodes for one pod each, 3 changes and failures together | every pod counted once; no node given too many pods (unless `lapsed`); cache and server agree in the end, outside `misplaced` |

Runs that TLC refutes, each stating what a comment in the code promises:

| run | what the trace shows |
|---|---|
| `rl_hotloop` | the 14th failure gives a negative delay, so the item is retried at once |
| `sched_selfrepair` | binding to n2 fails; the retry chooses n1, `AssumePod` refuses and the refusal is logged; the pod is bound to n1; the Add event confirms the assumption on n2, which no longer expires: the pod is counted on n2 for as long as it lives, and its removal fails |

Further limits, met while modelling and excluded from the properties by name (see the notes of
"hazards"):

* an object created and deleted around a relist while its `Added` delta is pending stays in the
  store; a resync may take the store back to an older version (`diverged`, `FreshUntilResync`);
* a kill whose caller has timed out blocks its pod's worker for ever (`WorkersComeToRest`
  excludes timeouts);
* the load balancer of a service deleted while the network controller is down, or whose
  deletion failed once, is never removed; one whose service changes its type is kept, also when the service is deleted and recreated
  with another type before the deletion is handled; a status write that
  conflicts is not repeated; a network deleted with its final state unknown is not deleted at the provider;
* while the cache updates a pod on a full node, the predicate reads the node's counters without that pod and finds room: a
  second pod may be bound there, beyond the units of the node, although `src/test/e2e/scheduler_predicates.go:301` says that
  limits are kept;
* a device is mounted and not among the volumes in use when its pod leaves the desired state between `MountDevice` and
  `MarkDeviceAsMounted`, although `volume_manager.go:236-238` promises it until it is safely unmounted (`crossed`, once a
  heartbeat reports it);
* the kubelet's reconciler may mount from its copy a volume that its pod has left and the node no longer reports, and unmount a
  device under a pod that was mounted meanwhile (`crossed`);
* after a restart of the replica set controller an old list, or calls of the old process that land late, lead to
  surplus pods for a while (`blind`);
* a volume attached while the status is being patched, or whose patch failed, may go
  unreported until the next change of the list; a disk attached by a call that reports failure
  is not detached; deletions reported as tombstones are ignored by `podDelete`, and the populator
  meant to catch them skips pods that are gone from the informer;
* when the Get of a scheduling retry fails the pod is abandoned; `removePod` of the scheduler
  cache reads the entry of a node without asking whether there is one.

**Bounds.** Every bound is a named constant. Two objects let one key's deltas overtake
another's. Four writes contain create, delete and create again with one write left over; two
relists let a relist cross the deltas of the one before. Pods share nothing in the pod workers but
the lock and the sync loop, so the run has one pod (the theorems are about any number): three goroutines
allow an old and a new one for a pod that was forgotten and came back, and another again; four requests allow
one in processing, one undelivered and others that overwrite it. Three work queue items with four workers
give more sleepers than items and more items than awake workers. Two entries with a channel
of one slot fill the channel and leave a caller blocked; two entries of one item make the loop's Add meet an item that
is already dirty, or in the worker's hands. Each service of the network
controller is handled independently, except that workers are shared: one service with two
workers reaches the interleavings on one key. Three changes allow create, endpoints and then a
change or the deletion, in any order (status writes are not counted). They do not reach a service that is
deleted, recreated with another type and deleted again, which takes five: the theorems of
`NetworkControllerProofs` cover that, and the attempt to prove `NoLoadBalancerLeaked` is what showed that
such services had to be excluded. Two failures exhaust a retry
count of two. In `ad` a second pod that wants the same volume makes every hand-over between an
ending and a beginning use possible; a failure takes the place of one of the four pod events, the wait for an unmount never ends
(the detach that follows it crosses the volume), and behaviours are not followed once the volume is crossed, when nothing is
claimed of it any more. In `ad_live` a failure takes the place of the pod's deletion. `le` needs `LeaseDuration >= RenewDeadline + 6 Delay + Second`:
the assumption is tight (with one unit less TLC finds two leaders), and with the defaults of 15 s and 10 s it asks for calls
shorter than 0.7 s. In `rs` a set of one replica leaves a name for a surplus pod, a set of two fills the burst.
In `sched` three changes and failures together are a pod that is created, deleted and created again, two pods and a
failed binding, or one pod whose binding and retry fail; `MCScheduler` has the two alike pods begin in order, and follows one
pod only once the cache has lapsed, since `NoOvercommit` then ends and the other properties are about one pod each. Symmetry is used only where no liveness property is checked.

**Deadlock** is checked where the system never stops (work queue, rate limiter, volumes). The others rest when their bounded environment has nothing
more to do, so the check is off there.

## 4. Fairness

* Work queue: weak fairness of each worker's Get and Done. Go schedules runnable goroutines and a
  sync is assumed to return. Nobody must call Add or ShutDown.
* Delaying queue: weak fairness of the clock, of the loop and of the second half of ShutDown;
  strong fairness of a caller's send, because Go serves senders blocked on a channel in order.
  The heartbeat is not relied on.
* Informer: weak fairness of listing, of reading the watch, and of processLoop: `wait.Until`
  calls ListAndWatch again for ever. Resyncs are not fair.
* Pod workers: weak fairness of each goroutine; a blocked one is disabled, not unfair.
* Network controller: weak fairness of deliveries, of the resync (every five minutes) and of
  running syncs; strong fairness of handing out a key, because the queue is first-in first-out.
* Volumes: weak fairness of the loops (`wait.Until` calls them for ever), of pending operations, of the
  watches and of the passing of time. Pods are not created or deleted fairly, and calls need not fail.
* Replica sets: weak fairness of the informers, the resync, the expiry of expectations, the worker, the calls of a
  dead process (carried out or lost) and the kubelet that removes a dying or finished pod.
* Scheduler: weak fairness of the watches, the expiry, the scheduling loop, bindings (which may
  fail) and retries. Leader election is checked for safety only.

## 5. Proofs

All proofs hold for arbitrary constants under the ASSUMEs of the modules (finite sets of
workers, keys and pods, natural bounds, a `None` that is no item, worker or pod, an `Absent` that is no
node, at least one attempt to write a status). Every safety invariant, action property and refinement that a
passing run checks is also a theorem, and so is the type invariant of every module but the rate limiter's. A few safety properties are
left to the theorems alone: `NoLostAdd`, `ItemsMatchQueue`, `LeaseRespected` and `PendingKillKept`, whose consequences
the runs check (`EveryAddServed`, `StoreConverges`, `ImplementsLease`, `PendingKillServed`), and `ShowsThePast`. Few of them are
inductive by themselves; the invariants below are what each of them needs.

* `WorkQueueProofs`, first half: `IInv`. `NoLostWakeup` (`Len(queue) <= Cardinality(Woken)` while
  somebody is parked) is the interesting part: it needs that workers park on an empty queue only
  and that each Append comes with a Signal; the cardinality steps use FiniteSetTheorems. The
  exclusion needs that queue, dirty and processing fit together (`QueueSound`), and that in turn
  needs the exclusion, because Done frees an item that nobody else may hold. `QueueImplementsSet` is the
  refinement: initial states map to initial states and each action to one of `WorkSet` or a stutter; the
  step that answers shutdown needs `IInv`, because a worker may only leave when nothing marked is free.
* `WorkQueueProofs`, second half: the delaying queue on top of it. `DelayInv` says that an entry is in one place at a
  time (`OnePlace`), there once (`ThereOnce`), and until shutdown somewhere (`SomePlace`); that the list is
  sorted; and that the time the loop has read is not in the future (`ReadBefore`), which is why adding by it is never early.
  The lemmas say what `insert` does to the list: the entries due no later than the new one are a prefix, because
  the list is sorted, so counting them gives the place that `sort.Search` finds and the list stays sorted
  (`ListStaysSorted`). The queue's variables are shared and every step of callers and loop is an Add, a ShutDown or leaves the queue alone, so what was proved of
  the work queue, `QueueImplementsSet` included, holds inside a delaying queue too (`DelayingKeepsQueue`).
* `InformerProofs`, one invariant per property on top of `FollowInv`, which is `StoreFollowsServer` with the
  shape of the variables and the fact that the server changes one object per version. Lemmas say what
  `queueActionLocked` does to what is pending, for one key and for all keys of a Replace; each action then either keeps `Pending(k)`
  equal to what the reflector has seen or puts the key into `diverged`: exactly the keys that `Replaced` and
  `Resynced` name may go wrong. `QueueOK` is `ItemsMatchQueue` with the type of the queue.
  `SyncInv`: the keys of the first list that were not popped are among the first `initialPopulationCount` of the queue,
  so the count is right although it counts pops of any key. `DeletionsReportedOnce` is inductive as it
  stands, given the shape. `FreshInv` relates
  what was notified and what is pending to every version the server may still list, because a
  list may come from an old cache; it needs that an object's versions grow (`HistInv`). `PastInv` joins all of them
  for `ShowsThePast`: every delta that is queued carries a version of its own key which the reflector has passed. Type
  correctness follows from it, because only so are the versions bounded.
* `PodWorkersProofs`: `IInv` says that an
  *active* goroutine (with an update in its channel or in its hands) marks its pod, that a pod has
  one active goroutine, that a goroutine in processing has an empty channel, that a pod's channel
  is open and served, and that what is undelivered has a channel to go to. Forgetting a pod is
  the step that could break it: it is essential that `removeWorker` drops the undelivered update
  and keeps `isWorking`. `SyncInv` adds the order: an update that a goroutine has yet to sync lies between what was synced of its
  pod and what is undelivered. The goroutine of a forgotten pod satisfies it too, because
  `isWorking` keeps a new one from being sent anything. `PodStaysScheduled` needs that the uids taken from the work queue and not yet
  dispatched count as scheduled, and that a pod which is dispatched is marked or has been terminated. `PendingKillKept` needs types only.
* `LeaderElectionProofs`: `LeaderHoldsRecord` depends on time, so the invariant reckons with it. A call is at most
  `Delay` old (`CallsEnd`); a Poll has one try under way at its deadline and one after it, and its deadline
  is at most `RenewDeadline + 2 Delay` after the start of the last successful try (`PollEnds`), which gives
  `StepsDownInTime`. A candidate has seen a record no earlier than it was written, and writes over
  another's only when a lease has passed since (`Knows`); by `LeaseAssumption` that is later than
  the holder can lead, which closes the circle with `Holds`. `Second` enters because a renewal within the same
  second leaves the record as it was. `RecordIsALease` is the refinement of `Lease`, step by step. Time is the hard
  step: that the end of the lease is not reached while somebody leads is `Holds` and `PollEnds` in the state
  after it. A write must not shorten the lease, although a late write carries the time its try began; it does not,
  because a candidate's own record was written by an earlier try (`OwnIsOlder`, with the lemma
  that cutting to seconds keeps the order), and another's is a whole lease older. The abandoned writes carry the same facts as tries under way, from when they were
  abandoned, and are refused when the object has changed since. `LeaseIsExclusive` combines the refinement with an invariant of `Lease`: in every behaviour of leader
  election whoever leads is the owner of a lease that is not over.
* `SchedulerProofs`: `Placed` says for one pod where it is counted; each cache operation either leaves the
  cache alone, puts a pod without a record on a node, takes one off or moves an added one, and each of these is a lemma.
  Expiry needs that an assumed pod is counted where its record has it. `RoomInv`, for `NoOvercommit`: until
  the cache lapses, it counts every pod that was bound, or is being bound, on the node it was bound to, and for each node that the
  current attempt still looks at or has found to fit the pods so counted are fewer than `AllowedPods`. One pod is scheduled at a time, so
  what happens between the snapshot and the assumption can only take such pods away; what the counters
  show in between does not matter to it, which is why the same is not true of units.
* `NetworkControllerProofs`: `TaskInv` (no two workers have the same key; what one has found at the provider is
  still so when it writes) gives `CreatesOnlyAbsent`. `VersionInv` (a copy with the server's version is
  the server's object, but for the status, which the controller sets in its copies first) gives `StatusKeepsSpec`: the conditional write is refused unless the copy is the object.
  `WorkInv` is stated without faults and for one service at a time: when neither an event nor a key is left, every worker on the service
  is *on course*, with the hosts it is going to write being those of now (`Covered`); a
  deletion still to be delivered is reported with a service of type NetworkProvider (`Reported`), and afterwards
  whoever works on the key deletes (`Cleared`). `FeedInv` says what the informer will have when it has delivered everything.
* `ReplicaSetProofs`: an expected creation stands for each pod that the handler has not been told of or that the worker has still to
  create (`CreationInv`), an expected deletion for each one that the store still shows or that is to come
  (`DeletionInv`), unless the controller is `blind`. Both count: `exp.add` bounds a cardinality, and
  `manageReplicas` acts only when the bound is zero. The subtle step is the handler: the store changes
  before the expectation is lowered, and a deletion is noticed by the UID, so a second event for the same
  pod does not lower it again. A restart drops all expectations; it keeps the invariants because without calls under way and with an up-to-date list
  nothing is left to be expected, and any other restart is blind.
* `AttachDetachProofs`: the hand-shake has a half for each list of the node's status. The kubelet's: what it mounts, or may
  go on to mount without another look at VolumesAttached (`Engaged`), is in VolumesInUse (`ReportInv`,
  `MountInv`). The controller's: a volume whose detach is pending is not in VolumesAttached and will
  not get there, neither from the list in a patch under way nor by a later one (`FlagInv`, `LoopInv`,
  `WithdrawnInv`). They meet in `verifySafeToDetach`, which reads VolumesInUse: what it finds safe stays so (`ExcludeInv`). Each
  of the ways into `crossed` is a step that this argument cannot do without. That the kubelet's loops go over copies is felt in `MountInv`: an operation
  started by a copy must satisfy it in the present state, or the volume is crossed.

Only model-checked:

* the liveness properties (`EveryAddServed`, `WorkersExitAfterShutDown`, `EveryEntryAdded`, `CallersReturn`,
  `StoreConverges`, `PendingKillServed`, `WorkersComeToRest`, `LoadBalancersConverge`, `PodGetsItsVolume`, `UnusedVolumeReleased`,
  `ReplicasConverge`, `CacheConverges`): fairness and ENABLED are outside the prover;
* the rate limiter, whose arithmetic is recursive over digits, and whose run is a refutation.

Induction over data is outside the prover too. Where a proof needs it, a fact about finite sets or the
well-foundedness of the naturals stands in (the largest version an informer has to reckon with is the least element of
a set of distances).

## 6. Not modelled

Not modelled yet: the network controller's network handlers; the shared informer's notification
queues; the controller's populator of attach/detach; PLEG with the pod cache that
`GetNewerThan` waits on; the status manager; Hyper's SyncPod and KillPod; the volume binder; the watch cache;
the address allocators; the replication controller, which repeats the replica set controller; daemon sets,
jobs, garbage collection, namespaces and nodes.

Left out for good: API types and conversions, command line tools, cloud adapters, generated
code, vendored code, and the network provider's and Hyper's clients, which translate calls and
keep no state.
