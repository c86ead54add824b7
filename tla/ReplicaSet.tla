----------------------------- MODULE ReplicaSet -----------------------------
(***************************************************************************)
(* The replica set controller (pkg/controller/replicaset) for one replica  *)
(* set.  Its worker acts on what the informers' stores say, which lags     *)
(* behind the API server; expectations keep it from acting again before    *)
(* the stores show what it has done itself.                                *)
(*                                                                         *)
(* A pod is none, live, done (Succeeded or Failed) or dying (it has a      *)
(* DeletionTimestamp), at the API server and in the store; pod names are   *)
(* used again once both have forgotten them.  The pod informer's goroutine *)
(* changes the store first and then calls the handler.  The worker's sync  *)
(* is split at its reads and at its calls of the API server.               *)
(***************************************************************************)
EXTENDS Expectations

CONSTANTS
    Pods,           \* names for the pods
    NoPod,
    Replicas,       \* the sizes users ask for
    Absent,         \* the replica set does not exist
    BurstReplicas,
    MaxChanges,     \* bound: what users and failing machines do
    MaxFailures     \* bound: calls of the API server that fail

ASSUME ConstantsAssumption ==
    /\ NoPod \notin Pods /\ IsFiniteSet(Pods)
    /\ Replicas \subseteq Nat /\ Absent \notin Int
    /\ BurstReplicas \in Nat \ {0} /\ MaxChanges \in Nat /\ MaxFailures \in Nat

VARIABLES
    pods,           \* the pods at the API server
    spec, status,   \* the replica set there: Spec.Replicas, Status.Replicas
    podStore,       \* the pod informer's store
    rsStore,        \* the other informer's: the replica set as it knows it
    event,          \* the pod event whose handler is about to be called
    queued,         \* the key is in the work queue
    worker,         \* where the key's worker is, and its variables
    late,           \* the calls of a process that has died, still on their way
    changes, failures,
    peak,           \* history: the largest spec so far
    deleted,        \* history: live pods the controller has deleted, until gone
    blind           \* history: expectations were lost, expired or wrong

serverVars == <<pods, spec, status>>
vars == <<serverVars, podStore, rsStore, event, queued, worker, late, expVars, changes,
          failures, peak, deleted, blind>>

States  == {"none", "live", "done", "dying"}
NoEvent == [pod |-> NoPod, kind |-> "none"]
Idle    == [pc |-> "idle", spec |-> 0, status |-> 0, needsSync |-> FALSE,
            active |-> 0, creates |-> 0, deletes |-> {}]
NoCalls == [creates |-> 0, deletes |-> {}]

TypeOK ==
    /\ pods \in [Pods -> States] /\ podStore \in [Pods -> States]
    /\ spec \in Replicas \cup {Absent} /\ status \in Nat
    /\ rsStore \in [spec : Replicas \cup {Absent}, status : Nat]
    /\ event \in [pod : Pods \cup {NoPod}, kind : {"none", "add", "update", "delete"}]
    /\ queued \in BOOLEAN
    /\ worker \in [pc : {"idle", "list", "act", "status"}, spec : Nat, status : Nat,
                   needsSync : BOOLEAN, active : Nat, creates : Nat, deletes : SUBSET Pods]
    /\ late \in [creates : Nat, deletes : SUBSET Pods]
    /\ ExpectationsTypeOK(Pods)
    /\ changes \in 0..MaxChanges /\ failures \in 0..MaxFailures
    /\ peak \in Nat /\ deleted \subseteq Pods /\ blind \in BOOLEAN

Init ==
    /\ pods = [p \in Pods |-> "none"] /\ podStore = pods
    /\ spec = Absent /\ status = 0 /\ rsStore = [spec |-> Absent, status |-> 0]
    /\ event = NoEvent /\ queued = FALSE /\ worker = Idle /\ late = NoCalls
    /\ ExpectationsInit
    /\ changes = 0 /\ failures = 0
    /\ peak = 0 /\ deleted = {} /\ blind = FALSE

\* FilterActivePods
Active(view) == {p \in Pods : view[p] = "live"}
Fail         == failures < MaxFailures /\ failures' = failures + 1
Change       == changes < MaxChanges /\ changes' = changes + 1

-----------------------------------------------------------------------------
(* Users and kubelets.                                                     *)

\* Create, scale or delete the replica set.
SetSpec(n) ==
    /\ n # spec /\ Change
    /\ spec' = n
    /\ status' = IF spec = Absent \/ n = Absent THEN 0 ELSE status
    /\ peak' = IF n # Absent /\ n > peak THEN n ELSE peak
    /\ UNCHANGED <<pods, podStore, rsStore, event, queued, worker, late, expVars, failures, deleted,
                   blind>>

\* Someone deletes a pod.
DeleteByUser(p) ==
    /\ pods[p] \in {"live", "done"} /\ Change
    /\ pods' = [pods EXCEPT ![p] = "dying"]
    /\ UNCHANGED <<spec, status, podStore, rsStore, event, queued, worker, late, expVars, failures,
                   peak, deleted, blind>>

\* All containers of a pod have ended, or the kubelet has evicted it.
Finish(p) ==
    /\ pods[p] = "live" /\ Change
    /\ pods' = [pods EXCEPT ![p] = "done"]
    /\ UNCHANGED <<spec, status, podStore, rsStore, event, queued, worker, late, expVars, failures,
                   peak, deleted, blind>>

\* The kubelet has stopped a dying pod, or a finished one is garbage.
Removed(p) ==
    /\ pods[p] \in {"dying", "done"}
    /\ pods' = [pods EXCEPT ![p] = "none"]
    /\ UNCHANGED <<spec, status, podStore, rsStore, event, queued, worker, late, expVars, changes,
                   failures, peak, deleted, blind>>

-----------------------------------------------------------------------------
(* The informers.                                                          *)

\* A delta of pod p is popped: the store is changed.  Watch events between
\* two lists are lost, so that a state may be passed over.
PodDelta(p) ==
    /\ event = NoEvent
    /\ \/ /\ podStore[p] = "none" /\ pods[p] # "none"
          /\ podStore' \in {[podStore EXCEPT ![p] = x] : x \in {"live", pods[p]} \ {"dying"}}
          /\ event' = [pod |-> p, kind |-> "add"]
       \/ /\ podStore[p] = "live" /\ pods[p] = "done"
          /\ podStore' = [podStore EXCEPT ![p] = "done"]
          /\ event' = [pod |-> p, kind |-> "update"]
       \/ /\ podStore[p] # pods[p] /\ pods[p] = "dying"
          /\ podStore' = [podStore EXCEPT ![p] = "dying"]
          /\ event' = [pod |-> p, kind |-> "delete"]
       \/ /\ podStore[p] # "none" /\ pods[p] = "none"
          /\ podStore' = [podStore EXCEPT ![p] = "none"]
          /\ event' = [pod |-> p, kind |-> "delete"]
    /\ deleted' = {q \in deleted : podStore'[q] = "live" \/ pods[q] # "none"}
    /\ UNCHANGED <<serverVars, rsStore, queued, worker, late, expVars, changes, failures, peak, blind>>

\* The handlers find the replica set in the informer's store, or do nothing.
addPod ==
    /\ event.kind = "add"
    /\ event' = NoEvent
    /\ \/ /\ rsStore.spec # Absent
          /\ CreationObserved
          /\ queued' = TRUE
       \/ /\ rsStore.spec = Absent
          /\ UNCHANGED <<expVars, queued>>
    /\ UNCHANGED <<serverVars, podStore, rsStore, worker, late, changes, failures, peak, deleted, blind>>

\* updatePod, of a pod without a DeletionTimestamp.
updatePod ==
    /\ event.kind = "update"
    /\ event' = NoEvent
    /\ queued' = (queued \/ rsStore.spec # Absent)
    /\ UNCHANGED <<serverVars, podStore, rsStore, worker, late, expVars, changes, failures, peak,
                   deleted, blind>>

\* deletePod; also addPod and updatePod of a pod with a DeletionTimestamp.
deletePod ==
    /\ event.kind = "delete"
    /\ event' = NoEvent
    /\ \/ /\ rsStore.spec # Absent
          /\ DeletionObserved(event.pod)
          /\ queued' = TRUE
       \/ /\ rsStore.spec = Absent
          /\ UNCHANGED <<expVars, queued>>
    /\ UNCHANGED <<serverVars, podStore, rsStore, worker, late, changes, failures, peak, deleted, blind>>

\* A delta of the replica set, whatever the event: the key is enqueued.
ReplicaSetDelta ==
    /\ rsStore # [spec |-> spec, status |-> status]
    /\ rsStore' = [spec |-> spec, status |-> status]
    /\ queued' = TRUE
    /\ UNCHANGED <<serverVars, podStore, event, worker, late, expVars, changes, failures, peak, deleted,
                   blind>>

\* The informer's resync is an update of every replica set in the store.
Resync ==
    /\ rsStore.spec # Absent
    /\ queued' = TRUE
    /\ UNCHANGED <<serverVars, podStore, rsStore, event, worker, late, expVars, changes, failures, peak,
                   deleted, blind>>

\* The informer has caught up with the API server.
CaughtUp == podStore = pods /\ event = NoEvent /\ worker.pc # "act"

\* The 5 minutes of ExpectationsTimeout are over, which matters only when
\* something is still expected.  They are longer than any delay of the
\* informer, but for MaxFailures times.
Timeout ==
    /\ ~Fulfilled
    /\ Expire
    /\ \/ CaughtUp /\ UNCHANGED <<blind, failures>>
       \/ ~CaughtUp /\ Fail /\ blind' = TRUE
    /\ UNCHANGED <<serverVars, podStore, rsStore, event, queued, worker, late, changes, peak, deleted>>

-----------------------------------------------------------------------------
(* syncReplicaSet.                                                         *)

\* queue.Get, and the replica set's copy; a deleted one takes its
\* expectations along.
SyncAbsent ==
    /\ worker.pc = "idle" /\ queued
    /\ queued' = FALSE
    /\ rsStore.spec = Absent
    /\ DeleteExpectations
    /\ blind' = (blind \/ ~Fulfilled)
    /\ UNCHANGED <<serverVars, podStore, rsStore, event, worker, late, changes, failures, peak, deleted>>

\* Deviation (see module WorkQueue): no look at the expectations.
SyncUnasked ==
    /\ worker.pc = "idle" /\ queued
    /\ queued' = FALSE
    /\ rsStore.spec # Absent
    /\ worker' = [Idle EXCEPT !.pc = "list", !.spec = rsStore.spec, !.status = rsStore.status,
                              !.needsSync = TRUE]
    /\ UNCHANGED <<serverVars, podStore, rsStore, event, late, expVars, changes, failures, peak, deleted,
                   blind>>

\* Expectations are looked at before the pods are listed.
SyncStart ==
    /\ worker.pc = "idle" /\ queued
    /\ queued' = FALSE
    /\ rsStore.spec # Absent
    /\ worker' = [Idle EXCEPT !.pc = "list", !.spec = rsStore.spec, !.status = rsStore.status,
                              !.needsSync = SatisfiedExpectations]
    /\ UNCHANGED <<serverVars, podStore, rsStore, event, late, expVars, changes, failures, peak, deleted,
                   blind>>

Burst(n) == IF n > BurstReplicas THEN BurstReplicas ELSE n

\* manageReplicas up to its goroutines.  Which pods go is up to their state.
SyncList ==
    LET filtered == Active(podStore)
        n        == Cardinality(filtered)
        listed   == [Idle EXCEPT !.status = worker.status, !.active = n]
    IN  /\ worker.pc = "list"
        /\ \/ /\ worker.needsSync /\ n < worker.spec
              /\ ExpectCreations(Burst(worker.spec - n))
              /\ worker' = [listed EXCEPT !.pc = "act", !.creates = Burst(worker.spec - n)]
           \/ /\ worker.needsSync /\ n > worker.spec
              /\ \E D \in SUBSET filtered :
                    /\ Cardinality(D) = Burst(n - worker.spec)
                    /\ ExpectDeletions(D)
                    /\ worker' = [listed EXCEPT !.pc = "act", !.deletes = D]
           \/ /\ worker.needsSync => n = worker.spec
              /\ worker' = [listed EXCEPT !.pc = "status"]
              /\ UNCHANGED expVars
        /\ UNCHANGED <<serverVars, podStore, rsStore, event, queued, late, changes, failures, peak,
                       deleted, blind>>

\* wait.Wait has returned when nothing is left to do.
Acted(w) == IF w.creates = 0 /\ w.deletes = {} THEN [w EXCEPT !.pc = "status"] ELSE w

\* A name that is free.
Fresh(p) ==
    /\ pods[p] = "none" /\ podStore[p] = "none" /\ event.pod # p
    /\ p \notin late.deletes

\* CreatePods.  The new pod is not the one of that name in an old UIDSet.
CreatePod(p) ==
    /\ worker.pc = "act" /\ worker.creates > 0
    /\ Fresh(p)
    /\ pods' = [pods EXCEPT ![p] = "live"]
    /\ uids' = uids \ {p}
    /\ worker' = Acted([worker EXCEPT !.creates = @ - 1])
    /\ UNCHANGED <<spec, status, podStore, rsStore, event, queued, late, exp, changes, failures,
                   peak, deleted, blind>>

\* An error lowers the expectation "because the informer won't observe this
\* pod"; if only the answer was lost, it will.  As many pods as there are
\* names is what the quota allows.
CreateFails ==
    /\ worker.pc = "act" /\ worker.creates > 0
    /\ CreationObserved
    /\ worker' = Acted([worker EXCEPT !.creates = @ - 1])
    /\ \/ Fail /\ UNCHANGED <<pods, blind>>
       \/ (~\E p \in Pods : Fresh(p)) /\ UNCHANGED <<pods, failures, blind>>
       \/ \E p \in Pods \ uids :
             Fail /\ Fresh(p) /\ pods' = [pods EXCEPT ![p] = "live"] /\ blind' = TRUE
    /\ UNCHANGED <<spec, status, podStore, rsStore, event, queued, late, changes, peak, deleted>>

\* DeletePod
DeletePod(p) ==
    /\ worker.pc = "act" /\ p \in worker.deletes
    /\ pods[p] # "none"
    /\ pods' = [pods EXCEPT ![p] = "dying"]
    /\ deleted' = deleted \cup {p}
    /\ worker' = Acted([worker EXCEPT !.deletes = @ \ {p}])
    /\ UNCHANGED <<spec, status, podStore, rsStore, event, queued, late, expVars, changes, failures,
                   peak, blind>>

\* The pod is not found, or the call fails.
DeleteFails(p) ==
    /\ worker.pc = "act" /\ p \in worker.deletes
    /\ DeletionObserved(p)
    /\ worker' = Acted([worker EXCEPT !.deletes = @ \ {p}])
    /\ \/ pods[p] = "none" /\ UNCHANGED <<pods, failures, deleted, blind>>
       \/ pods[p] # "none" /\ Fail /\ UNCHANGED <<pods, deleted, blind>>
       \/ /\ pods[p] # "none" /\ Fail
          /\ pods' = [pods EXCEPT ![p] = "dying"]
          /\ deleted' = deleted \cup {p} /\ blind' = TRUE
    /\ UNCHANGED <<spec, status, podStore, rsStore, event, queued, late, changes, peak>>

\* updateReplicaCount writes the count of the pods that were listed, with one
\* more try on a conflict; an error puts the key back.
UpdateStatus ==
    /\ worker.pc = "status"
    /\ worker' = Idle
    /\ \/ /\ worker.status = worker.active
          /\ UNCHANGED <<status, queued, failures>>
       \/ /\ worker.status # worker.active /\ spec # Absent
          /\ status' = worker.active
          /\ UNCHANGED <<queued, failures>>
       \/ /\ worker.status # worker.active
          /\ queued' = TRUE
          /\ (spec = Absent /\ UNCHANGED failures) \/ Fail
          /\ UNCHANGED status
    /\ UNCHANGED <<pods, spec, podStore, rsStore, event, late, expVars, changes, peak, deleted, blind>>

\* The controller manager dies and starts again: the workers wait until the
\* stores are listed anew, and every replica set is enqueued.  The list, at
\* resource version 0, may be as old as what the last process knew, and calls
\* of that process may be on their way.
Restart ==
    /\ Fail
    /\ podStore' \in {v \in [Pods -> States] : \A p \in Pods : v[p] \in {podStore[p], pods[p]}}
    /\ rsStore' \in {rsStore, [spec |-> spec, status |-> status]}
    /\ event' = NoEvent /\ queued' = (rsStore'.spec # Absent) /\ worker' = Idle
    /\ late' = [creates |-> late.creates + worker.creates,
                deletes |-> late.deletes \cup worker.deletes]
    /\ DeleteExpectations
    /\ deleted' = {p \in deleted : podStore'[p] = "live" \/ pods[p] # "none"}
    /\ blind' = (blind \/ podStore' # pods \/ worker.pc = "act")
    /\ UNCHANGED <<serverVars, changes, peak>>

\* A call of the dead process is carried out,
LateCreate(p) ==
    /\ late.creates > 0
    /\ Fresh(p)
    /\ pods' = [pods EXCEPT ![p] = "live"]
    /\ uids' = uids \ {p}
    /\ late' = [late EXCEPT !.creates = @ - 1]
    /\ UNCHANGED <<spec, status, podStore, rsStore, event, queued, worker, exp, changes, failures,
                   peak, deleted, blind>>

LateDelete(p) ==
    /\ p \in late.deletes
    /\ pods' = [pods EXCEPT ![p] = IF @ = "none" THEN @ ELSE "dying"]
    /\ late' = [late EXCEPT !.deletes = @ \ {p}]
    /\ UNCHANGED <<spec, status, podStore, rsStore, event, queued, worker, expVars, changes,
                   failures, peak, deleted, blind>>

\* or has been lost.
LateLost ==
    /\ late # NoCalls
    /\ late' = NoCalls
    /\ UNCHANGED <<serverVars, podStore, rsStore, event, queued, worker, expVars, changes,
                   failures, peak, deleted, blind>>

-----------------------------------------------------------------------------
Worker ==
    \/ SyncAbsent \/ SyncStart \/ SyncList \/ CreateFails \/ UpdateStatus
    \/ \E p \in Pods : CreatePod(p) \/ DeletePod(p) \/ DeleteFails(p)

Informers ==
    \/ addPod \/ updatePod \/ deletePod \/ ReplicaSetDelta
    \/ \E p \in Pods : PodDelta(p)

Late == LateLost \/ \E p \in Pods : LateCreate(p) \/ LateDelete(p)

Next ==
    \/ \E n \in Replicas \cup {Absent} : SetSpec(n)
    \/ \E p \in Pods : DeleteByUser(p) \/ Finish(p) \/ Removed(p)
    \/ Informers \/ Worker \/ Resync \/ Timeout \/ Restart \/ Late

Spec == Init /\ [][Next]_vars

\* Informers and workers keep running, dying and finished pods go, calls come
\* to an end, and time passes.
Fairness ==
    /\ \A p \in Pods : WF_vars(PodDelta(p)) /\ WF_vars(Removed(p))
    /\ WF_vars(addPod \/ updatePod \/ deletePod) /\ WF_vars(ReplicaSetDelta) /\ WF_vars(Late)
    /\ WF_vars(Worker) /\ WF_vars(Resync) /\ WF_vars(Timeout)

FairSpec == Spec /\ Fairness

-----------------------------------------------------------------------------
\* The controller never has more pods than it was ever asked for, although
\* the store it counts them in lags behind.  (Not so when expectations have
\* expired, were deleted with their replica set, were lowered for a call whose
\* answer was lost, or died with a process that had calls under way or whose
\* successor reads an old list: controller_utils.go:142, replica_set.go:451, 520.)
NeverTooMany == ~blind => Cardinality(Active(pods)) <= peak

\* It deletes no pod twice, counting it as a spare one again: only pods that
\* others have deleted can be missing from those it keeps (UIDs tracked by
\* replica_set.go:471-481 and controller_utils.go:296-325).
NeverDeletedTwice ==
    ~blind /\ worker.pc = "list" /\ worker.needsSync => deleted \cap Active(podStore) = {}

\* When nothing changes any more there are as many pods as asked for, and the
\* status says so, whatever was lost or failed on the way: syncReplicaSet and
\* its resync (replica_set.go:503-585).
ReplicasConverge ==
    <>[](spec # Absent => Cardinality(Active(pods)) = spec /\ status = spec)

=============================================================================
