---------------------------- MODULE AttachDetach ----------------------------
(***************************************************************************)
(* The attach/detach controller (pkg/controller/volume) for one node,      *)
(* composed with the kubelet of module KubeletVolumes.                     *)
(*                                                                         *)
(* Three kinds of goroutines share the actual state of the world: the      *)
(* informers' handlers, the reconciler and the operations it has started.  *)
(* The reconciler's loop is split at the calls that leave the process:     *)
(* UpdateNodeStatuses reads what to report, patches the node and resets    *)
(* the flag; operations complete between the reading and the reset.        *)
(***************************************************************************)
EXTENDS KubeletVolumes

VARIABLES
    cSeen,          \* how many pod events have reached the controller
    cWant,          \* its desired state: the pods on the node
    cAttached,      \* its actual state: the volumes it holds for attached,
    mountedByNode,  \*   those it takes for mounted,
    setOnce,        \*   those for which that was reported (setCount > 0),
    detachReq,      \*   those with a detachRequestedTime,
    expired,        \*   and those for which it is too long ago
    toReport,       \* volumesToReportAsAttached
    updateNeeded,   \* statusUpdateNeeded
    cached,         \* VolumesAttached of the informer's copy of the node
    nodeEvent,      \* a node event on its way to the informer
    cOp,            \* the pending operation on each volume
    loop            \* where the reconciler is

aswVars  == <<cAttached, mountedByNode, setOnce, detachReq, expired, toReport, updateNeeded>>
ctrlVars == <<cSeen, cWant, aswVars, cached, nodeEvent, cOp, loop>>
vars     == <<world, kubeletVars, failures, crossed, ctrlVars>>

COps  == {"none", "attach", "checkInUse", "detach", "backoff"}
Sleep == [pc |-> "sleep", todo |-> {}, mounted |-> {}, volume |-> {},
          overdue |-> FALSE, patch |-> FALSE, list |-> {}]
NoEvent == [pending |-> FALSE, attached |-> {}, inUse |-> {}]

TypeOK ==
    /\ KubeletTypeOK
    /\ cSeen \in 0..Len(log)
    /\ cWant \subseteq Pods
    /\ cAttached \subseteq Volumes /\ mountedByNode \subseteq cAttached
    /\ setOnce \subseteq cAttached /\ detachReq \subseteq cAttached
    /\ expired \subseteq detachReq
    /\ toReport \subseteq Volumes /\ updateNeeded \in BOOLEAN
    /\ cached \subseteq Volumes
    /\ nodeEvent \in [pending : BOOLEAN, attached : SUBSET Volumes, inUse : SUBSET Volumes]
    /\ cOp \in [Volumes -> COps]
    /\ loop \in [pc : {"sleep", "detach", "patchDetach", "attach", "patch"},
                 todo : SUBSET Volumes, mounted : SUBSET Volumes, volume : SUBSET Volumes,
                 overdue : BOOLEAN, patch : BOOLEAN, list : SUBSET Volumes]

Init ==
    /\ KubeletInit
    /\ cSeen = 0 /\ cWant = {}
    /\ cAttached = {} /\ mountedByNode = {} /\ setOnce = {}
    /\ detachReq = {} /\ expired = {}
    /\ toReport = {} /\ updateNeeded = FALSE
    /\ cached = {} /\ nodeEvent = NoEvent
    /\ cOp = [v \in Volumes |-> "none"]
    /\ loop = Sleep

CWanted == VolumesOf(cWant)

-----------------------------------------------------------------------------
(* Deviations, see module WorkQueue.                                       *)

\* AddVolumeNode that reports the volume and does not set the flag.
AddVolumeNodeUnflagged(v) ==
    /\ cAttached' = cAttached \cup {v}
    /\ mountedByNode' = IF v \in cAttached THEN mountedByNode ELSE mountedByNode \cup {v}
    /\ detachReq' = detachReq \ {v} /\ expired' = expired \ {v}
    /\ toReport' = toReport \cup {v}
    /\ UNCHANGED <<setOnce, updateNeeded>>

\* MarkDesireToDetach that does not note the time.
MarkDesireToDetachUntimed(v) ==
    /\ toReport' = IF v \in cAttached THEN toReport \ {v} ELSE toReport
    /\ updateNeeded' = (updateNeeded \/ (v \in cAttached /\ v \in toReport))
    /\ UNCHANGED <<cAttached, mountedByNode, setOnce, detachReq, expired>>

\* verifySafeToDetach that finds every volume safe.
CheckInUseNot(v) ==
    /\ cOp[v] = "checkInUse"
    /\ cOp' = [cOp EXCEPT ![v] = "detach"]
    /\ UNCHANGED <<aswVars, plugged, failures, crossed>>
    /\ UNCHANGED <<cSeen, cWant, cached, nodeEvent, loop, log, apiVars>>

-----------------------------------------------------------------------------
(* The actual state of the world: what its methods leave behind.           *)

\* AddVolumeNode: a new entry counts as mounted until proven otherwise; an
\* old one is only touched.
AddVolumeNode(v) ==
    /\ cAttached' = cAttached \cup {v}
    /\ mountedByNode' = IF v \in cAttached THEN mountedByNode ELSE mountedByNode \cup {v}
    /\ detachReq' = detachReq \ {v}
    /\ expired' = expired \ {v}
    /\ toReport' = toReport \cup {v}
    /\ updateNeeded' = (updateNeeded \/ v \notin toReport)
    /\ UNCHANGED setOnce

DeleteVolumeNode(v) ==
    /\ cAttached' = cAttached \ {v}
    /\ mountedByNode' = mountedByNode \ {v}
    /\ setOnce' = setOnce \ {v}
    /\ detachReq' = detachReq \ {v}
    /\ expired' = expired \ {v}
    /\ toReport' = toReport \ {v}
    /\ updateNeeded' = (updateNeeded \/ v \in toReport)

\* MarkDesireToDetach of a volume that an operation has deleted meanwhile
\* returns an error, which is only logged.
MarkDesireToDetach(v) ==
    /\ detachReq' = IF v \in cAttached THEN detachReq \cup {v} ELSE detachReq
    /\ toReport' = IF v \in cAttached THEN toReport \ {v} ELSE toReport
    /\ updateNeeded' = (updateNeeded \/ (v \in cAttached /\ v \in toReport))
    /\ UNCHANGED <<cAttached, mountedByNode, setOnce, expired>>

-----------------------------------------------------------------------------
(* The informers' handlers.                                                *)

\* podAdd and podDelete
PodEvent ==
    /\ cSeen < Len(log)
    /\ cSeen' = cSeen + 1
    /\ cWant' = PodsAfter(cSeen + 1)
    /\ UNCHANGED <<aswVars, cached, nodeEvent, cOp, loop, failures>>
    /\ UNCHANGED <<log, apiVars, plugged, crossed>>

\* The watch picks up the node; some time later the informer stores it.
WatchNode ==
    /\ ~nodeEvent.pending
    /\ nodeEvent' = [pending |-> TRUE, attached |-> apiAttached, inUse |-> apiInUse]
    /\ UNCHANGED <<cSeen, cWant, aswVars, cached, cOp, loop, failures>>
    /\ UNCHANGED <<log, apiVars, plugged, crossed>>

\* nodeUpdate calls processVolumesInUse, which calls SetVolumeMountedByNode:
\* "not mounted" counts only after "mounted" was reported once.
NodeEvent ==
    /\ nodeEvent.pending
    /\ nodeEvent' = NoEvent
    /\ cached' = nodeEvent.attached
    /\ setOnce' = setOnce \cup (cAttached \cap nodeEvent.inUse)
    /\ mountedByNode' = (mountedByNode \ setOnce) \cup (cAttached \cap nodeEvent.inUse)
    /\ UNCHANGED <<cSeen, cWant, cAttached, detachReq, expired, toReport, updateNeeded>>
    /\ UNCHANGED <<cOp, loop, failures, log, apiVars, plugged, crossed>>

\* maxWaitForUnmountDuration has passed since detachRequestedTime.
WaitExpires(v) ==
    /\ v \in detachReq \ expired
    /\ expired' = expired \cup {v}
    /\ UNCHANGED <<cAttached, mountedByNode, setOnce, detachReq, toReport, updateNeeded>>
    /\ UNCHANGED <<cSeen, cWant, cached, nodeEvent, cOp, loop, failures>>
    /\ UNCHANGED <<log, apiVars, plugged, crossed>>

-----------------------------------------------------------------------------
(* UpdateNodeStatuses.                                                     *)

\* GetVolumesToReportAttached, after the caller has left updateNeeded' and
\* toReport' behind.
ReadReport(l) ==
    [l EXCEPT !.patch = updateNeeded', !.list = IF updateNeeded' THEN toReport' ELSE {}]

\* The updater writes the new list into the informer's own object and patches
\* the API server with the difference it sees there; then it resets the flag.
PatchDone(bypassed) ==
    \/ /\ ~loop.patch
       /\ crossed' = crossed \cup bypassed
       /\ UNCHANGED <<apiAttached, cached, updateNeeded, heartbeat>>
    \/ /\ loop.patch
       /\ cached' = loop.list
       /\ apiAttached' = IF loop.list = cached THEN apiAttached ELSE loop.list
       /\ heartbeat' = IF loop.list = cached \/ heartbeat.pc # "update"
                         THEN heartbeat ELSE [heartbeat EXCEPT !.moved = TRUE]
       /\ updateNeeded' = FALSE
       /\ crossed' = crossed \cup bypassed \cup
                      {v \in Volumes : \/ (v \in apiAttached') # (v \in loop.list)
                                      \/ (v \in toReport) # (v \in loop.list)}

\* A patch that fails has changed the informer's object all the same, and it
\* may have reached the API server.
PatchFails ==
    /\ loop.patch /\ Fail
    /\ cached' = loop.list
    /\ apiAttached' \in {apiAttached, loop.list}
    /\ heartbeat' = IF heartbeat.pc = "update" /\ apiAttached' # apiAttached
                      THEN [heartbeat EXCEPT !.moved = TRUE] ELSE heartbeat
    /\ UNCHANGED <<updateNeeded, crossed>>

-----------------------------------------------------------------------------
(* The reconciler.                                                         *)

Frame == UNCHANGED <<cSeen, cWant, nodeEvent, log, apiInUse, plugged>>
KubeletFrame == UNCHANGED <<desired, actual, kLoop, kOp>>

\* GetVolumesToAttach follows when the detach loop has come to its end.
Advance(l) ==
    IF l.todo # {} THEN l ELSE [Sleep EXCEPT !.pc = "attach", !.todo = CWanted]

LoopStart ==
    /\ loop.pc = "sleep"
    /\ loop' = Advance([Sleep EXCEPT !.pc = "detach", !.todo = cAttached, !.mounted = mountedByNode])
    /\ UNCHANGED <<aswVars, cached, cOp, failures, apiAttached, crossed>> /\ Frame

\* The volume is still wanted.
DetachSkip(v) ==
    /\ loop.pc = "detach" /\ v \in loop.todo
    /\ v \in CWanted
    /\ loop' = Advance([loop EXCEPT !.todo = @ \ {v}, !.mounted = @ \ {v}])
    /\ UNCHANGED <<aswVars, cached, cOp, failures, apiAttached, crossed>> /\ Frame

DetachMark(v) ==
    /\ loop.pc = "detach" /\ v \in loop.todo
    /\ v \notin CWanted
    /\ MarkDesireToDetach(v)
    /\ loop' = [ReadReport(loop) EXCEPT !.pc = "patchDetach", !.todo = @ \ {v},
                                        !.volume = {v}, !.overdue = v \in expired]
    /\ UNCHANGED <<cached, cOp, failures, apiAttached, crossed>> /\ Frame

\* The detach loop goes on with its list.
NextVolume == Advance([Sleep EXCEPT !.pc = "detach", !.todo = loop.todo,
                                     !.mounted = loop.mounted \ loop.volume])

\* After the status is written: verify and detach a volume that counted as
\* unmounted when the loop began, detach a mounted one when the wait is over.
\* An operation that is pending, or backing off, keeps another from starting.
DetachStart(v) ==
    LET verified   == v \notin loop.mounted
        unverified == v \in loop.mounted /\ loop.overdue
    IN  /\ loop.pc = "patchDetach" /\ loop.volume = {v}
        /\ PatchDone(IF unverified THEN {v} ELSE {})
        /\ cOp' = IF cOp[v] = "none" /\ (verified \/ unverified)
                    THEN [cOp EXCEPT ![v] = IF verified THEN "checkInUse" ELSE "detach"]
                    ELSE cOp
        /\ loop' = NextVolume
        /\ UNCHANGED <<cAttached, mountedByNode, setOnce, detachReq, expired, toReport, failures>>
        /\ KubeletFrame /\ Frame

\* The volume is skipped when the node status cannot be written.
DetachUnpatched ==
    /\ loop.pc = "patchDetach"
    /\ PatchFails
    /\ loop' = NextVolume
    /\ UNCHANGED <<cAttached, mountedByNode, setOnce, detachReq, expired, toReport, cOp>>
    /\ KubeletFrame /\ Frame

\* An attached volume is touched, also while its detach is under way: it is
\* reported as attached again.
AttachTouch(v) ==
    /\ loop.pc = "attach" /\ v \in loop.todo
    /\ v \in cAttached
    /\ AddVolumeNode(v)
    /\ crossed' = IF cOp[v] \in {"checkInUse", "detach"} THEN crossed \cup {v} ELSE crossed
    /\ loop' = [loop EXCEPT !.todo = @ \ {v}]
    /\ UNCHANGED <<cached, cOp, failures, apiAttached>> /\ Frame

AttachStart(v) ==
    /\ loop.pc = "attach" /\ v \in loop.todo
    /\ v \notin cAttached
    /\ cOp' = IF cOp[v] = "none" THEN [cOp EXCEPT ![v] = "attach"] ELSE cOp
    /\ loop' = [loop EXCEPT !.todo = @ \ {v}]
    /\ UNCHANGED <<aswVars, cached, failures, apiAttached, crossed>> /\ Frame

FinalReport ==
    /\ loop.pc = "attach" /\ loop.todo = {}
    /\ UNCHANGED aswVars
    /\ loop' = [ReadReport(loop) EXCEPT !.pc = "patch"]
    /\ UNCHANGED <<cached, cOp, failures, apiAttached, crossed>> /\ Frame

FinalPatch ==
    /\ loop.pc = "patch"
    /\ \/ PatchDone({}) /\ UNCHANGED failures
       \/ PatchFails
    /\ loop' = Sleep
    /\ UNCHANGED <<cAttached, mountedByNode, setOnce, detachReq, expired, toReport, cOp>>
    /\ KubeletFrame /\ Frame

-----------------------------------------------------------------------------
(* The operations.                                                         *)

CallFrame == UNCHANGED <<cSeen, cWant, cached, nodeEvent, loop, log, apiVars>>

\* Attach and MarkVolumeAsAttached.
AttachVolume(v) ==
    /\ cOp[v] = "attach"
    /\ \/ /\ plugged' = plugged \cup {v}
          /\ AddVolumeNode(v)
          /\ cOp' = [cOp EXCEPT ![v] = "none"]
          /\ UNCHANGED failures
       \/ /\ Fail
          /\ cOp' = [cOp EXCEPT ![v] = "backoff"]
          /\ plugged' \in {plugged, plugged \cup {v}}
          /\ UNCHANGED aswVars
    /\ UNCHANGED crossed /\ CallFrame

\* verifySafeToDetach: the node is read from the API server.
CheckInUse(v) ==
    /\ cOp[v] = "checkInUse"
    /\ cOp' = [cOp EXCEPT ![v] = IF v \in apiInUse THEN "backoff" ELSE "detach"]
    /\ UNCHANGED <<aswVars, plugged, failures, crossed>> /\ CallFrame

\* Detach and MarkVolumeAsDetached.
DetachVolume(v) ==
    /\ cOp[v] = "detach"
    /\ \/ /\ plugged' = plugged \ {v}
          /\ DeleteVolumeNode(v)
          /\ cOp' = [cOp EXCEPT ![v] = "none"]
          /\ UNCHANGED failures
       \/ /\ Fail
          /\ cOp' = [cOp EXCEPT ![v] = "backoff"]
          /\ plugged' \in {plugged, plugged \ {v}}
          /\ UNCHANGED aswVars
    /\ UNCHANGED crossed /\ CallFrame

\* The goroutine map lets the operation be tried again.
BackoffOver(v) ==
    /\ cOp[v] = "backoff"
    /\ cOp' = [cOp EXCEPT ![v] = "none"]
    /\ UNCHANGED <<aswVars, plugged, failures, crossed>> /\ CallFrame

-----------------------------------------------------------------------------
Quiet(A) == A /\ UNCHANGED kubeletVars

Detaching == \E v \in Volumes : DetachSkip(v) \/ DetachMark(v)
Attaching == \E v \in Volumes : AttachTouch(v) \/ AttachStart(v)

ReconcilerNext ==
    \/ Quiet(LoopStart \/ Detaching \/ Attaching \/ FinalReport)
    \/ \E v \in Volumes : DetachStart(v)
    \/ DetachUnpatched
    \/ FinalPatch

OperationNext(v) == Quiet(AttachVolume(v) \/ CheckInUse(v) \/ DetachVolume(v) \/ BackoffOver(v))

Users == \E p \in Pods : CreatePod(p) \/ DeletePod(p)

Next ==
    \/ Users /\ UNCHANGED ctrlVars
    \/ KubeletNext /\ UNCHANGED ctrlVars
    \/ Quiet(PodEvent) \/ Quiet(WatchNode) \/ Quiet(NodeEvent)
    \/ \E v \in Volumes : Quiet(WaitExpires(v)) \/ OperationNext(v)
    \/ ReconcilerNext

\* Every goroutine keeps running.  The reconcilers, the populator and the
\* status loop are called for ever by wait.Until, a pending operation ends, a
\* watch delivers, and time passes.
Fairness ==
    /\ WF_vars(Populate /\ UNCHANGED ctrlVars)
    /\ WF_vars(Heartbeat /\ UNCHANGED ctrlVars)
    /\ WF_vars(Reconcile /\ UNCHANGED ctrlVars)
    /\ \A v \in Volumes : /\ WF_vars(Operate(v) /\ UNCHANGED ctrlVars)
                          /\ WF_vars(OperationNext(v))
                          /\ WF_vars(Quiet(WaitExpires(v)))
    /\ WF_vars(Quiet(PodEvent))
    /\ WF_vars(Quiet(WatchNode \/ NodeEvent))
    /\ WF_vars(ReconcilerNext)

Spec     == Init /\ [][Next]_vars
FairSpec == Spec /\ Fairness

-----------------------------------------------------------------------------
\* The hand-shake of the two status lists is bypassed, and v added to crossed,
\* when the controller
\*   - detaches a volume that counts as mounted without verifySafeToDetach,
\*     for maxWaitForUnmountDuration is over (DetachStart);
\*   - reports an attached volume again while its detach is pending
\*     (AttachTouch);
\*   - resets the flag though the API server does not have the list, or has
\*     not got what was added since it was read (PatchDone);
\* and when the kubelet
\*   - withdraws from VolumesInUse a volume it is mounting, or still wants and
\*     holds for attached (HeartbeatUpdate);
\*   - starts to mount a volume that is no longer in use, or to verify one that
\*     is no longer marked reported, by its stale copy (StartMount,
\*     StartVerify);
\*   - unmounts a device under a pod's mount, by its stale copy
\*     (StartUnmountDevice), or drops a volume that is being mounted or whose
\*     device is (ForgetVolume);
\*   - takes up again an attachment it has stopped reporting
\*     (findAndAddNewPods).
\* In every other behaviour the controller does not detach a volume that is
\* mounted, or that is being mounted (generateDetachVolumeFunc against
\* generateMountVolumeFunc, operation_executor.go:474, 575).
MountExcludesDetach ==
    \A v \in Volumes \ crossed :
        cOp[v] = "detach" => v \notin device /\ ~HasMounts(v) /\ ~Mounting(v)

\* A device that is mounted on the node is attached to it, with the same
\* exceptions: generateVerifyControllerAttachedVolumeFunc has seen it reported
\* (operation_executor.go:888).
NoDetachWhileMounted == device \subseteq plugged \cup crossed

Alive == PodsAfter(Len(log))

\* A pod that is not deleted has its volume mounted in the end: the two loops
\* never wait for each other's list for ever (the two reconciliationLoopFunc;
\* same exceptions).
PodGetsItsVolume ==
    \A p \in Pods : p \in Alive ~> (p \in kMounted \/ p \notin Alive \/ VolumeOf[p] \in crossed)

\* A volume that the controller knows to be attached and that no pod uses is
\* detached in the end, whether or not the kubelet ever reported it in use
\* (controller/volume/reconciler/reconciler.go:91-151).
UnusedVolumeReleased ==
    \A v \in Volumes :
        v \in cAttached \ VolumesOf(Alive)
            ~> v \notin plugged \/ v \in VolumesOf(Alive) \cup crossed

=============================================================================
