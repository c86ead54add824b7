--------------------------- MODULE KubeletVolumes ---------------------------
(***************************************************************************)
(* The kubelet's volume manager (pkg/kubelet/volume) on one node whose     *)
(* volumes the attach/detach controller attaches.  The two programs share  *)
(* no lock; they meet in two lists of the node's status.  The kubelet      *)
(* writes VolumesInUse, the controller VolumesAttached, and each must have *)
(* written its list before it reads the other's.                           *)
(*                                                                         *)
(* The module has the kubelet's actions and the state they share with the  *)
(* controller; module AttachDetach adds the controller and composes them.  *)
(* Each pod uses one volume.  The reconciler's three loops go over copies  *)
(* of the state of the world; what they look up for each element is the    *)
(* state at that moment.                                                   *)
(***************************************************************************)
EXTENDS Naturals, Sequences, FiniteSets

CONSTANTS
    Pods,           \* pods scheduled to this node, each with its own UID
    Volumes,        \* attachable volumes
    VolumeOf,       \* the volume each pod uses
    NoPod,          \* the pod of an operation that is for no pod
    MaxFailures     \* bound: calls and operations that fail

ASSUME VolumeOfType == VolumeOf \in [Pods -> Volumes]
ASSUME NoPodIsNoPod == NoPod \notin Pods
ASSUME MaxFailuresType == MaxFailures \in Nat

VARIABLES
    log,            \* the pod events of the API server, in order
    apiAttached,    \* VolumesAttached of the node's status
    apiInUse,       \* VolumesInUse of the node's status
    plugged,        \* the volumes the cloud really has attached to the node
    kSeen,          \* how many pod events have reached the kubelet
    kWant,          \* its desired state: the pods whose volumes it wants
    skipped,        \* pods marked processed whose volume could not be added
    reported,       \* the wanted volumes marked reportedInUse
    kAttached,      \* its actual state: the volumes it holds for attached,
    kGlobal,        \*   those marked globally mounted,
    kMounted,       \*   and the pods whose volume is marked mounted
    device,         \* the devices that are really mounted
    kLoop,          \* where the reconciler is, what is left of its copy
    kOp,            \* the pending operation on each volume
    heartbeat,      \* where tryUpdateNodeStatus is, and what it reports
    failures,
    crossed         \* history: volumes on which the hand-shake was bypassed

apiVars     == <<apiAttached, apiInUse>>
desired     == <<kSeen, kWant, skipped, reported>>
actual      == <<kAttached, kGlobal, kMounted, device>>
kubeletVars == <<desired, actual, kLoop, kOp, heartbeat>>
world       == <<log, apiVars, plugged>>

Events  == [pod : Pods, kind : {"add", "delete"}]
KOps    == {"none", "verify", "verified", "mount", "deviceMounted", "setUp",
            "podMounted", "unmount", "unmountDevice"}
NoOp    == [op |-> "none", pod |-> NoPod]
Resting == [pc |-> "idle", inUse |-> {}, moved |-> FALSE]

\* A loop has pods or volumes to go over; flagged are the volumes that were
\* reportedInUse, or globally mounted, when its copy was made.
LoopOver(pc, pods, volumes, flagged) ==
    [pc |-> pc, pods |-> pods, volumes |-> volumes, flagged |-> flagged]

KubeletTypeOK ==
    /\ log \in Seq(Events)
    /\ apiAttached \subseteq Volumes /\ apiInUse \subseteq Volumes
    /\ plugged \subseteq Volumes /\ device \subseteq Volumes
    /\ kSeen \in 0..Len(log)
    /\ kWant \subseteq Pods /\ skipped \subseteq Pods /\ kMounted \subseteq Pods
    /\ reported \subseteq Volumes
    /\ kAttached \subseteq Volumes /\ kGlobal \subseteq kAttached
    /\ kLoop \in [pc : {"unmount", "mount", "device"}, pods : SUBSET Pods,
                  volumes : SUBSET Volumes, flagged : SUBSET Volumes]
    /\ kOp \in [Volumes -> [op : KOps, pod : Pods \cup {NoPod}]]
    /\ heartbeat \in [pc : {"idle", "update", "mark"},
                      inUse : SUBSET Volumes, moved : BOOLEAN]
    /\ failures \in 0..MaxFailures
    /\ crossed \subseteq Volumes

KubeletInit ==
    /\ log = <<>> /\ kSeen = 0
    /\ apiAttached = {} /\ apiInUse = {} /\ plugged = {} /\ device = {}
    /\ kWant = {} /\ skipped = {} /\ reported = {}
    /\ kAttached = {} /\ kGlobal = {} /\ kMounted = {}
    /\ kLoop = LoopOver("device", {}, {}, {})
    /\ kOp = [v \in Volumes |-> NoOp]
    /\ heartbeat = Resting
    /\ failures = 0
    /\ crossed = {}

Fail == failures < MaxFailures /\ failures' = failures + 1
Cross(V) == crossed' = crossed \cup V

-----------------------------------------------------------------------------
Happened(e, n) == \E k \in 1..n : log[k] = e

\* The pods a client that has seen n events knows of.
PodsAfter(n) == {p \in Pods : /\ Happened([pod |-> p, kind |-> "add"], n)
                              /\ ~Happened([pod |-> p, kind |-> "delete"], n)}

VolumesOf(P) == {VolumeOf[p] : p \in P}
Wanted       == VolumesOf(kWant)
HasMounts(v) == v \in VolumesOf(kMounted)

\* GetVolumesInUse: everything wanted and everything globally mounted.
VolumesInUse == Wanted \cup kGlobal

\* An operation that mounts a volume, and one that may lead to it.
Mounting(v) == kOp[v].op \in {"mount", "deviceMounted", "setUp", "podMounted"}
Underway(v) == kOp[v].op \in {"verify", "verified"} \/ Mounting(v)

\* Users create a pod, or delete one that exists.  A volume is handed on from
\* pod to pod: the next one is created after the former was deleted, which
\* neither kubelet nor controller need have noticed by then.
CreatePod(p) ==
    /\ ~Happened([pod |-> p, kind |-> "add"], Len(log))
    /\ VolumeOf[p] \notin VolumesOf(PodsAfter(Len(log)))
    /\ log' = Append(log, [pod |-> p, kind |-> "add"])
    /\ UNCHANGED <<apiVars, plugged, kubeletVars, failures, crossed>>

DeletePod(p) ==
    /\ p \in PodsAfter(Len(log))
    /\ log' = Append(log, [pod |-> p, kind |-> "delete"])
    /\ UNCHANGED <<apiVars, plugged, kubeletVars, failures, crossed>>

-----------------------------------------------------------------------------
(* The populator.                                                          *)

SeeEvent ==
    /\ kSeen < Len(log)
    /\ kSeen' = kSeen + 1
    /\ UNCHANGED <<kWant, skipped, reported, actual, kLoop, kOp, heartbeat>>
    /\ UNCHANGED <<world, failures, crossed>>

\* processPodVolumes.  A volume may be wanted again before the kubelet has let
\* go of it: what it knew of the attachment is used again, though no longer
\* reported in use.  A pod whose volume cannot be looked up or added counts
\* as processed all the same,
findAndAddNewPods(p) ==
    LET v == VolumeOf[p]
    IN  /\ p \in PodsAfter(kSeen) \ (kWant \cup skipped)
        /\ \/ /\ kWant' = kWant \cup {p}
              /\ Cross(IF v \notin Wanted /\ (v \in kAttached \ kGlobal \/ Underway(v))
                         THEN {v} ELSE {})
              /\ UNCHANGED <<skipped, failures>>
           \/ /\ Fail
              /\ skipped' = skipped \cup {p}
              /\ UNCHANGED <<kWant, crossed>>
        /\ UNCHANGED <<kSeen, reported, actual, kLoop, kOp, heartbeat, world>>

\* until a sync of the pod, which waits for the volume, asks for it again.
ReprocessPod(p) ==
    /\ p \in skipped
    /\ skipped' = skipped \ {p}
    /\ UNCHANGED <<kSeen, kWant, reported, actual, kLoop, kOp, heartbeat>>
    /\ UNCHANGED <<world, failures, crossed>>

\* A deleted pod leaves once its containers are gone, some time later.  The
\* volume's entry, with its reportedInUse, goes with its last pod.
findAndRemoveDeletedPods(p) ==
    /\ p \in kWant \ PodsAfter(kSeen)
    /\ kWant' = kWant \ {p}
    /\ reported' = reported \cap VolumesOf(kWant \ {p})
    /\ UNCHANGED <<kSeen, skipped, actual, kLoop, kOp, heartbeat>>
    /\ UNCHANGED <<world, failures, crossed>>

-----------------------------------------------------------------------------
(* The periodic update of the node's status.                               *)

\* Get of the node and setNodeStatus.
HeartbeatGet ==
    /\ heartbeat.pc = "idle"
    /\ heartbeat' = [pc |-> "update", inUse |-> VolumesInUse, moved |-> FALSE]
    /\ UNCHANGED <<desired, actual, kLoop, kOp, world, failures, crossed>>

\* UpdateStatus carries the resource version of the Get and conflicts with a
\* patch by the controller in between.  A volume that was withdrawn while an
\* operation on it is under way is reported as not in use.
HeartbeatUpdate ==
    /\ heartbeat.pc = "update"
    /\ \/ /\ ~heartbeat.moved
          /\ apiInUse' = heartbeat.inUse
          /\ heartbeat' = [heartbeat EXCEPT !.pc = "mark"]
          /\ Cross({v \in Volumes \ heartbeat.inUse :
                     Underway(v) \/ v \in kGlobal \cup (kAttached \cap Wanted)})
       \/ /\ heartbeat.moved
          /\ heartbeat' = Resting
          /\ UNCHANGED <<apiInUse, crossed>>
    /\ UNCHANGED <<desired, actual, kLoop, kOp, log, apiAttached, plugged, failures>>

\* MarkVolumesAsReportedInUse
HeartbeatMark ==
    /\ heartbeat.pc = "mark"
    /\ reported' = Wanted \cap heartbeat.inUse
    /\ heartbeat' = Resting
    /\ UNCHANGED <<kSeen, kWant, skipped, actual, kLoop, kOp, world, failures, crossed>>

-----------------------------------------------------------------------------
(* The reconciler: its loops, one after the other.  At most one operation  *)
(* is pending on a volume; what is refused is looked at again next time.   *)

LoopFrame == UNCHANGED <<desired, heartbeat, world, failures>>

GetMountedVolumes ==
    /\ kLoop.pc = "device" /\ kLoop.volumes = {}
    /\ kLoop' = LoopOver("unmount", kMounted, {}, {})
    /\ UNCHANGED <<actual, kOp, crossed>> /\ LoopFrame

GetVolumesToMount ==
    /\ kLoop.pc = "unmount" /\ kLoop.pods = {}
    /\ kLoop' = LoopOver("mount", kWant, {}, reported)
    /\ UNCHANGED <<actual, kOp, crossed>> /\ LoopFrame

GetUnmountedVolumes ==
    /\ kLoop.pc = "mount" /\ kLoop.pods = {}
    /\ kLoop' = LoopOver("device", {}, {v \in kAttached : ~HasMounts(v)},
                         {v \in kGlobal : ~HasMounts(v)})
    /\ UNCHANGED <<actual, kOp, crossed>> /\ LoopFrame

Start(v, o, p) == kOp' = [kOp EXCEPT ![v] = [op |-> o, pod |-> p]]

UnmountNext(p) ==
    /\ kLoop.pc = "unmount" /\ p \in kLoop.pods
    /\ kLoop' = [kLoop EXCEPT !.pods = @ \ {p}]
    /\ IF p \notin kWant /\ kOp[VolumeOf[p]] = NoOp
         THEN Start(VolumeOf[p], "unmount", p)
         ELSE UNCHANGED kOp
    /\ UNCHANGED <<actual, crossed>> /\ LoopFrame

\* Deviation (see module WorkQueue): VerifyControllerAttachedVolume without
\* its check of ReportedInUse.
StartVerifyUnreported(v) == Start(v, "verify", NoPod) /\ UNCHANGED crossed

\* An operation on a volume that is not reported in use, by the copy, fails
\* at once.
StartVerify(v) ==
    IF v \in kLoop.flagged
    THEN Start(v, "verify", NoPod) /\ Cross({v} \ reported)
    ELSE UNCHANGED <<kOp, crossed>>

\* A volume in the actual state is mounted without another look at
\* reportedInUse or at the node's status, and whether or not the pod still
\* wants it.
StartMount(v, p) ==
    IF p \notin kMounted
    THEN Start(v, "mount", p) /\ Cross({v} \ VolumesInUse)
    ELSE UNCHANGED <<kOp, crossed>>

MountNext(p) ==
    LET v == VolumeOf[p]
    IN  /\ kLoop.pc = "mount" /\ p \in kLoop.pods
        /\ kLoop' = [kLoop EXCEPT !.pods = @ \ {p},
                                  !.flagged = @ \cap VolumesOf(kLoop.pods \ {p})]
        /\ \/ kOp[v] = NoOp /\ v \notin kAttached /\ StartVerify(v)
           \/ kOp[v] = NoOp /\ v \in kAttached /\ StartMount(v, p)
           \/ kOp[v] # NoOp /\ UNCHANGED <<kOp, crossed>>
        /\ UNCHANGED actual /\ LoopFrame

\* The copy may say that the device is mounted after a pod's mount is.
StartUnmountDevice(v) ==
    /\ IF kOp[v] = NoOp
         THEN Start(v, "unmountDevice", NoPod) /\ Cross(IF HasMounts(v) THEN {v} ELSE {})
         ELSE UNCHANGED <<kOp, crossed>>
    /\ UNCHANGED actual

\* MarkVolumeAsDetached is called by the loop itself, whatever operation is
\* pending on the volume; it fails for a volume with mounts.  If a mount is
\* pending, or has left its device behind, that will be forgotten.
ForgetVolume(v) ==
    /\ IF HasMounts(v)
         THEN UNCHANGED <<kAttached, kGlobal, crossed>>
         ELSE /\ kAttached' = kAttached \ {v}
              /\ kGlobal' = kGlobal \ {v}
              /\ Cross(IF Underway(v) \/ v \in kGlobal THEN {v} ELSE {})
    /\ UNCHANGED <<kMounted, device, kOp>>

DetachNext(v) ==
    /\ kLoop.pc = "device" /\ v \in kLoop.volumes
    /\ kLoop' = [kLoop EXCEPT !.volumes = @ \ {v}, !.flagged = @ \ {v}]
    /\ \/ v \in Wanted /\ UNCHANGED <<actual, kOp, crossed>>
       \/ v \notin Wanted /\ v \in kLoop.flagged /\ StartUnmountDevice(v)
       \/ v \notin Wanted /\ v \notin kLoop.flagged /\ ForgetVolume(v)
    /\ LoopFrame

-----------------------------------------------------------------------------
(* The operations.  One that fails ends and may be started again.          *)

OpFrame == UNCHANGED <<desired, kLoop, heartbeat, world, crossed>>

End(v) == kOp' = [kOp EXCEPT ![v] = NoOp]
Go(v, o) == kOp' = [kOp EXCEPT ![v].op = o]

\* VerifyControllerAttachedVolume: the Get of the node,
VerifyGet(v) ==
    /\ kOp[v].op = "verify"
    /\ \/ v \in apiAttached /\ Go(v, "verified") /\ UNCHANGED failures
       \/ v \notin apiAttached /\ End(v) /\ UNCHANGED failures
       \/ Fail /\ End(v)
    /\ UNCHANGED actual /\ OpFrame

\* and MarkVolumeAsAttached, by when the answer may be out of date.
VerifyMark(v) ==
    /\ kOp[v].op = "verified"
    /\ kAttached' = kAttached \cup {v}
    /\ End(v)
    /\ UNCHANGED <<kGlobal, kMounted, device, failures>> /\ OpFrame

\* MountVolume: WaitForAttach times out when the device is not there;
\* MountDevice;
MountDevice(v) ==
    /\ kOp[v].op = "mount"
    /\ \/ /\ v \in plugged
          /\ device' = device \cup {v}
          /\ Go(v, "deviceMounted")
          /\ UNCHANGED failures
       \/ /\ \/ v \notin plugged /\ UNCHANGED failures
             \/ Fail
          /\ End(v)
          /\ UNCHANGED device
    /\ UNCHANGED <<kAttached, kGlobal, kMounted>> /\ OpFrame

\* MarkDeviceAsMounted, which fails for a volume not in the actual state;
MarkDeviceAsMounted(v) ==
    /\ kOp[v].op = "deviceMounted"
    /\ \/ /\ v \in kAttached
          /\ kGlobal' = kGlobal \cup {v}
          /\ Go(v, "setUp")
       \/ /\ v \notin kAttached
          /\ End(v)
          /\ UNCHANGED kGlobal
    /\ UNCHANGED <<kAttached, kMounted, device, failures>> /\ OpFrame

\* SetUp;
SetUp(v) ==
    /\ kOp[v].op = "setUp"
    /\ \/ Go(v, "podMounted") /\ UNCHANGED failures
       \/ Fail /\ End(v)
    /\ UNCHANGED actual /\ OpFrame

\* and MarkVolumeAsMounted, which fails like MarkDeviceAsMounted.
MarkVolumeAsMounted(v) ==
    /\ kOp[v].op = "podMounted"
    /\ kMounted' = IF v \in kAttached THEN kMounted \cup {kOp[v].pod} ELSE kMounted
    /\ End(v)
    /\ UNCHANGED <<kAttached, kGlobal, device, failures>> /\ OpFrame

\* TearDown and MarkVolumeAsUnmounted.
UnmountVolume(v) ==
    /\ kOp[v].op = "unmount"
    /\ \/ kMounted' = kMounted \ {kOp[v].pod} /\ UNCHANGED failures
       \/ Fail /\ UNCHANGED kMounted
    /\ End(v)
    /\ UNCHANGED <<kAttached, kGlobal, device>> /\ OpFrame

\* UnmountDevice and MarkDeviceAsUnmounted.
UnmountDevice(v) ==
    /\ kOp[v].op = "unmountDevice"
    /\ \/ /\ device' = device \ {v}
          /\ kGlobal' = kGlobal \ {v}
          /\ UNCHANGED failures
       \/ /\ Fail
          /\ device' \in {device, device \ {v}}
          /\ UNCHANGED kGlobal
    /\ End(v)
    /\ UNCHANGED <<kAttached, kMounted>> /\ OpFrame

-----------------------------------------------------------------------------
Populate ==
    \/ SeeEvent
    \/ \E p \in Pods : findAndAddNewPods(p) \/ ReprocessPod(p) \/ findAndRemoveDeletedPods(p)

Heartbeat == HeartbeatGet \/ HeartbeatUpdate \/ HeartbeatMark

Reconcile ==
    \/ GetMountedVolumes \/ GetVolumesToMount \/ GetUnmountedVolumes
    \/ \E p \in Pods : UnmountNext(p) \/ MountNext(p)
    \/ \E v \in Volumes : DetachNext(v)

Operate(v) ==
    \/ VerifyGet(v) \/ VerifyMark(v)
    \/ MountDevice(v) \/ MarkDeviceAsMounted(v) \/ SetUp(v) \/ MarkVolumeAsMounted(v)
    \/ UnmountVolume(v) \/ UnmountDevice(v)

KubeletNext == Populate \/ Heartbeat \/ Reconcile \/ \E v \in Volumes : Operate(v)

=============================================================================
