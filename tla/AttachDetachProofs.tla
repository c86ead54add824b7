------------------------- MODULE AttachDetachProofs -------------------------
(***************************************************************************)
(* The hand-shake of the kubelet and the attach/detach controller, proved  *)
(* for any pods, any volumes and any number of failed calls.  The argument *)
(* has a half for each list of the node's status.                          *)
(*                                                                         *)
(*   - The kubelet: what it mounts, or may go on to mount without looking  *)
(*     at VolumesAttached again, is in VolumesInUse (ReportInv, MountInv). *)
(*   - The controller: a volume whose detach is pending is not in          *)
(*     VolumesAttached and will not get there (FlagInv, LoopInv,           *)
(*     WithdrawnInv).                                                      *)
(*                                                                         *)
(* Where the halves meet, verifySafeToDetach reads VolumesInUse, and the   *)
(* kubelet it finds out of it stays out (ExcludeInv).                      *)
(***************************************************************************)
EXTENDS AttachDetach, TLAPS

\* The kubelet mounts v, or goes on to mount it without another look at
\* VolumesAttached.
Engaged(v) ==
    \/ kOp[v].op = "verified" \/ Mounting(v)
    \/ v \in kGlobal
    \/ v \in kAttached \cap Wanted

\* An operation that mounts or unmounts is for a pod of the volume.
ForPod(v, o) ==
    o.op \in {"mount", "deviceMounted", "setUp", "podMounted", "unmount"}
        => o.pod \in Pods /\ VolumeOf[o.pod] = v

PodInv == \A v \in Volumes : ForPod(v, kOp[v])

\* What is marked reportedInUse is wanted, and is in VolumesInUse now and
\* after the status update that is under way.
ReportInv ==
    /\ reported \subseteq Wanted
    /\ reported \subseteq apiInUse
    /\ heartbeat.pc # "idle" => reported \subseteq heartbeat.inUse
    /\ heartbeat.pc = "mark" => apiInUse = heartbeat.inUse

\* The kubelet's half: what it is engaged with is in VolumesInUse.  It keeps
\* account of what it has mounted: a device, and a pod's mount on it.
InUse(v) ==
    /\ Underway(v) \/ Engaged(v) => v \in apiInUse
    /\ Mounting(v) => v \in kAttached
    /\ kOp[v].op \in {"setUp", "podMounted"} => v \in kGlobal
    /\ kOp[v].op = "unmountDevice" => ~HasMounts(v)
    /\ HasMounts(v) => v \in kGlobal
    /\ v \in device => v \in kGlobal \/ kOp[v].op = "deviceMounted"

MountInv == \A v \in Volumes \ crossed : InUse(v)

\* While the flag is down the API server has the list.
FlagInv ==
    /\ loop.patch => updateNeeded
    /\ \A v \in Volumes \ crossed : ~updateNeeded => (v \in apiAttached <=> v \in toReport)

\* An attachment is pending only on a volume that is not attached, hence on
\* none that the detach loop has still to look at; the one it has marked is
\* not reported, and was not on the list it has read.
LoopInv ==
    /\ toReport \subseteq cAttached
    /\ loop.pc \notin {"patchDetach", "patch"} => ~loop.patch /\ loop.list = {}
    /\ loop.pc # "patchDetach" => loop.volume = {}
    /\ \A v \in Volumes :
        /\ cOp[v] = "attach" => v \notin cAttached
        /\ loop.pc \in {"detach", "patchDetach"} /\ v \in loop.todo \cup loop.volume
              => cOp[v] # "attach"
        /\ v \in loop.volume => v \notin toReport \cup loop.list

\* The controller's half.
WithdrawnInv ==
    \A v \in Volumes \ crossed :
        /\ v \in loop.volume /\ ~loop.patch => v \notin apiAttached
        /\ cOp[v] \in {"checkInUse", "detach"} => v \notin apiAttached \cup toReport \cup loop.list

\* A volume that verifySafeToDetach has found safe stays so, and a device that
\* is mounted stays attached.
ExcludeInv ==
    \A v \in Volumes \ crossed :
        /\ cOp[v] = "detach" => ~Engaged(v)
        /\ v \in device => v \in plugged

IInv ==
    /\ TypeOK /\ PodInv
    /\ ReportInv /\ MountInv
    /\ FlagInv /\ LoopInv /\ WithdrawnInv
    /\ ExcludeInv

-----------------------------------------------------------------------------
(* Facts about the operators.                                              *)

HeartbeatType == [pc : {"idle", "update", "mark"}, inUse : SUBSET Volumes, moved : BOOLEAN]

OpType == [op : KOps, pod : Pods \cup {NoPod}]

KLoopType == [pc : {"unmount", "mount", "device"}, pods : SUBSET Pods,
              volumes : SUBSET Volumes, flagged : SUBSET Volumes]

LoopType == [pc : {"sleep", "detach", "patchDetach", "attach", "patch"},
             todo : SUBSET Volumes, mounted : SUBSET Volumes, volume : SUBSET Volumes,
             overdue : BOOLEAN, patch : BOOLEAN, list : SUBSET Volumes]

\* VolumesOf: pods use volumes.
LEMMA VolumesOfVolumes ==
    ASSUME NEW P, P \subseteq Pods
    PROVE  VolumesOf(P) \subseteq Volumes
  BY VolumeOfType DEF VolumesOf

\* VolumesOf: a pod that is added adds its volume, and no other.
LEMMA VolumesOfMore ==
    ASSUME NEW P, NEW p, NEW v, v \in VolumesOf(P \cup {p}), v # VolumeOf[p]
    PROVE  v \in VolumesOf(P)
  BY DEF VolumesOf

\* VolumesOf: fewer pods use fewer volumes.
LEMMA VolumesOfFewer ==
    ASSUME NEW P, NEW Q, Q \subseteq P
    PROVE  VolumesOf(Q) \subseteq VolumesOf(P)
  BY DEF VolumesOf

\* Advance: the detach loop goes on with its list, or ends.
LEMMA AdvanceOK ==
    ASSUME NEW l, l \in LoopType, cWant \subseteq Pods
    PROVE  /\ Advance(l) \in LoopType
           /\ Advance(l).pc \in {l.pc, "attach"}
           /\ Advance(l).pc = "attach" /\ l.pc # "attach"
                => Advance(l).volume = {} /\ ~Advance(l).patch /\ Advance(l).list = {}
           /\ l.pc # "attach" /\ Advance(l).pc # "attach" => Advance(l) = l
  <1>1. CWanted \in SUBSET Volumes
    BY VolumesOfVolumes DEF CWanted
  <1>. DEFINE a == [Sleep EXCEPT !.pc = "attach", !.todo = CWanted]
  <1>2. a \in LoopType /\ a.pc = "attach" /\ a.volume = {} /\ a.list = {} /\ ~a.patch
    BY <1>1 DEF Sleep, LoopType
  <1>3. CASE l.todo # {}
    <2>1. Advance(l) = l
      BY <1>3 DEF Advance
    <2>. QED  BY <2>1
  <1>4. CASE l.todo = {}
    <2>1. Advance(l) = a
      BY <1>4 DEF Advance
    <2>. QED  BY <2>1, <1>2
  <1>. QED  BY <1>3, <1>4

\* The kubelet's half depends on the kubelet, on VolumesInUse and on nothing
\* else; a volume that is crossed is no longer its concern.
LEMMA KubeletHalf ==
    ASSUME IInv, crossed \subseteq crossed',
           UNCHANGED <<kWant, reported, kAttached, kGlobal, kMounted, device, kOp, apiInUse>>,
           heartbeat'.pc = heartbeat.pc, heartbeat'.inUse = heartbeat.inUse
    PROVE  PodInv' /\ ReportInv' /\ MountInv'
  <1>1. PodInv'
    BY DEF IInv, PodInv
  <1>2. ReportInv'
    BY DEF IInv, ReportInv, Wanted, VolumesOf
  <1>3. MountInv'
    BY DEF IInv, MountInv, InUse, Engaged, Underway, Mounting, HasMounts, Wanted, VolumesOf
  <1>. QED  BY <1>1, <1>2, <1>3

\* The controller's half depends on its state and on VolumesAttached.
LEMMA ControllerHalf ==
    ASSUME IInv, crossed \subseteq crossed',
           UNCHANGED <<cAttached, toReport, updateNeeded, cOp, loop, apiAttached>>
    PROVE  FlagInv' /\ LoopInv' /\ WithdrawnInv'
  <1>1. FlagInv'
    BY DEF IInv, FlagInv
  <1>2. LoopInv'
    BY DEF IInv, LoopInv
  <1>3. WithdrawnInv'
    BY DEF IInv, WithdrawnInv
  <1>. QED  BY <1>1, <1>2, <1>3

\* The state in which everything starts has it.
LEMMA InitHasIt ==
    ASSUME Init PROVE IInv
  <1>. USE DEF Init, KubeletInit
  <1>0. kOp = [v \in Volumes |-> NoOp] /\ cOp = [v \in Volumes |-> "none"]
    OBVIOUS
  <1>1. KubeletTypeOK
    <2>1. kOp \in [Volumes -> [op : KOps, pod : Pods \cup {NoPod}]]
      BY DEF NoOp, KOps
    <2>2. heartbeat \in HeartbeatType
      BY DEF Resting, HeartbeatType
    <2>3. failures \in 0..MaxFailures
      BY MaxFailuresType
    <2>4. kLoop \in KLoopType
      BY DEF LoopOver, KLoopType
    <2>. QED  BY <2>1, <2>2, <2>3, <2>4 DEF KubeletTypeOK, HeartbeatType, KLoopType
  <1>2. TypeOK
    <2>1. cOp \in [Volumes -> COps]
      BY DEF COps
    <2>2. loop \in LoopType
      BY DEF Sleep, LoopType
    <2>3. nodeEvent \in [pending : BOOLEAN, attached : SUBSET Volumes, inUse : SUBSET Volumes]
      BY DEF NoEvent
    <2>5. cSeen \in 0..Len(log)
      OBVIOUS
    <2>6. /\ cWant \subseteq Pods
          /\ cAttached \subseteq Volumes /\ mountedByNode \subseteq cAttached
          /\ setOnce \subseteq cAttached /\ detachReq \subseteq cAttached
          /\ expired \subseteq detachReq
          /\ toReport \subseteq Volumes /\ updateNeeded \in BOOLEAN
          /\ cached \subseteq Volumes
      OBVIOUS
    <2>. QED  BY <1>1, <2>1, <2>2, <2>3, <2>5, <2>6 DEF TypeOK, LoopType
  <1>3. \A v \in Volumes : kOp[v].op = "none" /\ cOp[v] = "none"
    BY DEF NoOp
  <1>4. PodInv
    BY <1>3 DEF PodInv, ForPod
  <1>5. ReportInv
    BY DEF ReportInv, Resting
  <1>6. MountInv
    BY <1>3 DEF MountInv, InUse, Engaged, Underway, Mounting, HasMounts, VolumesOf
  <1>7. FlagInv
    BY DEF FlagInv, Sleep
  <1>8. LoopInv
    BY <1>3 DEF LoopInv, Sleep
  <1>9. WithdrawnInv
    BY <1>3 DEF WithdrawnInv, Sleep
  <1>10. ExcludeInv
    BY <1>3 DEF ExcludeInv
  <1>. QED  BY <1>2, <1>4, <1>5, <1>6, <1>7, <1>8, <1>9, <1>10 DEF IInv
-----------------------------------------------------------------------------
(* The users and the kubelet.                                              *)

\* What is left to show of a step of the kubelet.
LEMMA KubeletStep ==
    ASSUME IInv, UNCHANGED <<ctrlVars, apiAttached, log>>, crossed \subseteq crossed',
           KubeletTypeOK', PodInv', ReportInv', MountInv', ExcludeInv'
    PROVE  IInv'
  <1>1. UNCHANGED <<cAttached, toReport, updateNeeded, cOp, loop, apiAttached>>
    BY DEF ctrlVars, aswVars
  <1>2. FlagInv' /\ LoopInv' /\ WithdrawnInv'
    BY <1>1, ControllerHalf
  <1>3. TypeOK'
    <2>. USE DEF ctrlVars, aswVars
    <2>1. TypeOK
      BY DEF IInv
    <2>. QED  BY <2>1 DEF TypeOK
  <1>. QED  BY <1>2, <1>3 DEF IInv

\* Fail: the count of failures keeps its type.
LEMMA FailOK ==
    ASSUME IInv, failures' = failures \/ Fail
    PROVE  failures' \in 0..MaxFailures
  <1>1. failures \in 0..MaxFailures
    BY DEF IInv, TypeOK, KubeletTypeOK
  <1>. QED  BY <1>1, MaxFailuresType DEF Fail

\* CreatePod and DeletePod only append to the log.
LEMMA UsersKeep ==
    ASSUME IInv, Users, UNCHANGED ctrlVars
    PROVE  IInv'
  <1>1. UNCHANGED <<apiVars, plugged, kubeletVars, failures, crossed>>
    BY DEF Users, CreatePod, DeletePod
  <1>2. PICK p \in Pods : log' = Append(log, [pod |-> p, kind |-> "add"])
                          \/ log' = Append(log, [pod |-> p, kind |-> "delete"])
    BY DEF Users, CreatePod, DeletePod
  <1>3. PICK e \in Events : log' = Append(log, e)
    BY <1>2 DEF Events
  <1>4. log \in Seq(Events) /\ kSeen \in 0..Len(log) /\ cSeen \in 0..Len(log)
    BY DEF IInv, TypeOK, KubeletTypeOK
  <1>5. log' \in Seq(Events) /\ Len(log') = Len(log) + 1
    BY <1>3, <1>4
  <1>6. kSeen' = kSeen /\ cSeen' = cSeen
    BY <1>1 DEF kubeletVars, desired, ctrlVars
  <1>7. kSeen' \in 0..Len(log') /\ cSeen' \in 0..Len(log')
    BY <1>4, <1>5, <1>6
  <1>8. KubeletTypeOK'
    BY <1>1, <1>5, <1>7 DEF IInv, TypeOK, KubeletTypeOK, kubeletVars, desired, actual, apiVars
  <1>9. TypeOK'
    BY <1>7, <1>8 DEF IInv, TypeOK, ctrlVars, aswVars
  <1>10. PodInv' /\ ReportInv' /\ MountInv'
    BY <1>1, KubeletHalf DEF kubeletVars, desired, actual, apiVars
  <1>11. FlagInv' /\ LoopInv' /\ WithdrawnInv'
    BY <1>1, ControllerHalf DEF ctrlVars, aswVars, apiVars
  <1>12. ExcludeInv'
    BY <1>1 DEF IInv, ExcludeInv, Engaged, Mounting, Wanted, VolumesOf,
                kubeletVars, desired, actual, ctrlVars
  <1>. QED  BY <1>9, <1>10, <1>11, <1>12 DEF IInv

\* What is left to show of a step that changes nothing the hand-shake depends
\* on.
LEMMA IdleStep ==
    ASSUME IInv, UNCHANGED ctrlVars, UNCHANGED <<world, crossed, kOp, heartbeat>>,
           UNCHANGED <<kWant, reported, actual>>,
           kSeen' \in 0..Len(log), skipped' \subseteq Pods,
           kLoop' \in KLoopType, failures' \in 0..MaxFailures
    PROVE  IInv'
  <1>. USE DEF world, apiVars, actual
  <1>1. KubeletTypeOK'
    BY DEF IInv, TypeOK, KubeletTypeOK, KLoopType
  <1>2. PodInv' /\ ReportInv' /\ MountInv'
    BY KubeletHalf
  <1>3. ExcludeInv'
    BY DEF IInv, ExcludeInv, Engaged, Mounting, Wanted, VolumesOf, ctrlVars
  <1>. QED  BY <1>1, <1>2, <1>3, KubeletStep

\* The types as the proofs below use them.
LEMMA KubeletTyped ==
    ASSUME IInv
    PROVE  /\ kSeen \in 0..Len(log) /\ log \in Seq(Events) /\ Len(log) \in Nat
           /\ kWant \subseteq Pods /\ skipped \subseteq Pods /\ kMounted \subseteq Pods
           /\ reported \subseteq Volumes
           /\ kAttached \subseteq Volumes /\ kGlobal \subseteq kAttached
           /\ device \subseteq Volumes /\ crossed \subseteq Volumes
           /\ kOp \in [Volumes -> OpType] /\ kLoop \in KLoopType
           /\ heartbeat \in HeartbeatType
           /\ failures \in 0..MaxFailures
  BY DEF IInv, TypeOK, KubeletTypeOK, KLoopType, OpType, HeartbeatType

\* SeeEvent, ReprocessPod, and findAndAddNewPods when it fails.
LEMMA IdlePopulateKeeps ==
    ASSUME IInv, UNCHANGED ctrlVars,
           \/ SeeEvent
           \/ \E p \in Pods : ReprocessPod(p)
           \/ \E p \in Pods : findAndAddNewPods(p) /\ kWant' = kWant /\ UNCHANGED crossed
    PROVE  IInv'
  <1>1. CASE SeeEvent
    <2>1. kSeen' = kSeen + 1 /\ kSeen < Len(log)
          /\ UNCHANGED <<kWant, skipped, reported, actual, kLoop, kOp, heartbeat>>
          /\ UNCHANGED <<world, failures, crossed>>
      BY <1>1 DEF SeeEvent
    <2>2. kSeen' \in 0..Len(log)
      BY <2>1, KubeletTyped
    <2>. QED  BY <2>1, <2>2, KubeletTyped, IdleStep
  <1>2. CASE \E p \in Pods : ReprocessPod(p)
    <2>1. PICK p \in Pods : ReprocessPod(p)
      BY <1>2
    <2>2. skipped' \subseteq Pods
          /\ UNCHANGED <<kSeen, kWant, reported, actual, kLoop, kOp, heartbeat>>
          /\ UNCHANGED <<world, failures, crossed>>
      BY <2>1, KubeletTyped DEF ReprocessPod
    <2>. QED  BY <2>2, KubeletTyped, IdleStep
  <1>3. CASE \E p \in Pods : findAndAddNewPods(p) /\ kWant' = kWant /\ UNCHANGED crossed
    <2>1. PICK p \in Pods : findAndAddNewPods(p) /\ kWant' = kWant /\ UNCHANGED crossed
      BY <1>3
    <2>2. UNCHANGED <<kSeen, reported, actual, kLoop, kOp, heartbeat, world>>
          /\ skipped' \subseteq Pods
          /\ (failures' = failures \/ Fail)
      BY <2>1, KubeletTyped DEF findAndAddNewPods
    <2>. QED  BY <2>1, <2>2, KubeletTyped, FailOK, IdleStep
  <1>. QED  BY <1>1, <1>2, <1>3

\* findAndAddNewPods: a volume that is wanted anew, and was attached or about
\* to be, is crossed; one that was not is not mounted yet.
LEMMA AddKeeps ==
    ASSUME IInv, NEW p \in Pods, findAndAddNewPods(p), UNCHANGED ctrlVars
    PROVE  IInv'
  <1>. DEFINE v == VolumeOf[p]
  <1>a. CASE kWant' = kWant /\ UNCHANGED crossed
    BY <1>a, IdlePopulateKeeps
  <1>b. CASE /\ kWant' = kWant \cup {p}
             /\ Cross(IF v \notin Wanted /\ (v \in kAttached \ kGlobal \/ Underway(v))
                        THEN {v} ELSE {})
             /\ UNCHANGED <<skipped, failures>>
    <2>. USE DEF apiVars, actual, world, Cross
    <2>a. UNCHANGED <<kSeen, reported, actual, kLoop, kOp, heartbeat, world>>
      BY DEF findAndAddNewPods
    <2>0. v \in Volumes
      BY VolumeOfType
    <2>1. crossed \subseteq crossed' /\ crossed' \subseteq Volumes
      BY <1>b, <2>0, KubeletTyped
    <2>2. KubeletTypeOK'
      BY <1>b, <2>a, <2>1 DEF IInv, TypeOK, KubeletTypeOK
    <2>3. Wanted' = Wanted \cup {v}
      BY <1>b DEF Wanted, VolumesOf
    <2>4. PodInv'
      BY <2>a DEF IInv, PodInv
    <2>5. ReportInv'
      BY <2>a, <2>3 DEF IInv, ReportInv
    <2>6. \A w \in Volumes \ crossed' : Engaged(w)' => Engaged(w)
      BY <1>b, <2>a, <2>3 DEF Engaged, Mounting, Underway
    <2>7. MountInv'
      <3>. SUFFICES ASSUME NEW w \in Volumes \ crossed'
                    PROVE  InUse(w)'
        BY DEF MountInv
      <3>1. InUse(w)
        BY <2>1 DEF IInv, MountInv
      <3>2. Underway(w)' = Underway(w) /\ Mounting(w)' = Mounting(w)
            /\ HasMounts(w)' = HasMounts(w)
        BY <2>a DEF Underway, Mounting, HasMounts, VolumesOf
      <3>. QED  BY <2>a, <2>6, <3>1, <3>2 DEF InUse
    <2>8. ExcludeInv'
      BY <2>a, <2>1, <2>6 DEF IInv, ExcludeInv, ctrlVars
    <2>. QED  BY <2>a, <2>1, <2>2, <2>4, <2>5, <2>7, <2>8, KubeletStep
  <1>. QED  BY <1>a, <1>b DEF findAndAddNewPods

\* findAndRemoveDeletedPods: a volume that is no longer wanted is no longer
\* reported.
LEMMA RemoveKeeps ==
    ASSUME IInv, NEW p \in Pods, findAndRemoveDeletedPods(p), UNCHANGED ctrlVars
    PROVE  IInv'
  <1>. USE DEF apiVars, actual, world
  <1>a. UNCHANGED <<kSeen, skipped, actual, kLoop, kOp, heartbeat, world, failures, crossed>>
        /\ kWant' = kWant \ {p} /\ reported' = reported \cap VolumesOf(kWant \ {p})
    BY DEF findAndRemoveDeletedPods
  <1>1. KubeletTypeOK'
    BY <1>a DEF IInv, TypeOK, KubeletTypeOK
  <1>2. Wanted' \subseteq Wanted /\ reported' = reported \cap Wanted'
    BY <1>a DEF Wanted, VolumesOf
  <1>3. PodInv'
    BY <1>a DEF IInv, PodInv
  <1>4. ReportInv'
    BY <1>a, <1>2 DEF IInv, ReportInv
  <1>5. \A w \in Volumes : Engaged(w)' => Engaged(w)
    BY <1>a, <1>2 DEF Engaged, Mounting
  <1>6. MountInv'
    <2>. SUFFICES ASSUME NEW w \in Volumes \ crossed'
                  PROVE  InUse(w)'
      BY DEF MountInv
    <2>1. InUse(w)
      BY <1>a DEF IInv, MountInv
    <2>2. Underway(w)' = Underway(w) /\ Mounting(w)' = Mounting(w)
          /\ HasMounts(w)' = HasMounts(w)
      BY <1>a DEF Underway, Mounting, HasMounts, VolumesOf
    <2>. QED  BY <1>a, <1>5, <2>1, <2>2 DEF InUse
  <1>7. ExcludeInv'
    BY <1>a, <1>5 DEF IInv, ExcludeInv, ctrlVars
  <1>. QED  BY <1>a, <1>1, <1>3, <1>4, <1>6, <1>7, KubeletStep

\* The status update: what it reports includes what is marked reported, and a
\* volume it withdraws while it is mounted is crossed.
LEMMA HeartbeatKeeps ==
    ASSUME IInv, Heartbeat, UNCHANGED ctrlVars
    PROVE  IInv'
  <1>. USE DEF apiVars, world, desired, actual
  <1>0. heartbeat \in HeartbeatType /\ kWant \subseteq Pods /\ kGlobal \subseteq Volumes
    BY KubeletTyped
  <1>1. UNCHANGED <<kSeen, kWant, skipped, kAttached, kGlobal, kMounted, device, kLoop, kOp,
                    log, apiAttached, plugged, failures>>
    BY DEF Heartbeat, HeartbeatGet, HeartbeatUpdate, HeartbeatMark
  <1>2. PodInv'
    BY <1>1 DEF IInv, PodInv
  <1>3. Wanted' = Wanted /\ Wanted \subseteq Volumes
    BY <1>0, <1>1, VolumesOfVolumes DEF Wanted, VolumesOf
  <1>4. \A w \in Volumes : /\ Engaged(w)' = Engaged(w) /\ Underway(w)' = Underway(w)
                           /\ Mounting(w)' = Mounting(w) /\ HasMounts(w)' = HasMounts(w)
    BY <1>1, <1>3 DEF Engaged, Underway, Mounting, HasMounts, VolumesOf
  <1>5. ASSUME crossed \subseteq crossed',
               \A w \in Volumes \ crossed' : Underway(w) \/ Engaged(w) => w \in apiInUse'
        PROVE  MountInv'
    <2>. SUFFICES ASSUME NEW w \in Volumes \ crossed'
                  PROVE  InUse(w)'
      BY DEF MountInv
    <2>1. InUse(w)
      BY <1>5 DEF IInv, MountInv
    <2>. QED  BY <1>1, <1>4, <1>5, <2>1 DEF InUse
  <1>6. ASSUME UNCHANGED <<apiInUse, crossed>>
        PROVE  MountInv'
    <2>1. \A w \in Volumes \ crossed : Underway(w) \/ Engaged(w) => w \in apiInUse
      BY DEF IInv, MountInv, InUse
    <2>. QED  BY <1>5, <1>6, <2>1
  <1>7. CASE HeartbeatGet
    <2>. USE DEF HeartbeatGet
    <2>1. heartbeat' \in HeartbeatType /\ Wanted \subseteq heartbeat'.inUse /\ heartbeat'.pc = "update"
      BY <1>0, <1>3, <1>7 DEF HeartbeatType, VolumesInUse
    <2>2. KubeletTypeOK'
      BY <1>7, <2>1 DEF IInv, TypeOK, KubeletTypeOK, HeartbeatType
    <2>3. ReportInv'
      BY <1>3, <1>7, <2>1 DEF IInv, ReportInv
    <2>4. MountInv'
      BY <1>6, <1>7
    <2>5. ExcludeInv'
      BY <1>4, <1>7 DEF IInv, ExcludeInv, ctrlVars
    <2>. QED  BY <1>2, <1>7, <2>2, <2>3, <2>4, <2>5, KubeletStep
  <1>8. CASE HeartbeatUpdate /\ ~heartbeat.moved
    <2>0. /\ heartbeat.pc = "update"
          /\ apiInUse' = heartbeat.inUse
          /\ heartbeat' = [heartbeat EXCEPT !.pc = "mark"]
          /\ crossed' = crossed \cup {v \in Volumes \ heartbeat.inUse :
                                     Underway(v) \/ v \in kGlobal \cup (kAttached \cap Wanted)}
          /\ reported' = reported
      BY <1>8 DEF HeartbeatUpdate, Cross
    <2>1. /\ heartbeat' \in HeartbeatType /\ heartbeat'.inUse = heartbeat.inUse
          /\ heartbeat'.pc = "mark" /\ heartbeat.inUse \subseteq Volumes
      BY <1>0, <2>0 DEF HeartbeatType
    <2>2. crossed \subseteq crossed' /\ crossed' \subseteq Volumes
      BY <2>0, KubeletTyped
    <2>3. KubeletTypeOK'
      BY <1>1, <2>0, <2>1, <2>2 DEF IInv, TypeOK, KubeletTypeOK, HeartbeatType
    <2>4. ReportInv'
      BY <1>3, <2>0, <2>1 DEF IInv, ReportInv
    <2>5. \A w \in Volumes \ crossed' : Underway(w) \/ Engaged(w) => w \in apiInUse'
      BY <2>0 DEF Engaged, Underway
    <2>6. MountInv'
      BY <1>5, <2>2, <2>5
    <2>7. ExcludeInv'
      BY <1>1, <1>4, <2>2 DEF IInv, ExcludeInv, ctrlVars
    <2>. QED  BY <1>1, <1>2, <2>2, <2>3, <2>4, <2>6, <2>7, KubeletStep
  <1>9. CASE (HeartbeatUpdate /\ heartbeat.moved) \/ HeartbeatMark
    <2>0. /\ heartbeat' = Resting
          /\ UNCHANGED <<apiInUse, crossed>>
          /\ \/ reported' = reported
             \/ heartbeat.pc = "mark" /\ reported' = Wanted \cap heartbeat.inUse
      BY <1>9 DEF HeartbeatUpdate, HeartbeatMark
    <2>1. heartbeat' \in HeartbeatType /\ heartbeat'.pc = "idle"
      BY <2>0 DEF HeartbeatType, Resting
    <2>2. KubeletTypeOK'
      BY <1>1, <1>3, <2>0, <2>1 DEF IInv, TypeOK, KubeletTypeOK, HeartbeatType
    <2>3. ReportInv'
      BY <1>3, <2>0, <2>1 DEF IInv, ReportInv
    <2>4. MountInv'
      BY <1>6, <2>0
    <2>5. ExcludeInv'
      BY <1>1, <1>4, <2>0 DEF IInv, ExcludeInv, ctrlVars
    <2>. QED  BY <1>1, <1>2, <2>0, <2>2, <2>3, <2>4, <2>5, KubeletStep
  <1>. QED  BY <1>7, <1>8, <1>9 DEF Heartbeat

\* What is left to show of a step that changes the operation on v, and
\* nothing of any other volume.
LEMMA OperationStep ==
    ASSUME IInv, NEW v \in Volumes, UNCHANGED ctrlVars,
           UNCHANGED <<desired, heartbeat, world>>,
           kLoop' \in KLoopType, failures' \in 0..MaxFailures,
           crossed \subseteq crossed', crossed' \subseteq Volumes,
           NEW o \in OpType, kOp' = [kOp EXCEPT ![v] = o], ForPod(v, o),
           kAttached' \subseteq Volumes, kGlobal' \subseteq kAttached',
           kMounted' \subseteq Pods, device' \subseteq Volumes,
           kAttached' \ {v} = kAttached \ {v}, kGlobal' \ {v} = kGlobal \ {v},
           device' \ {v} = device \ {v},
           \A p \in kMounted' : p \in kMounted \/ VolumeOf[p] = v,
           v \notin crossed' => /\ InUse(v)'
                                /\ cOp[v] = "detach" => ~Engaged(v)'
                                /\ v \in device' => v \in plugged
    PROVE  IInv'
  <1>. USE DEF desired, world, apiVars
  <1>0. kOp \in [Volumes -> OpType]
    BY KubeletTyped
  <1>1. kOp' \in [Volumes -> OpType]
    BY <1>0
  <1>2. kOp'[v] = o /\ \A w \in Volumes \ {v} : kOp'[w] = kOp[w]
    BY <1>0
  <1>3. KubeletTypeOK'
    BY <1>1 DEF IInv, TypeOK, KubeletTypeOK, OpType, KLoopType
  <1>4. PodInv'
    BY <1>2 DEF IInv, PodInv, ForPod
  <1>5. Wanted' = Wanted
    BY DEF Wanted, VolumesOf
  <1>6. ReportInv'
    BY <1>5 DEF IInv, ReportInv
  <1>7. \A w \in Volumes \ {v} : /\ Engaged(w)' = Engaged(w) /\ Underway(w)' = Underway(w)
                                 /\ Mounting(w)' = Mounting(w)
                                 /\ HasMounts(w)' => HasMounts(w)
    <2>. SUFFICES ASSUME NEW w \in Volumes \ {v}
                  PROVE  /\ Engaged(w)' = Engaged(w) /\ Underway(w)' = Underway(w)
                         /\ Mounting(w)' = Mounting(w)
                         /\ HasMounts(w)' => HasMounts(w)
      OBVIOUS
    <2>1. Mounting(w)' = Mounting(w) /\ Underway(w)' = Underway(w)
      BY <1>2 DEF Underway, Mounting
    <2>2. Engaged(w)' = Engaged(w)
      BY <1>2, <1>5, <2>1 DEF Engaged
    <2>3. HasMounts(w)' => HasMounts(w)
      BY DEF HasMounts, VolumesOf
    <2>. QED  BY <2>1, <2>2, <2>3
  <1>8. MountInv'
    <2>. SUFFICES ASSUME NEW w \in Volumes \ crossed'
                  PROVE  InUse(w)'
      BY DEF MountInv
    <2>1. CASE w = v
      BY <2>1
    <2>2. CASE w # v
      <3>1. InUse(w)
        BY DEF IInv, MountInv
      <3>2. (w \in kAttached' <=> w \in kAttached) /\ (w \in kGlobal' <=> w \in kGlobal)
             /\ (w \in device' <=> w \in device)
        BY <2>2
      <3>3. kOp'[w] = kOp[w]
        BY <1>2, <2>2
      <3>. QED  BY <1>7, <2>2, <3>1, <3>2, <3>3 DEF InUse
    <2>. QED  BY <2>1, <2>2
  <1>9. ExcludeInv'
    <2>. SUFFICES ASSUME NEW w \in Volumes \ crossed'
                  PROVE  /\ cOp'[w] = "detach" => ~Engaged(w)'
                         /\ w \in device' => w \in plugged'
      BY DEF ExcludeInv
    <2>0. cOp' = cOp
      BY DEF ctrlVars
    <2>1. CASE w = v
      BY <2>0, <2>1
    <2>2. CASE w # v
      <3>1. w \in device' <=> w \in device
        BY <2>2
      <3>. QED  BY <1>7, <2>0, <2>2, <3>1 DEF IInv, ExcludeInv
    <2>. QED  BY <2>1, <2>2
  <1>. QED  BY <1>3, <1>4, <1>6, <1>8, <1>9, KubeletStep

\* Start: an operation that mounts is of a volume the kubelet is engaged
\* with, one that verifies of a volume in VolumesInUse, and one that unmounts
\* a device of a volume without mounts, unless the volume is crossed.
LEMMA StartKeeps ==
    ASSUME IInv, UNCHANGED ctrlVars, NEW v \in Volumes,
           UNCHANGED <<desired, actual, heartbeat, world, failures>>,
           kLoop' \in KLoopType, crossed \subseteq crossed', crossed' \subseteq Volumes,
           NEW o \in {"verify", "mount", "unmount", "unmountDevice"},
           NEW p \in Pods \cup {NoPod}, kOp[v] = NoOp, Start(v, o, p),
           o \in {"mount", "unmount"} => p \in Pods /\ VolumeOf[p] = v,
           o = "mount" => v \in kAttached,
           v \notin crossed' => /\ o = "mount" => Engaged(v)
                                /\ o = "verify" => v \in apiInUse
                                /\ o = "unmountDevice" => ~HasMounts(v)
    PROVE  IInv'
  <1>. DEFINE n == [op |-> o, pod |-> p]
  <1>1. n \in OpType /\ n.op = o /\ n.pod = p
    BY DEF KOps, OpType
  <1>2. kOp' = [kOp EXCEPT ![v] = n]
    BY DEF Start
  <1>3. kOp[v].op = "none"
    BY DEF NoOp
  <1>4. kOp'[v].op = o
    BY <1>1, <1>2, KubeletTyped
  <1>5. ForPod(v, n)
    BY <1>1 DEF ForPod
  <1>6. Wanted' = Wanted /\ HasMounts(v)' = HasMounts(v)
    BY DEF Wanted, HasMounts, VolumesOf, desired, actual
  <1>7. (Mounting(v)' <=> o = "mount") /\ (Underway(v)' <=> o \in {"verify", "mount"})
    BY <1>4 DEF Mounting, Underway
  <1>8. Engaged(v)' => Engaged(v) \/ o = "mount"
    BY <1>4, <1>6, <1>7 DEF Engaged, actual
  <1>9. v \notin crossed' => /\ InUse(v)'
                             /\ cOp[v] = "detach" => ~Engaged(v)'
                             /\ v \in device' => v \in plugged
    <2>. SUFFICES ASSUME v \notin crossed'
                  PROVE  /\ InUse(v)'
                         /\ cOp[v] = "detach" => ~Engaged(v)'
                         /\ v \in device' => v \in plugged
      OBVIOUS
    <2>1. v \in Volumes \ crossed
      OBVIOUS
    <2>2. InUse(v) /\ (cOp[v] = "detach" => ~Engaged(v)) /\ (v \in device => v \in plugged)
      BY <2>1 DEF IInv, MountInv, ExcludeInv
    <2>3. Engaged(v)' => Engaged(v)
      BY <1>8
    <2>4. InUse(v)'
      BY <1>3, <1>4, <1>6, <1>7, <2>2, <2>3 DEF InUse, actual, world, apiVars
    <2>. QED  BY <2>2, <2>3, <2>4 DEF actual
  <1>10. /\ kAttached' \subseteq Volumes /\ kGlobal' \subseteq kAttached'
         /\ kMounted' \subseteq Pods /\ device' \subseteq Volumes
         /\ UNCHANGED <<kAttached, kGlobal, kMounted, device>>
         /\ failures' \in 0..MaxFailures
    BY KubeletTyped DEF actual
  <1>. HIDE DEF n
  <1>. QED  BY <1>1, <1>2, <1>5, <1>9, <1>10, OperationStep

\* UNCHANGED kOp in a loop's step: only the loop's copy, and crossed, change.
LEMMA PassKeeps ==
    ASSUME IInv, UNCHANGED ctrlVars,
           UNCHANGED <<desired, actual, heartbeat, world, failures, kOp, crossed>>,
           kLoop' \in KLoopType
    PROVE  IInv'
  BY IdleStep, KubeletTyped DEF desired

\* The loops' copies keep their type.
LEMMA LoopTyped ==
    ASSUME IInv
    PROVE  /\ GetMountedVolumes \/ GetVolumesToMount \/ GetUnmountedVolumes
                => kLoop' \in KLoopType
           /\ \A p \in Pods : UnmountNext(p) \/ MountNext(p) => kLoop' \in KLoopType
           /\ \A v \in Volumes : DetachNext(v) => kLoop' \in KLoopType
  <1>0. /\ kLoop \in KLoopType /\ kMounted \subseteq Pods /\ kWant \subseteq Pods
        /\ reported \subseteq Volumes /\ kAttached \subseteq Volumes /\ kGlobal \subseteq Volumes
    BY KubeletTyped
  <1>1. ASSUME NEW pc \in {"unmount", "mount", "device"}, NEW P \in SUBSET Pods,
               NEW V \in SUBSET Volumes, NEW F \in SUBSET Volumes
        PROVE  LoopOver(pc, P, V, F) \in KLoopType
    BY DEF LoopOver, KLoopType
  <1>2. GetMountedVolumes \/ GetVolumesToMount \/ GetUnmountedVolumes => kLoop' \in KLoopType
    <2>1. /\ kMounted \in SUBSET Pods /\ kWant \in SUBSET Pods /\ reported \in SUBSET Volumes
          /\ {v \in kAttached : ~HasMounts(v)} \in SUBSET Volumes
          /\ {v \in kGlobal : ~HasMounts(v)} \in SUBSET Volumes
          /\ {} \in SUBSET Volumes /\ {} \in SUBSET Pods
      BY <1>0
    <2>. QED  BY <1>1, <2>1 DEF GetMountedVolumes, GetVolumesToMount, GetUnmountedVolumes
  <1>3. ASSUME NEW p \in Pods, UnmountNext(p) \/ MountNext(p)
        PROVE  kLoop' \in KLoopType
    BY <1>0, <1>3 DEF UnmountNext, MountNext, KLoopType
  <1>4. ASSUME NEW v \in Volumes, DetachNext(v)
        PROVE  kLoop' \in KLoopType
    BY <1>0, <1>4 DEF DetachNext, KLoopType
  <1>. QED  BY <1>2, <1>3, <1>4

\* UnmountNext.
LEMMA UnmountNextKeeps ==
    ASSUME IInv, NEW p \in Pods, UnmountNext(p), UNCHANGED ctrlVars
    PROVE  IInv'
  <1>1. /\ UNCHANGED <<actual, crossed>> /\ UNCHANGED <<desired, heartbeat, world, failures>>
        /\ kLoop' \in KLoopType /\ VolumeOf[p] \in Volumes /\ crossed \subseteq Volumes
    BY LoopTyped, KubeletTyped, VolumeOfType DEF UnmountNext, LoopFrame
  <1>2. CASE p \notin kWant /\ kOp[VolumeOf[p]] = NoOp
    BY <1>1, <1>2, StartKeeps DEF UnmountNext
  <1>3. CASE ~(p \notin kWant /\ kOp[VolumeOf[p]] = NoOp)
    BY <1>1, <1>3, PassKeeps DEF UnmountNext
  <1>. QED  BY <1>2, <1>3

\* MountNext: a volume that is mounted from a stale copy, or verified from
\* one, is crossed.
LEMMA MountNextKeeps ==
    ASSUME IInv, NEW p \in Pods, MountNext(p), UNCHANGED ctrlVars
    PROVE  IInv'
  <1>. DEFINE v == VolumeOf[p]
  <1>1. /\ UNCHANGED actual /\ UNCHANGED <<desired, heartbeat, world, failures>>
        /\ kLoop' \in KLoopType /\ v \in Volumes /\ crossed \subseteq Volumes
    BY LoopTyped, KubeletTyped, VolumeOfType DEF MountNext, LoopFrame
  <1>2. CASE UNCHANGED <<kOp, crossed>>
    BY <1>1, <1>2, PassKeeps
  <1>3. CASE kOp[v] = NoOp /\ Start(v, "verify", NoPod) /\ Cross({v} \ reported)
    <2>1. crossed \subseteq crossed' /\ crossed' \subseteq Volumes
      BY <1>1, <1>3 DEF Cross
    <2>2. v \notin crossed' => v \in apiInUse
      BY <1>3 DEF Cross, IInv, ReportInv
    <2>. QED  BY <1>1, <1>3, <2>1, <2>2, StartKeeps
  <1>4. CASE kOp[v] = NoOp /\ v \in kAttached /\ Start(v, "mount", p) /\ Cross({v} \ VolumesInUse)
    <2>1. crossed \subseteq crossed' /\ crossed' \subseteq Volumes
      BY <1>1, <1>4 DEF Cross
    <2>2. v \notin crossed' => Engaged(v)
      BY <1>4 DEF Cross, VolumesInUse, Engaged
    <2>. QED  BY <1>1, <1>4, <2>1, <2>2, StartKeeps
  <1>. QED  BY <1>2, <1>3, <1>4 DEF MountNext, StartVerify, StartMount

\* DetachNext: a device is unmounted under no mount, and no volume forgotten
\* that is being mounted or has its device mounted, unless it is crossed.
LEMMA DetachNextKeeps ==
    ASSUME IInv, NEW v \in Volumes, DetachNext(v), UNCHANGED ctrlVars
    PROVE  IInv'
  <1>1. /\ UNCHANGED <<desired, heartbeat, world, failures>>
        /\ kLoop' \in KLoopType /\ crossed \subseteq Volumes
    BY LoopTyped, KubeletTyped DEF DetachNext, LoopFrame
  <1>2. CASE UNCHANGED <<actual, kOp, crossed>>
    BY <1>1, <1>2, PassKeeps
  <1>3. CASE StartUnmountDevice(v) /\ kOp[v] = NoOp
    <2>1. /\ Start(v, "unmountDevice", NoPod) /\ UNCHANGED actual
          /\ Cross(IF HasMounts(v) THEN {v} ELSE {})
      BY <1>3 DEF StartUnmountDevice
    <2>2. crossed \subseteq crossed' /\ crossed' \subseteq Volumes
      BY <1>1, <2>1 DEF Cross
    <2>3. v \notin crossed' => ~HasMounts(v)
      BY <2>1 DEF Cross
    <2>. QED  BY <1>1, <1>3, <2>1, <2>2, <2>3, StartKeeps
  <1>4. CASE ForgetVolume(v) /\ ~HasMounts(v)
    <2>1. /\ kAttached' = kAttached \ {v} /\ kGlobal' = kGlobal \ {v}
          /\ Cross(IF Underway(v) \/ v \in kGlobal THEN {v} ELSE {})
          /\ UNCHANGED <<kMounted, device, kOp>>
      BY <1>4 DEF ForgetVolume
    <2>2. crossed \subseteq crossed' /\ crossed' \subseteq Volumes
      BY <1>1, <2>1 DEF Cross
    <2>3. kOp' = [kOp EXCEPT ![v] = kOp[v]] /\ kOp[v] \in OpType /\ ForPod(v, kOp[v])
      BY <2>1, KubeletTyped DEF IInv, PodInv
    <2>4. Wanted' = Wanted /\ HasMounts(v)' = HasMounts(v)
      BY <1>1, <2>1 DEF Wanted, HasMounts, VolumesOf, desired
    <2>5. Underway(v)' = Underway(v) /\ Mounting(v)' = Mounting(v)
      BY <2>1 DEF Underway, Mounting
    <2>6. Engaged(v)' => Engaged(v)
      BY <2>1, <2>4, <2>5 DEF Engaged
    <2>7. v \notin crossed' => /\ InUse(v)'
                               /\ cOp[v] = "detach" => ~Engaged(v)'
                               /\ v \in device' => v \in plugged
      <3>. SUFFICES ASSUME v \notin crossed'
                    PROVE  /\ InUse(v)'
                           /\ cOp[v] = "detach" => ~Engaged(v)'
                           /\ v \in device' => v \in plugged
        OBVIOUS
      <3>1. v \in Volumes \ crossed /\ ~Underway(v) /\ v \notin kGlobal
        BY <2>1, <2>2 DEF Cross
      <3>2. InUse(v) /\ (cOp[v] = "detach" => ~Engaged(v)) /\ (v \in device => v \in plugged)
        BY <3>1 DEF IInv, MountInv, ExcludeInv
      <3>3. ~Mounting(v)
        BY <3>1 DEF Underway
      <3>4. InUse(v)'
        BY <1>1, <1>4, <2>1, <2>4, <2>5, <2>6, <3>1, <3>2, <3>3 DEF InUse, Mounting, world, apiVars
      <3>. QED  BY <2>1, <2>6, <3>2, <3>4
    <2>8. /\ kAttached' \subseteq Volumes /\ kGlobal' \subseteq kAttached'
          /\ kMounted' \subseteq Pods /\ device' \subseteq Volumes
          /\ failures' \in 0..MaxFailures
      BY <1>1, <2>1, KubeletTyped
    <2>. QED  BY <1>1, <2>1, <2>2, <2>3, <2>7, <2>8, OperationStep
  <1>5. CASE StartUnmountDevice(v) /\ kOp[v] # NoOp
    BY <1>2, <1>5 DEF StartUnmountDevice
  <1>6. CASE ForgetVolume(v) /\ HasMounts(v)
    BY <1>2, <1>6 DEF ForgetVolume, actual
  <1>. QED  BY <1>2, <1>3, <1>4, <1>5, <1>6 DEF DetachNext

\* Reconcile: its loops, over copies of the state.
LEMMA ReconcileKeeps ==
    ASSUME IInv, Reconcile, UNCHANGED ctrlVars
    PROVE  IInv'
  <1>1. CASE GetMountedVolumes \/ GetVolumesToMount \/ GetUnmountedVolumes
    <2>1. UNCHANGED <<actual, kOp, crossed>> /\ UNCHANGED <<desired, heartbeat, world, failures>>
      BY <1>1 DEF GetMountedVolumes, GetVolumesToMount, GetUnmountedVolumes, LoopFrame
    <2>2. kLoop' \in KLoopType
      BY <1>1, LoopTyped
    <2>. QED  BY <2>1, <2>2, PassKeeps
  <1>. QED  BY <1>1, UnmountNextKeeps, MountNextKeeps, DetachNextKeeps DEF Reconcile

\* The operations: the verification finds no volume whose detach is pending,
\* and a mount that has got this far is of a volume in VolumesInUse.
LEMMA OperateKeeps ==
    ASSUME IInv, NEW v \in Volumes, Operate(v), UNCHANGED ctrlVars
    PROVE  IInv'
  <1>0. /\ kOp \in [Volumes -> OpType] /\ kLoop \in KLoopType
        /\ kAttached \subseteq Volumes /\ kGlobal \subseteq kAttached
        /\ kMounted \subseteq Pods /\ device \subseteq Volumes
        /\ crossed \subseteq Volumes
    BY KubeletTyped
  <1>1. v \notin crossed => /\ InUse(v)
                            /\ cOp[v] = "detach" => ~Engaged(v)
                            /\ v \in device => v \in plugged
    BY DEF IInv, MountInv, ExcludeInv
  <1>2. v \notin crossed /\ cOp[v] = "detach" => v \notin apiAttached
    BY DEF IInv, WithdrawnInv
  <1>3. OpFrame
    BY DEF Operate, VerifyGet, VerifyMark, MountDevice, MarkDeviceAsMounted, SetUp,
           MarkVolumeAsMounted, UnmountVolume, UnmountDevice
  <1>4. /\ UNCHANGED <<desired, heartbeat, world>> /\ UNCHANGED <<kLoop, crossed>>
        /\ Wanted' = Wanted /\ apiInUse' = apiInUse
    BY <1>3 DEF OpFrame, Wanted, VolumesOf, desired, world, apiVars
  <1>5. failures' \in 0..MaxFailures
    <2>1. failures' = failures \/ Fail
      BY DEF Operate, VerifyGet, VerifyMark, MountDevice, MarkDeviceAsMounted, SetUp,
             MarkVolumeAsMounted, UnmountVolume, UnmountDevice
    <2>. QED  BY <2>1, FailOK
  <1>6. kOp[v] \in OpType /\ ForPod(v, kOp[v])
    BY <1>0 DEF IInv, PodInv
  <1>. DEFINE Rest == /\ kAttached' \subseteq Volumes /\ kGlobal' \subseteq kAttached'
                      /\ kMounted' \subseteq Pods /\ device' \subseteq Volumes
                      /\ kAttached' \ {v} = kAttached \ {v} /\ kGlobal' \ {v} = kGlobal \ {v}
                      /\ device' \ {v} = device \ {v}
                      /\ \A p \in kMounted' : p \in kMounted \/ VolumeOf[p] = v
  <1>7. ASSUME NEW o \in OpType, kOp' = [kOp EXCEPT ![v] = o], ForPod(v, o), Rest,
               v \notin crossed =>
                   /\ o.op \in {"verified", "mount", "deviceMounted", "setUp", "podMounted"}
                         => v \in apiInUse
                   /\ o.op # "verify" /\ o.op # "unmountDevice"
                   /\ o.op \in {"mount", "deviceMounted", "setUp", "podMounted"} => v \in kAttached'
                   /\ o.op \in {"setUp", "podMounted"} => v \in kGlobal'
                   /\ HasMounts(v)' => v \in kGlobal'
                   /\ v \in device' => v \in kGlobal' \/ o.op = "deviceMounted"
                   /\ v \in device' => v \in plugged
                   /\ v \in kGlobal' => Engaged(v)
                   /\ v \in kAttached' => v \in kAttached \/ kOp[v].op = "verified"
                   /\ o.op \in {"mount", "deviceMounted", "setUp", "podMounted"} => Engaged(v)
                   /\ o.op = "verified" => v \in apiAttached
        PROVE  IInv'
    <2>1. kOp'[v] = o
      BY <1>0, <1>7
    <2>2. Mounting(v)' <=> o.op \in {"mount", "deviceMounted", "setUp", "podMounted"}
      BY <2>1 DEF Mounting
    <2>3. Underway(v)' <=> o.op \in {"verify", "verified"} \/ Mounting(v)'
      BY <2>1 DEF Underway
    <2>4. Engaged(v)' <=> o.op = "verified" \/ Mounting(v)' \/ v \in kGlobal'
                           \/ (v \in kAttached' /\ v \in Wanted)
      BY <1>4, <2>1 DEF Engaged
    <2>5. v \notin crossed' => /\ InUse(v)'
                               /\ cOp[v] = "detach" => ~Engaged(v)'
                               /\ v \in device' => v \in plugged
      <3>. SUFFICES ASSUME v \notin crossed
                    PROVE  /\ InUse(v)'
                           /\ cOp[v] = "detach" => ~Engaged(v)'
                           /\ v \in device' => v \in plugged
        BY <1>4
      <3>1. Engaged(v)' => Engaged(v) \/ o.op = "verified"
        <4>1. kOp[v].op = "verified" => Engaged(v)
          BY DEF Engaged
        <4>2. v \in kAttached /\ v \in Wanted => Engaged(v)
          BY DEF Engaged
        <4>. QED  BY <1>7, <2>2, <2>4, <4>1, <4>2
      <3>2. Engaged(v)' => v \in apiInUse
        BY <1>1, <1>7, <3>1 DEF InUse
      <3>3. InUse(v)'
        BY <1>4, <1>7, <2>1, <2>2, <2>3, <3>2 DEF InUse
      <3>4. cOp[v] = "detach" => ~Engaged(v)'
        BY <1>1, <1>2, <1>7, <3>1
      <3>. QED  BY <1>7, <3>3, <3>4
    <2>. QED  BY <1>0, <1>4, <1>5, <1>7, <2>5, OperationStep
  <1>8. NoOp \in OpType /\ NoOp.op = "none" /\ ForPod(v, NoOp)
    BY DEF NoOp, KOps, OpType, ForPod
  <1>9. ASSUME End(v), Rest,
               v \notin crossed => /\ HasMounts(v)' => v \in kGlobal'
                                   /\ v \in device' => v \in kGlobal' /\ v \in plugged
                                   /\ v \in kGlobal' => v \in kGlobal
                                   /\ v \in kAttached' => v \in kAttached \/ kOp[v].op = "verified"
        PROVE  IInv'
    <2>1. kOp' = [kOp EXCEPT ![v] = NoOp]
      BY <1>9 DEF End
    <2>2. v \in kGlobal => Engaged(v)
      BY DEF Engaged
    <2>. QED  BY <1>7, <1>8, <1>9, <2>1, <2>2
  <1>10. ASSUME NEW o \in {"verified", "deviceMounted", "setUp", "podMounted"}, Go(v, o)
         PROVE  \E n \in OpType : /\ kOp' = [kOp EXCEPT ![v] = n]
                                  /\ n.op = o /\ n.pod = kOp[v].pod
    <2>. DEFINE n == [kOp[v] EXCEPT !.op = o]
    <2>1. n \in OpType /\ n.op = o /\ n.pod = kOp[v].pod
      BY <1>6 DEF OpType, KOps
    <2>2. kOp' = [kOp EXCEPT ![v] = n]
      BY <1>10 DEF Go
    <2>. QED  BY <2>1, <2>2
  <1>11. ASSUME UNCHANGED actual
         PROVE  Rest /\ UNCHANGED <<kAttached, kGlobal, kMounted, device>>
                /\ HasMounts(v)' = HasMounts(v)
    BY <1>0, <1>11 DEF actual, HasMounts, VolumesOf
  <1>12. ASSUME UNCHANGED actual, End(v), kOp[v].op # "deviceMounted"
         PROVE  IInv'
    <2>1. v \notin crossed => /\ HasMounts(v) => v \in kGlobal
                              /\ v \in device => v \in kGlobal /\ v \in plugged
      BY <1>1, <1>12 DEF InUse
    <2>. QED  BY <1>9, <1>11, <1>12, <2>1
  <1>13. CASE VerifyGet(v)
    <2>1. CASE v \in apiAttached /\ Go(v, "verified")
      <3>1. PICK n \in OpType : kOp' = [kOp EXCEPT ![v] = n] /\ n.op = "verified"
        BY <1>10, <2>1
      <3>2. UNCHANGED actual /\ kOp[v].op = "verify" /\ ForPod(v, n)
        BY <1>13, <3>1 DEF VerifyGet, ForPod
      <3>3. v \notin crossed => /\ v \in apiInUse
                                /\ HasMounts(v) => v \in kGlobal
                                /\ v \in device => v \in kGlobal /\ v \in plugged
        BY <1>1, <3>2 DEF InUse, Underway
      <3>4. v \in kGlobal => Engaged(v)
        BY DEF Engaged
      <3>. QED  BY <1>7, <1>11, <2>1, <3>1, <3>2, <3>3, <3>4
    <2>2. CASE End(v)
      BY <1>12, <1>13, <2>2 DEF VerifyGet
    <2>. QED  BY <1>13, <2>1, <2>2 DEF VerifyGet
  <1>14. CASE VerifyMark(v)
    <2>1. /\ End(v) /\ kAttached' = kAttached \cup {v}
          /\ UNCHANGED <<kGlobal, kMounted, device>> /\ kOp[v].op = "verified"
      BY <1>14 DEF VerifyMark
    <2>2. Rest /\ HasMounts(v)' = HasMounts(v)
      BY <1>0, <2>1 DEF HasMounts, VolumesOf
    <2>3. v \notin crossed => /\ HasMounts(v) => v \in kGlobal
                              /\ v \in device => v \in kGlobal /\ v \in plugged
      BY <1>1, <2>1 DEF InUse
    <2>. QED  BY <1>9, <2>1, <2>2, <2>3
  <1>15. CASE MountDevice(v)
    <2>0. kOp[v].op = "mount" /\ UNCHANGED <<kAttached, kGlobal, kMounted>>
      BY <1>15 DEF MountDevice
    <2>1. CASE v \in plugged /\ device' = device \cup {v} /\ Go(v, "deviceMounted")
      <3>1. PICK n \in OpType : /\ kOp' = [kOp EXCEPT ![v] = n]
                                /\ n.op = "deviceMounted" /\ n.pod = kOp[v].pod
        BY <1>10, <2>1
      <3>2. ForPod(v, n)
        BY <1>6, <2>0, <3>1 DEF ForPod
      <3>3. Rest /\ HasMounts(v)' = HasMounts(v)
        BY <1>0, <2>0, <2>1 DEF HasMounts, VolumesOf
      <3>4. Mounting(v)
        BY <2>0 DEF Mounting
      <3>5. Engaged(v)
        BY <3>4 DEF Engaged
      <3>6. v \notin crossed => v \in apiInUse /\ v \in kAttached /\ (HasMounts(v) => v \in kGlobal)
        BY <1>1, <3>4, <3>5 DEF InUse
      <3>. QED  BY <1>7, <2>0, <2>1, <3>1, <3>2, <3>3, <3>5, <3>6
    <2>2. CASE End(v) /\ UNCHANGED device
      BY <1>12, <2>0, <2>2 DEF actual
    <2>. QED  BY <1>15, <2>1, <2>2 DEF MountDevice
  <1>16. CASE MarkDeviceAsMounted(v)
    <2>0. kOp[v].op = "deviceMounted" /\ UNCHANGED <<kAttached, kMounted, device>>
      BY <1>16 DEF MarkDeviceAsMounted
    <2>1. Mounting(v)
      BY <2>0 DEF Mounting
    <2>2. Engaged(v)
      BY <2>1 DEF Engaged
    <2>3. CASE v \in kAttached /\ kGlobal' = kGlobal \cup {v} /\ Go(v, "setUp")
      <3>1. PICK n \in OpType : /\ kOp' = [kOp EXCEPT ![v] = n]
                                /\ n.op = "setUp" /\ n.pod = kOp[v].pod
        BY <1>10, <2>3
      <3>2. ForPod(v, n)
        BY <1>6, <2>0, <3>1 DEF ForPod
      <3>3. Rest
        BY <1>0, <2>0, <2>3
      <3>4. v \notin crossed => v \in apiInUse /\ (v \in device => v \in plugged)
        BY <1>1, <2>2 DEF InUse
      <3>. QED  BY <1>7, <2>0, <2>2, <2>3, <3>1, <3>2, <3>3, <3>4
    <2>4. CASE v \notin kAttached /\ End(v) /\ UNCHANGED kGlobal
      <3>1. v \in crossed
        BY <1>1, <2>1, <2>4 DEF InUse
      <3>2. Rest
        BY <1>0, <2>0, <2>4
      <3>. QED  BY <1>9, <2>4, <3>1, <3>2
    <2>. QED  BY <1>16, <2>3, <2>4 DEF MarkDeviceAsMounted
  <1>17. CASE SetUp(v)
    <2>0. kOp[v].op = "setUp" /\ UNCHANGED actual
      BY <1>17 DEF SetUp
    <2>1. CASE Go(v, "podMounted")
      <3>1. PICK n \in OpType : /\ kOp' = [kOp EXCEPT ![v] = n]
                                /\ n.op = "podMounted" /\ n.pod = kOp[v].pod
        BY <1>10, <2>1
      <3>2. ForPod(v, n)
        BY <1>6, <2>0, <3>1 DEF ForPod
      <3>3. Mounting(v)
        BY <2>0 DEF Mounting
      <3>4. Engaged(v)
        BY <3>3 DEF Engaged
      <3>5. v \notin crossed => /\ v \in apiInUse /\ v \in kAttached /\ v \in kGlobal
                                /\ v \in device => v \in plugged
        BY <1>1, <2>0, <3>3, <3>4 DEF InUse
      <3>. QED  BY <1>7, <1>11, <2>0, <3>1, <3>2, <3>4, <3>5
    <2>2. CASE End(v)
      BY <1>12, <2>0, <2>2
    <2>. QED  BY <1>17, <2>1, <2>2 DEF SetUp
  <1>18. CASE MarkVolumeAsMounted(v)
    <2>0. /\ kOp[v].op = "podMounted" /\ End(v) /\ UNCHANGED <<kAttached, kGlobal, device>>
          /\ kMounted' \subseteq kMounted \cup {kOp[v].pod}
      BY <1>18 DEF MarkVolumeAsMounted
    <2>1. kOp[v].pod \in Pods /\ VolumeOf[kOp[v].pod] = v
      BY <1>6, <2>0 DEF ForPod
    <2>2. Rest
      BY <1>0, <2>0, <2>1
    <2>3. v \notin crossed => v \in kGlobal /\ (v \in device => v \in plugged)
      BY <1>1, <2>0 DEF InUse
    <2>. QED  BY <1>9, <2>0, <2>2, <2>3
  <1>19. CASE UnmountVolume(v)
    <2>0. /\ kOp[v].op = "unmount" /\ End(v) /\ UNCHANGED <<kAttached, kGlobal, device>>
          /\ kMounted' \subseteq kMounted
      BY <1>19 DEF UnmountVolume
    <2>1. Rest /\ (HasMounts(v)' => HasMounts(v))
      BY <1>0, <2>0 DEF HasMounts, VolumesOf
    <2>2. v \notin crossed => /\ HasMounts(v) => v \in kGlobal
                              /\ v \in device => v \in kGlobal /\ v \in plugged
      BY <1>1, <2>0 DEF InUse
    <2>. QED  BY <1>9, <2>0, <2>1, <2>2
  <1>20. CASE UnmountDevice(v)
    <2>0. /\ kOp[v].op = "unmountDevice" /\ End(v) /\ UNCHANGED <<kAttached, kMounted>>
          /\ \/ kGlobal' = kGlobal \ {v} /\ device' = device \ {v}
             \/ kGlobal' = kGlobal /\ device' \in {device, device \ {v}}
      BY <1>20 DEF UnmountDevice
    <2>1. Rest /\ HasMounts(v)' = HasMounts(v)
      BY <1>0, <2>0 DEF HasMounts, VolumesOf
    <2>2. v \notin crossed => /\ ~HasMounts(v)
                              /\ v \in device => v \in kGlobal /\ v \in plugged
      BY <1>1, <2>0 DEF InUse
    <2>. QED  BY <1>9, <2>0, <2>1, <2>2
  <1>. QED  BY <1>13, <1>14, <1>15, <1>16, <1>17, <1>18, <1>19, <1>20 DEF Operate

\* KubeletNext
LEMMA KubeletKeeps ==
    ASSUME IInv, KubeletNext, UNCHANGED ctrlVars
    PROVE  IInv'
  <1>1. CASE Populate
    BY <1>1, IdlePopulateKeeps, AddKeeps, RemoveKeeps DEF Populate
  <1>2. CASE Heartbeat
    BY <1>2, HeartbeatKeeps
  <1>3. CASE Reconcile
    BY <1>3, ReconcileKeeps
  <1>4. ASSUME NEW v \in Volumes, Operate(v)
        PROVE  IInv'
    BY <1>4, OperateKeeps
  <1>. QED  BY <1>1, <1>2, <1>3, <1>4 DEF KubeletNext
-----------------------------------------------------------------------------
(* The controller.                                                         *)

\* The type invariant's part on the actual state of the world.
AswTypeOK ==
    /\ cAttached \subseteq Volumes /\ mountedByNode \subseteq cAttached
    /\ setOnce \subseteq cAttached /\ detachReq \subseteq cAttached
    /\ expired \subseteq detachReq
    /\ toReport \subseteq Volumes /\ updateNeeded \in BOOLEAN

\* The type invariant's part on the rest of the controller.
RestTypeOK ==
    /\ cSeen \in 0..Len(log) /\ cWant \subseteq Pods
    /\ cached \subseteq Volumes
    /\ nodeEvent \in [pending : BOOLEAN, attached : SUBSET Volumes, inUse : SUBSET Volumes]
    /\ cOp \in [Volumes -> COps] /\ loop \in LoopType
    /\ failures \in 0..MaxFailures

\* What is left to show of a step of the controller.
LEMMA ControllerStep ==
    ASSUME IInv,
           UNCHANGED <<log, apiInUse, desired, actual, kLoop, kOp>>,
           heartbeat' \in HeartbeatType,
           heartbeat'.pc = heartbeat.pc, heartbeat'.inUse = heartbeat.inUse,
           crossed \subseteq crossed', crossed' \subseteq Volumes,
           apiAttached' \subseteq Volumes, plugged' \subseteq Volumes,
           AswTypeOK', RestTypeOK', FlagInv', LoopInv', WithdrawnInv',
           \A v \in Volumes \ crossed' : /\ cOp'[v] = "detach" => ~Engaged(v)
                                         /\ v \in device => v \in plugged'
    PROVE  IInv'
  <1>. USE DEF desired, actual
  <1>1. KubeletTypeOK'
    BY DEF IInv, TypeOK, KubeletTypeOK, HeartbeatType, RestTypeOK
  <1>2. TypeOK'
    BY <1>1 DEF AswTypeOK, RestTypeOK, TypeOK, LoopType
  <1>3. PodInv' /\ ReportInv' /\ MountInv'
    BY KubeletHalf
  <1>4. \A v \in Volumes : Engaged(v)' = Engaged(v)
    BY DEF Engaged, Mounting, Wanted, VolumesOf
  <1>5. ExcludeInv'
    <2>. SUFFICES ASSUME NEW v \in Volumes \ crossed'
                  PROVE  /\ cOp'[v] = "detach" => ~Engaged(v)'
                         /\ v \in device' => v \in plugged'
      BY DEF ExcludeInv
    <2>1. Engaged(v)' = Engaged(v)
      BY <1>4
    <2>. QED  BY <2>1
  <1>. QED  BY <1>2, <1>3, <1>5 DEF IInv

\* The types as the proofs below use them.
LEMMA Typed ==
    ASSUME IInv
    PROVE  /\ AswTypeOK /\ RestTypeOK
           /\ heartbeat \in HeartbeatType /\ crossed \subseteq Volumes
           /\ apiAttached \subseteq Volumes /\ plugged \subseteq Volumes
           /\ log \in Seq(Events)
           /\ \A v \in Volumes \ crossed : /\ cOp[v] = "detach" => ~Engaged(v)
                                           /\ v \in device => v \in plugged
  BY DEF IInv, TypeOK, KubeletTypeOK, AswTypeOK, RestTypeOK, LoopType, HeartbeatType, ExcludeInv

\* The informers' handlers and the passing of time leave the lists alone.
LEMMA EventKeeps ==
    ASSUME IInv, Quiet(PodEvent) \/ Quiet(WatchNode) \/ Quiet(NodeEvent)
                 \/ \E v \in Volumes : Quiet(WaitExpires(v))
    PROVE  IInv'
  <1>. USE DEF Quiet, PodEvent, WatchNode, NodeEvent, WaitExpires
  <1>0. UNCHANGED <<log, apiVars, plugged, kubeletVars, crossed>>
    OBVIOUS
  <1>1. UNCHANGED <<cAttached, toReport, updateNeeded, cOp, loop, failures>>
    BY DEF aswVars
  <1>2. FlagInv' /\ LoopInv' /\ WithdrawnInv'
    BY <1>0, <1>1, ControllerHalf DEF apiVars
  <1>3. AswTypeOK /\ RestTypeOK
    BY Typed
  <1>4. AswTypeOK' /\ RestTypeOK'
    <2>1. CASE PodEvent
      <3>1. cSeen' \in 0..Len(log) /\ cWant' \subseteq Pods
        <4>1. Len(log) \in Nat
          BY Typed
        <4>2. cSeen' = cSeen + 1 /\ cSeen < Len(log) /\ cSeen \in 0..Len(log)
          BY <1>3, <2>1 DEF RestTypeOK
        <4>3. cSeen' \in 0..Len(log)
          BY <4>1, <4>2
        <4>4. cWant' \subseteq Pods
          BY <2>1 DEF PodsAfter
        <4>. QED  BY <4>3, <4>4
      <3>2. AswTypeOK'
        BY <1>3, <2>1 DEF AswTypeOK, aswVars
      <3>. QED  BY <1>0, <1>1, <1>3, <2>1, <3>1, <3>2 DEF RestTypeOK
    <2>2. CASE WatchNode
      <3>1. apiAttached \subseteq Volumes /\ apiInUse \subseteq Volumes
        BY DEF IInv, TypeOK, KubeletTypeOK
      <3>2. nodeEvent' \in [pending : BOOLEAN, attached : SUBSET Volumes, inUse : SUBSET Volumes]
        BY <2>2, <3>1
      <3>3. AswTypeOK'
        BY <1>3, <2>2 DEF AswTypeOK, aswVars
      <3>. QED  BY <1>0, <1>1, <1>3, <2>2, <3>2, <3>3 DEF RestTypeOK
    <2>3. CASE NodeEvent
      <3>1. nodeEvent' \in [pending : BOOLEAN, attached : SUBSET Volumes, inUse : SUBSET Volumes]
        BY <2>3 DEF NoEvent
      <3>2. cached' \subseteq Volumes
        BY <1>3, <2>3 DEF RestTypeOK
      <3>3. AswTypeOK'
        BY <1>3, <2>3 DEF AswTypeOK
      <3>. QED  BY <1>0, <1>1, <1>3, <2>3, <3>1, <3>2, <3>3 DEF RestTypeOK
    <2>4. CASE \E v \in Volumes : WaitExpires(v)
      <3>1. AswTypeOK'
        BY <1>3, <2>4 DEF AswTypeOK
      <3>. QED  BY <1>0, <1>1, <1>3, <2>4, <3>1 DEF RestTypeOK
    <2>. QED  BY <2>1, <2>2, <2>3, <2>4
  <1>5. heartbeat' = heartbeat /\ cOp' = cOp
    BY <1>0, <1>1 DEF kubeletVars
  <1>6. UNCHANGED <<log, apiInUse, desired, actual, kLoop, kOp, plugged, apiAttached, crossed>>
    BY <1>0 DEF kubeletVars, apiVars
  <1>. QED  BY <1>2, <1>4, <1>5, <1>6, Typed, ControllerStep

\* AddVolumeNode reports v, and raises the flag if that is news.
LEMMA AddVolumeNodeOK ==
    ASSUME AswTypeOK, NEW v \in Volumes, AddVolumeNode(v)
    PROVE  /\ AswTypeOK'
           /\ cAttached' = cAttached \cup {v} /\ toReport' = toReport \cup {v}
           /\ updateNeeded => updateNeeded'
           /\ ~updateNeeded' => toReport' = toReport
  BY DEF AddVolumeNode, AswTypeOK

\* DeleteVolumeNode withdraws v, and raises the flag if that is news.
LEMMA DeleteVolumeNodeOK ==
    ASSUME AswTypeOK, NEW v \in Volumes, DeleteVolumeNode(v)
    PROVE  /\ AswTypeOK'
           /\ cAttached' = cAttached \ {v} /\ toReport' = toReport \ {v}
           /\ updateNeeded => updateNeeded'
           /\ ~updateNeeded' => toReport' = toReport
  BY DEF DeleteVolumeNode, AswTypeOK

\* MarkDesireToDetach withdraws v, and raises the flag if that is news.
LEMMA MarkDesireToDetachOK ==
    ASSUME AswTypeOK, toReport \subseteq cAttached, NEW v \in Volumes, MarkDesireToDetach(v)
    PROVE  /\ AswTypeOK'
           /\ cAttached' = cAttached /\ toReport' = toReport \ {v}
           /\ updateNeeded => updateNeeded'
           /\ ~updateNeeded' => toReport' = toReport
  BY DEF MarkDesireToDetach, AswTypeOK

\* The operations: an attachment is of a volume that no detach is pending on;
\* verifySafeToDetach lets a volume pass that the kubelet is not engaged with;
\* the cloud detaches one whose device is not mounted.
LEMMA OperationKeeps ==
    ASSUME IInv, NEW v \in Volumes, OperationNext(v)
    PROVE  IInv'
  <1>. USE DEF Quiet, CallFrame
  <1>0. UNCHANGED <<cSeen, cWant, cached, nodeEvent, loop, log, apiVars, kubeletVars, crossed>>
    BY DEF OperationNext, AttachVolume, CheckInUse, DetachVolume, BackoffOver
  <1>1. AswTypeOK /\ RestTypeOK /\ plugged \subseteq Volumes
    BY Typed
  <1>2. UNCHANGED <<log, apiInUse, apiAttached, desired, actual, kLoop, kOp, heartbeat,
                    loop, crossed>>
    BY <1>0 DEF kubeletVars, apiVars
  <1>3. ASSUME NEW o \in COps, cOp' = [cOp EXCEPT ![v] = o],
               failures' \in 0..MaxFailures, AswTypeOK', plugged' \subseteq Volumes,
               FlagInv', LoopInv', WithdrawnInv',
               v \notin crossed => /\ o = "detach" => ~Engaged(v)
                                   /\ v \in device => v \in plugged',
               plugged \ {v} \subseteq plugged'
        PROVE  IInv'
    <2>1. RestTypeOK'
      BY <1>0, <1>1, <1>3 DEF RestTypeOK
    <2>2. \A w \in Volumes : cOp'[w] = IF w = v THEN o ELSE cOp[w]
      BY <1>1, <1>3 DEF RestTypeOK
    <2>3. \A w \in Volumes \ crossed' : /\ cOp'[w] = "detach" => ~Engaged(w)
                                        /\ w \in device => w \in plugged'
      BY <1>2, <1>3, <2>2, Typed
    <2>. QED  BY <1>2, <1>3, <2>1, <2>3, Typed, ControllerStep
  <1>4. ASSUME NEW o \in COps, cOp' = [cOp EXCEPT ![v] = o]
        PROVE  \A w \in Volumes : cOp'[w] = IF w = v THEN o ELSE cOp[w]
    BY <1>1, <1>4 DEF RestTypeOK
  <1>5. ASSUME NEW o \in {"none", "backoff", "detach"}, cOp' = [cOp EXCEPT ![v] = o],
               o = "detach" => cOp[v] = "checkInUse",
               UNCHANGED <<cAttached, toReport, updateNeeded>>
        PROVE  FlagInv' /\ LoopInv' /\ WithdrawnInv'
    <2>1. \A w \in Volumes : cOp'[w] = IF w = v THEN o ELSE cOp[w]
      BY <1>4, <1>5 DEF COps
    <2>2. FlagInv'
      BY <1>2, <1>5 DEF IInv, FlagInv
    <2>3. LoopInv'
      BY <1>2, <1>5, <2>1 DEF IInv, LoopInv
    <2>4. WithdrawnInv'
      BY <1>2, <1>5, <2>1 DEF IInv, WithdrawnInv
    <2>. QED  BY <2>2, <2>3, <2>4
  <1>6. failures' = failures \/ Fail => failures' \in 0..MaxFailures
    BY <1>1, MaxFailuresType DEF RestTypeOK, Fail
  <1>7. CASE AttachVolume(v)
    <2>0. cOp[v] = "attach" /\ v \notin cAttached
      BY <1>7 DEF AttachVolume, IInv, LoopInv
    <2>1. CASE AddVolumeNode(v) /\ plugged' = plugged \cup {v}
               /\ cOp' = [cOp EXCEPT ![v] = "none"] /\ failures' = failures
      <3>1. /\ AswTypeOK'
            /\ cAttached' = cAttached \cup {v} /\ toReport' = toReport \cup {v}
            /\ updateNeeded => updateNeeded'
            /\ ~updateNeeded' => toReport' = toReport
        BY <1>1, <2>1, AddVolumeNodeOK
      <3>2. \A w \in Volumes : cOp'[w] = IF w = v THEN "none" ELSE cOp[w]
        BY <1>4, <2>1 DEF COps
      <3>3. FlagInv'
        BY <1>2, <3>1 DEF IInv, FlagInv
      <3>4. v \notin loop.volume
        BY <2>0 DEF IInv, LoopInv
      <3>5. LoopInv'
        BY <1>2, <3>1, <3>2, <3>4 DEF IInv, LoopInv
      <3>6. WithdrawnInv'
        BY <1>2, <3>1, <3>2 DEF IInv, WithdrawnInv
      <3>7. "none" \in COps
        BY DEF COps
      <3>. QED  BY <1>1, <1>3, <1>6, <2>1, <3>1, <3>3, <3>5, <3>6, <3>7, Typed
    <2>2. CASE Fail /\ UNCHANGED aswVars /\ cOp' = [cOp EXCEPT ![v] = "backoff"]
               /\ plugged' \in {plugged, plugged \cup {v}}
      <3>1. UNCHANGED <<cAttached, toReport, updateNeeded>>
        BY <2>2 DEF aswVars
      <3>2. FlagInv' /\ LoopInv' /\ WithdrawnInv'
        BY <1>5, <2>2, <3>1
      <3>3. AswTypeOK'
        BY <1>1, <2>2 DEF AswTypeOK, aswVars
      <3>4. "backoff" \in COps
        BY DEF COps
      <3>5. v \notin crossed => (v \in device => v \in plugged')
        BY <2>2, Typed
      <3>6. plugged' \subseteq Volumes /\ plugged \ {v} \subseteq plugged'
        BY <1>1, <2>2
      <3>. QED  BY <1>3, <1>6, <2>2, <3>2, <3>3, <3>4, <3>5, <3>6
    <2>. QED  BY <1>7, <2>1, <2>2 DEF AttachVolume
  <1>10. CASE DetachVolume(v)
    <2>0. cOp[v] = "detach" /\ (v \notin crossed => v \notin device)
      <3>1. cOp[v] = "detach"
        BY <1>10 DEF DetachVolume
      <3>. QED  BY <3>1 DEF IInv, ExcludeInv, MountInv, InUse, Engaged, Mounting
    <2>1. CASE DeleteVolumeNode(v) /\ plugged' = plugged \ {v}
               /\ cOp' = [cOp EXCEPT ![v] = "none"] /\ failures' = failures
      <3>1. /\ AswTypeOK'
            /\ cAttached' = cAttached \ {v} /\ toReport' = toReport \ {v}
            /\ updateNeeded => updateNeeded'
            /\ ~updateNeeded' => toReport' = toReport
        BY <1>1, <2>1, DeleteVolumeNodeOK
      <3>2. \A w \in Volumes : cOp'[w] = IF w = v THEN "none" ELSE cOp[w]
        BY <1>4, <2>1 DEF COps
      <3>3. FlagInv'
        BY <1>2, <3>1 DEF IInv, FlagInv
      <3>4. LoopInv'
        BY <1>2, <3>1, <3>2 DEF IInv, LoopInv
      <3>5. WithdrawnInv'
        BY <1>2, <3>1, <3>2 DEF IInv, WithdrawnInv
      <3>6. "none" \in COps
        BY DEF COps
      <3>. QED  BY <1>1, <1>3, <1>6, <2>0, <2>1, <3>1, <3>3, <3>4, <3>5, <3>6
    <2>2. CASE Fail /\ UNCHANGED aswVars /\ cOp' = [cOp EXCEPT ![v] = "backoff"]
               /\ plugged' \in {plugged, plugged \ {v}}
      <3>1. UNCHANGED <<cAttached, toReport, updateNeeded>>
        BY <2>2 DEF aswVars
      <3>2. FlagInv' /\ LoopInv' /\ WithdrawnInv'
        BY <1>5, <2>2, <3>1
      <3>3. AswTypeOK'
        BY <1>1, <2>2 DEF AswTypeOK, aswVars
      <3>4. "backoff" \in COps
        BY DEF COps
      <3>. QED  BY <1>1, <1>3, <1>6, <2>0, <2>2, <3>2, <3>3, <3>4
    <2>. QED  BY <1>10, <2>1, <2>2 DEF DetachVolume
  <1>8. CASE CheckInUse(v)
    <2>. DEFINE o == IF v \in apiInUse THEN "backoff" ELSE "detach"
    <2>1. cOp' = [cOp EXCEPT ![v] = o] /\ cOp[v] = "checkInUse"
          /\ UNCHANGED <<aswVars, plugged, failures>>
      BY <1>8 DEF CheckInUse
    <2>2. UNCHANGED <<cAttached, toReport, updateNeeded>>
      BY <2>1 DEF aswVars
    <2>3. FlagInv' /\ LoopInv' /\ WithdrawnInv'
      BY <1>5, <2>1, <2>2
    <2>4. AswTypeOK'
      BY <1>1, <2>1 DEF AswTypeOK, aswVars
    <2>5. v \notin crossed /\ Engaged(v) => v \in apiInUse
      BY DEF IInv, MountInv, InUse
    <2>6. o \in COps
      BY DEF COps
    <2>. QED  BY <1>1, <1>3, <1>6, <2>1, <2>3, <2>4, <2>5, <2>6, Typed
  <1>9. CASE BackoffOver(v)
    <2>1. cOp' = [cOp EXCEPT ![v] = "none"] /\ UNCHANGED <<aswVars, plugged, failures>>
      BY <1>9 DEF BackoffOver
    <2>2. UNCHANGED <<cAttached, toReport, updateNeeded>>
      BY <2>1 DEF aswVars
    <2>3. FlagInv' /\ LoopInv' /\ WithdrawnInv'
      BY <1>5, <2>1, <2>2
    <2>4. AswTypeOK'
      BY <1>1, <2>1 DEF AswTypeOK, aswVars
    <2>5. "none" \in COps
      BY DEF COps
    <2>6. v \notin crossed => (v \in device => v \in plugged')
      BY <2>1, Typed
    <2>7. failures' \in 0..MaxFailures /\ plugged' \subseteq Volumes /\ plugged \ {v} \subseteq plugged'
      BY <1>1, <1>6, <2>1
    <2>. QED  BY <1>3, <2>1, <2>3, <2>4, <2>5, <2>6, <2>7
  <1>. QED  BY <1>7, <1>8, <1>9, <1>10 DEF OperationNext
-----------------------------------------------------------------------------
(* The reconciler.                                                         *)

\* The loop is at none of the places where a status update is under way.
Between(l) == /\ l \in LoopType /\ l.pc \in {"sleep", "detach", "attach"}
              /\ l.volume = {} /\ ~l.patch /\ l.list = {}

\* The detach loop begins, or goes on, with its list.
LEMMA DetachLoopOK ==
    ASSUME cWant \subseteq Pods, NEW T \in SUBSET Volumes, NEW M \in SUBSET Volumes,
           NEW l, l = Advance([Sleep EXCEPT !.pc = "detach", !.todo = T, !.mounted = M])
    PROVE  Between(l) /\ (l.pc = "detach" => l.todo = T)
  <1>. DEFINE d == [Sleep EXCEPT !.pc = "detach", !.todo = T, !.mounted = M]
  <1>1. d \in LoopType /\ d.pc = "detach" /\ d.todo = T /\ d.volume = {} /\ ~d.patch /\ d.list = {}
    BY DEF Sleep, LoopType
  <1>2. l = Advance(d)
    OBVIOUS
  <1>. HIDE DEF d
  <1>. QED  BY <1>1, <1>2, AdvanceOK DEF Between

\* What is left to show of a step of the reconciler that writes no status and
\* leaves the kubelet alone.
LEMMA QuietStep ==
    ASSUME IInv, UNCHANGED <<cached, failures, apiAttached, kubeletVars>>, Frame,
           crossed \subseteq crossed', crossed' \subseteq Volumes,
           cOp' \in [Volumes -> COps], loop' \in LoopType, AswTypeOK',
           FlagInv', LoopInv', WithdrawnInv',
           \A v \in Volumes \ crossed' : cOp'[v] = "detach" => cOp[v] = "detach"
    PROVE  IInv'
  <1>1. RestTypeOK'
    BY Typed DEF RestTypeOK, Frame
  <1>2. UNCHANGED <<log, apiInUse, desired, actual, kLoop, kOp, heartbeat, plugged>>
    BY DEF Frame, kubeletVars
  <1>3. \A v \in Volumes \ crossed' : /\ cOp'[v] = "detach" => ~Engaged(v)
                                      /\ v \in device => v \in plugged'
    BY <1>2, Typed
  <1>. QED  BY <1>1, <1>2, <1>3, Typed, ControllerStep

\* LoopStart and DetachSkip
LEMMA DetachLoopKeeps ==
    ASSUME IInv, UNCHANGED kubeletVars, LoopStart \/ \E v \in Volumes : DetachSkip(v)
    PROVE  IInv'
  <1>0. AswTypeOK /\ RestTypeOK /\ crossed \subseteq Volumes
    BY Typed
  <1>1. UNCHANGED <<aswVars, cached, cOp, failures, apiAttached, crossed>> /\ Frame
    BY DEF LoopStart, DetachSkip
  <1>2. Between(loop') /\ (loop'.pc = "detach" => \A w \in loop'.todo : cOp[w] # "attach")
    <2>1. CASE LoopStart
      <3>1. cAttached \in SUBSET Volumes /\ mountedByNode \in SUBSET Volumes
        BY <1>0 DEF AswTypeOK
      <3>2. Between(loop') /\ (loop'.pc = "detach" => loop'.todo = cAttached)
        <4>1. loop' = Advance([Sleep EXCEPT !.pc = "detach", !.todo = cAttached, !.mounted = mountedByNode])
          BY <2>1 DEF LoopStart
        <4>2. cWant \subseteq Pods
          BY <1>0 DEF RestTypeOK
        <4>. QED  BY <3>1, <4>1, <4>2, DetachLoopOK
      <3>. QED  BY <1>0, <3>1, <3>2 DEF IInv, LoopInv
    <2>2. ASSUME NEW v \in Volumes, DetachSkip(v)
          PROVE  Between(loop') /\ (loop'.pc = "detach" => \A w \in loop'.todo : cOp[w] # "attach")
      <3>. DEFINE l == [loop EXCEPT !.todo = @ \ {v}, !.mounted = @ \ {v}]
      <3>1. loop.pc = "detach" /\ loop' = Advance(l)
        BY <2>2 DEF DetachSkip
      <3>2. /\ l \in LoopType /\ l.pc = "detach" /\ l.volume = loop.volume
            /\ l.patch = loop.patch /\ l.list = loop.list /\ l.todo = loop.todo \ {v}
        BY <1>0, <3>1 DEF RestTypeOK, LoopType
      <3>3. loop.volume = {} /\ ~loop.patch /\ loop.list = {}
        BY <3>1 DEF IInv, LoopInv
      <3>4. loop.todo \subseteq Volumes
        BY <1>0 DEF RestTypeOK, LoopType
      <3>5. \A w \in loop.todo : cOp[w] # "attach"
        BY <3>1, <3>4 DEF IInv, LoopInv
      <3>. HIDE DEF l
      <3>6. /\ loop' \in LoopType
            /\ loop'.pc \in {"detach", "attach"}
            /\ loop'.pc = "attach" => loop'.volume = {} /\ ~loop'.patch /\ loop'.list = {}
            /\ loop'.pc # "attach" => loop' = l
        BY <1>0, <3>1, <3>2, AdvanceOK DEF RestTypeOK
      <3>. QED  BY <3>2, <3>3, <3>5, <3>6 DEF Between
    <2>. QED  BY <2>1, <2>2
  <1>3. UNCHANGED <<cAttached, toReport, updateNeeded, cOp, apiAttached, crossed>>
    BY <1>1 DEF aswVars
  <1>4. FlagInv'
    BY <1>2, <1>3 DEF IInv, FlagInv, Between
  <1>5. LoopInv'
    BY <1>2, <1>3 DEF IInv, LoopInv, Between
  <1>6. WithdrawnInv'
    BY <1>2, <1>3 DEF IInv, WithdrawnInv, Between
  <1>7. AswTypeOK'
    BY <1>0, <1>1 DEF AswTypeOK, aswVars
  <1>. QED  BY <1>0, <1>1, <1>2, <1>4, <1>5, <1>6, <1>7, QuietStep DEF Between, RestTypeOK

\* DetachMark: the volume is withdrawn before the list is read.
LEMMA DetachMarkKeeps ==
    ASSUME IInv, UNCHANGED kubeletVars, NEW v \in Volumes, DetachMark(v)
    PROVE  IInv'
  <1>0. AswTypeOK /\ RestTypeOK /\ crossed \subseteq Volumes /\ toReport \subseteq cAttached
    BY Typed DEF IInv, LoopInv
  <1>1. UNCHANGED <<cached, cOp, failures, apiAttached, crossed>> /\ Frame
        /\ loop.pc = "detach" /\ v \in loop.todo
    BY DEF DetachMark
  <1>2. /\ AswTypeOK'
        /\ cAttached' = cAttached /\ toReport' = toReport \ {v}
        /\ updateNeeded => updateNeeded'
        /\ ~updateNeeded' => toReport' = toReport
    BY <1>0, MarkDesireToDetachOK DEF DetachMark
  <1>3. updateNeeded' \in BOOLEAN /\ toReport' \subseteq Volumes
    BY <1>2 DEF AswTypeOK
  <1>. DEFINE r == ReadReport(loop)
  <1>4. /\ r \in LoopType /\ r.patch = updateNeeded' /\ r.todo = loop.todo
        /\ r.list = IF updateNeeded' THEN toReport' ELSE {}
    BY <1>0, <1>3 DEF RestTypeOK, LoopType, ReadReport
  <1>5. loop' = [r EXCEPT !.pc = "patchDetach", !.todo = @ \ {v}, !.volume = {v},
                          !.overdue = v \in expired]
    BY DEF DetachMark
  <1>. HIDE DEF r
  <1>6. (v \in expired) \in BOOLEAN
    OBVIOUS
  <1>7. /\ loop' \in LoopType /\ loop'.pc = "patchDetach" /\ loop'.todo = loop.todo \ {v}
        /\ loop'.volume = {v} /\ loop'.patch = r.patch /\ loop'.list = r.list
    BY <1>4, <1>5, <1>6 DEF LoopType
  <1>8. /\ loop'.patch = updateNeeded' /\ loop'.list \subseteq toReport'
        /\ ~updateNeeded' => loop'.list = {}
    BY <1>4, <1>7
  <1>9. FlagInv'
    BY <1>1, <1>2, <1>8 DEF IInv, FlagInv
  <1>10. LoopInv'
    <2>1. \A w \in loop.todo : w \in Volumes => cOp[w] # "attach"
      BY <1>1 DEF IInv, LoopInv
    <2>. QED  BY <1>1, <1>2, <1>7, <1>8, <2>1 DEF IInv, LoopInv
  <1>11. WithdrawnInv'
    <2>. SUFFICES ASSUME NEW w \in Volumes \ crossed
                  PROVE  /\ w \in loop'.volume /\ ~loop'.patch => w \notin apiAttached
                         /\ cOp[w] \in {"checkInUse", "detach"}
                                => w \notin apiAttached \cup toReport' \cup loop'.list
      BY <1>1 DEF WithdrawnInv
    <2>1. w \in loop'.volume /\ ~loop'.patch => w \notin apiAttached
      BY <1>1, <1>2, <1>7, <1>8, <1>9 DEF FlagInv
    <2>2. cOp[w] \in {"checkInUse", "detach"} => w \notin apiAttached \cup toReport
      BY DEF IInv, WithdrawnInv
    <2>. QED  BY <1>2, <1>8, <2>1, <2>2
  <1>. QED  BY <1>0, <1>1, <1>2, <1>7, <1>9, <1>10, <1>11, QuietStep DEF RestTypeOK

\* AttachTouch: a volume that is reported again while its detach is pending is
\* crossed.  AttachStart: only a volume without any operation gets one.
LEMMA AttachingKeeps ==
    ASSUME IInv, UNCHANGED kubeletVars, NEW v \in Volumes, AttachTouch(v) \/ AttachStart(v)
    PROVE  IInv'
  <1>0. AswTypeOK /\ RestTypeOK /\ crossed \subseteq Volumes
    BY Typed
  <1>1. UNCHANGED <<cached, failures, apiAttached>> /\ Frame
        /\ loop.pc = "attach" /\ loop' = [loop EXCEPT !.todo = @ \ {v}]
    BY DEF AttachTouch, AttachStart
  <1>2. loop.volume = {} /\ ~loop.patch /\ loop.list = {}
    BY <1>1 DEF IInv, LoopInv
  <1>3. /\ loop' \in LoopType /\ loop'.pc = "attach" /\ loop'.volume = {}
        /\ ~loop'.patch /\ loop'.list = {}
    BY <1>0, <1>1, <1>2 DEF RestTypeOK, LoopType
  <1>4. CASE AttachTouch(v)
    <2>1. AddVolumeNode(v) /\ v \in cAttached /\ cOp' = cOp
          /\ crossed' = IF cOp[v] \in {"checkInUse", "detach"} THEN crossed \cup {v} ELSE crossed
      BY <1>4 DEF AttachTouch
    <2>2. crossed \subseteq crossed' /\ crossed' \subseteq Volumes
          /\ (v \notin crossed' => cOp[v] \notin {"checkInUse", "detach"})
      BY <1>0, <2>1
    <2>3. /\ AswTypeOK'
          /\ cAttached' = cAttached /\ toReport' = toReport \cup {v}
          /\ updateNeeded => updateNeeded'
          /\ ~updateNeeded' => toReport' = toReport
      BY <1>0, <2>1, AddVolumeNodeOK
    <2>4. FlagInv'
      BY <1>1, <1>3, <2>2, <2>3 DEF IInv, FlagInv
    <2>5. LoopInv'
      BY <1>3, <2>1, <2>3 DEF IInv, LoopInv
    <2>6. WithdrawnInv'
      BY <1>1, <1>3, <2>1, <2>2, <2>3 DEF IInv, WithdrawnInv
    <2>. QED  BY <1>0, <1>1, <1>3, <2>1, <2>2, <2>3, <2>4, <2>5, <2>6, QuietStep DEF RestTypeOK
  <1>5. CASE AttachStart(v)
    <2>1. v \notin cAttached /\ UNCHANGED <<aswVars, crossed>>
          /\ cOp' = IF cOp[v] = "none" THEN [cOp EXCEPT ![v] = "attach"] ELSE cOp
      BY <1>5 DEF AttachStart
    <2>2. UNCHANGED <<cAttached, toReport, updateNeeded>> /\ AswTypeOK'
      BY <1>0, <2>1 DEF AswTypeOK, aswVars
    <2>3. cOp' \in [Volumes -> COps]
          /\ \A w \in Volumes : cOp'[w] = cOp[w] \/ (w = v /\ cOp'[w] = "attach")
      BY <1>0, <2>1 DEF RestTypeOK, COps
    <2>4. FlagInv'
      BY <1>1, <1>3, <2>1, <2>2 DEF IInv, FlagInv
    <2>5. LoopInv'
      BY <1>3, <2>1, <2>2, <2>3 DEF IInv, LoopInv
    <2>6. WithdrawnInv'
      BY <1>1, <1>3, <2>1, <2>2, <2>3 DEF IInv, WithdrawnInv
    <2>7. \A w \in Volumes : cOp'[w] = "detach" => cOp[w] = "detach"
      BY <2>3
    <2>. QED  BY <1>0, <1>1, <1>3, <2>1, <2>2, <2>3, <2>4, <2>5, <2>6, <2>7, QuietStep
  <1>. QED  BY <1>4, <1>5

\* FinalReport: the list is read.
LEMMA FinalReportKeeps ==
    ASSUME IInv, UNCHANGED kubeletVars, FinalReport
    PROVE  IInv'
  <1>0. AswTypeOK /\ RestTypeOK /\ crossed \subseteq Volumes
    BY Typed
  <1>1. UNCHANGED <<aswVars, cached, cOp, failures, apiAttached, crossed>> /\ Frame
        /\ loop.pc = "attach" /\ loop' = [ReadReport(loop) EXCEPT !.pc = "patch"]
    BY DEF FinalReport
  <1>2. UNCHANGED <<cAttached, toReport, updateNeeded>> /\ AswTypeOK'
    BY <1>0, <1>1 DEF AswTypeOK, aswVars
  <1>3. updateNeeded' \in BOOLEAN /\ toReport' \subseteq Volumes
    BY <1>2 DEF AswTypeOK
  <1>. DEFINE r == ReadReport(loop)
  <1>4. /\ r \in LoopType /\ r.patch = updateNeeded' /\ r.volume = loop.volume
        /\ r.list = IF updateNeeded' THEN toReport' ELSE {}
    BY <1>0, <1>3 DEF RestTypeOK, LoopType, ReadReport
  <1>5. loop' = [r EXCEPT !.pc = "patch"]
    BY <1>1
  <1>. HIDE DEF r
  <1>6. loop.volume = {}
    BY <1>1 DEF IInv, LoopInv
  <1>7. /\ loop' \in LoopType /\ loop'.pc = "patch" /\ loop'.volume = {}
        /\ loop'.patch = updateNeeded /\ loop'.list \subseteq toReport
    BY <1>2, <1>4, <1>5, <1>6 DEF LoopType
  <1>8. FlagInv'
    BY <1>1, <1>2, <1>7 DEF IInv, FlagInv
  <1>9. LoopInv'
    BY <1>1, <1>2, <1>7 DEF IInv, LoopInv
  <1>10. WithdrawnInv'
    BY <1>1, <1>2, <1>7 DEF IInv, WithdrawnInv
  <1>. QED  BY <1>0, <1>1, <1>2, <1>7, <1>8, <1>9, <1>10, QuietStep DEF RestTypeOK

\* PatchDone and PatchFails: what the status says afterwards it said before or
\* the list said.  Where the flag is reset the API server has the list, and
\* the volume the detach loop has marked is withdrawn, unless it is crossed.
LEMMA PatchOK ==
    ASSUME IInv, NEW b \in SUBSET Volumes, toReport' = toReport,
           (PatchDone(b) /\ failures' = failures) \/ PatchFails
    PROVE  /\ crossed \subseteq crossed' /\ crossed' \subseteq Volumes
           /\ apiAttached' \subseteq apiAttached \cup loop.list
           /\ cached' \subseteq Volumes /\ updateNeeded' \in BOOLEAN
           /\ heartbeat' \in HeartbeatType
           /\ heartbeat'.pc = heartbeat.pc /\ heartbeat'.inUse = heartbeat.inUse
           /\ failures' \in 0..MaxFailures
           /\ \A v \in Volumes \ crossed' : ~updateNeeded' => (v \in apiAttached' <=> v \in toReport)
           /\ PatchDone(b) => /\ b \subseteq crossed'
                              /\ \A v \in Volumes \ crossed' : v \in loop.volume => v \notin apiAttached'
  <1>0. /\ updateNeeded \in BOOLEAN /\ cached \subseteq Volumes /\ loop \in LoopType
        /\ failures \in 0..MaxFailures /\ heartbeat \in HeartbeatType
        /\ crossed \subseteq Volumes
    BY Typed DEF AswTypeOK, RestTypeOK
  <1>1. loop.list \subseteq Volumes
    BY <1>0 DEF LoopType
  <1>. DEFINE m == [heartbeat EXCEPT !.moved = TRUE]
  <1>2. m \in HeartbeatType /\ m.pc = heartbeat.pc /\ m.inUse = heartbeat.inUse
    BY <1>0 DEF HeartbeatType
  <1>3. heartbeat' \in {heartbeat, m}
    BY DEF PatchDone, PatchFails
  <1>. HIDE DEF m
  <1>4. heartbeat' \in HeartbeatType /\ heartbeat'.pc = heartbeat.pc /\ heartbeat'.inUse = heartbeat.inUse
    BY <1>0, <1>2, <1>3
  <1>5. failures' \in 0..MaxFailures
    BY <1>0, MaxFailuresType DEF PatchFails, Fail
  <1>6. \A v \in Volumes \ crossed : /\ ~updateNeeded => (v \in apiAttached <=> v \in toReport)
                                     /\ v \in loop.volume /\ ~loop.patch => v \notin apiAttached
    BY DEF IInv, FlagInv, WithdrawnInv
  <1>7. \A v \in Volumes : v \in loop.volume => v \notin loop.list
    BY DEF IInv, LoopInv
  <1>8. CASE PatchDone(b) /\ ~loop.patch
    <2>1. crossed' = crossed \cup b /\ UNCHANGED <<apiAttached, cached, updateNeeded>>
      BY <1>8 DEF PatchDone
    <2>. QED  BY <1>0, <1>4, <1>5, <1>6, <1>8, <2>1
  <1>9. CASE PatchDone(b) /\ loop.patch
    <2>1. /\ cached' = loop.list /\ updateNeeded' = FALSE
          /\ apiAttached' \in {apiAttached, loop.list}
          /\ crossed' = crossed \cup b \cup
                      {v \in Volumes : \/ (v \in apiAttached') # (v \in loop.list)
                                       \/ (v \in toReport) # (v \in loop.list)}
      BY <1>9 DEF PatchDone
    <2>2. \A v \in Volumes \ crossed' : /\ v \in apiAttached' <=> v \in loop.list
                                        /\ v \in toReport <=> v \in loop.list
      BY <2>1
    <2>3. crossed \subseteq crossed' /\ crossed' \subseteq Volumes /\ b \subseteq crossed'
      BY <1>0, <2>1
    <2>4. apiAttached' \subseteq apiAttached \cup loop.list
      BY <2>1
    <2>. QED  BY <1>1, <1>4, <1>5, <1>7, <2>1, <2>2, <2>3, <2>4
  <1>10. CASE PatchFails /\ ~PatchDone(b)
    <2>1. /\ cached' = loop.list /\ UNCHANGED <<updateNeeded, crossed>> /\ loop.patch
          /\ apiAttached' \in {apiAttached, loop.list}
      BY <1>10 DEF PatchFails
    <2>2. updateNeeded'
      BY <2>1 DEF IInv, FlagInv
    <2>3. apiAttached' \subseteq apiAttached \cup loop.list
      BY <2>1
    <2>. QED  BY <1>0, <1>1, <1>4, <1>5, <1>10, <2>1, <2>2, <2>3
  <1>. QED  BY <1>8, <1>9, <1>10
\* What is left to show of a step that writes the status: what it does to the
\* operations and where the loop goes on.
LEMMA PatchStep ==
    ASSUME IInv, NEW b \in SUBSET Volumes,
           (PatchDone(b) /\ failures' = failures) \/ PatchFails,
           UNCHANGED <<cAttached, mountedByNode, setOnce, detachReq, expired, toReport>>,
           KubeletFrame, Frame,
           Between(loop'), loop'.pc = "detach" => loop'.todo = loop.todo /\ loop.pc = "patchDetach",
           cOp' \in [Volumes -> COps],
           \A v \in Volumes :
               \/ cOp'[v] = cOp[v]
               \/ /\ PatchDone(b) /\ v \in loop.volume
                  /\ cOp'[v] = "checkInUse" \/ (cOp'[v] = "detach" /\ v \in b)
    PROVE  IInv'
  <1>1. /\ crossed \subseteq crossed' /\ crossed' \subseteq Volumes
        /\ apiAttached' \subseteq apiAttached \cup loop.list
        /\ cached' \subseteq Volumes /\ updateNeeded' \in BOOLEAN
        /\ heartbeat' \in HeartbeatType
        /\ heartbeat'.pc = heartbeat.pc /\ heartbeat'.inUse = heartbeat.inUse
        /\ failures' \in 0..MaxFailures
        /\ \A v \in Volumes \ crossed' : ~updateNeeded' => (v \in apiAttached' <=> v \in toReport)
        /\ PatchDone(b) => /\ b \subseteq crossed'
                           /\ \A v \in Volumes \ crossed' : v \in loop.volume => v \notin apiAttached'
    BY PatchOK
  <1>2. AswTypeOK /\ RestTypeOK /\ apiAttached \subseteq Volumes /\ plugged \subseteq Volumes
    BY Typed
  <1>3. AswTypeOK'
    BY <1>1, <1>2 DEF AswTypeOK
  <1>4. RestTypeOK'
    BY <1>1, <1>2 DEF RestTypeOK, Frame, Between
  <1>5. loop.list \subseteq Volumes
    BY <1>2 DEF RestTypeOK, LoopType
  <1>6. apiAttached' \subseteq Volumes
    BY <1>1, <1>2, <1>5
  <1>7. loop'.volume = {} /\ ~loop'.patch /\ loop'.list = {} /\ loop'.pc \in {"sleep", "detach", "attach"}
    BY DEF Between
  <1>8. FlagInv'
    BY <1>1, <1>7 DEF FlagInv
  <1>9. LoopInv'
    <2>1. \A v \in Volumes : cOp'[v] = "attach" => cOp[v] = "attach"
      OBVIOUS
    <2>2. \A v \in Volumes : loop.pc = "patchDetach" /\ v \in loop.todo => cOp[v] # "attach"
      BY DEF IInv, LoopInv
    <2>3. toReport \subseteq cAttached /\ \A v \in Volumes : cOp[v] = "attach" => v \notin cAttached
      BY DEF IInv, LoopInv
    <2>. QED  BY <1>7, <2>1, <2>2, <2>3 DEF LoopInv
  <1>10. WithdrawnInv'
    <2>. SUFFICES ASSUME NEW v \in Volumes \ crossed', cOp'[v] \in {"checkInUse", "detach"}
                  PROVE  v \notin apiAttached' \cup toReport
      BY <1>7 DEF WithdrawnInv
    <2>1. CASE cOp'[v] = cOp[v]
      <3>1. v \notin apiAttached \cup toReport \cup loop.list
        BY <1>1, <2>1 DEF IInv, WithdrawnInv
      <3>. QED  BY <1>1, <3>1
    <2>2. CASE PatchDone(b) /\ v \in loop.volume
      <3>1. v \notin toReport
        BY <2>2 DEF IInv, LoopInv
      <3>. QED  BY <1>1, <2>2, <3>1
    <2>. QED  BY <2>1, <2>2
  <1>11. UNCHANGED <<log, apiInUse, desired, actual, kLoop, kOp, plugged>>
    BY DEF Frame, KubeletFrame
  <1>12. \A v \in Volumes \ crossed' : /\ cOp'[v] = "detach" => ~Engaged(v)
                                       /\ v \in device => v \in plugged'
    <2>. SUFFICES ASSUME NEW v \in Volumes \ crossed'
                  PROVE  /\ cOp'[v] = "detach" => ~Engaged(v)
                         /\ v \in device => v \in plugged
      BY <1>11
    <2>1. v \notin crossed
      BY <1>1
    <2>2. cOp'[v] = "detach" => cOp[v] = "detach"
      BY <1>1
    <2>. QED  BY <2>1, <2>2, Typed
  <1>. QED  BY <1>1, <1>2, <1>3, <1>4, <1>6, <1>8, <1>9, <1>10, <1>11, <1>12, ControllerStep

\* NextVolume
LEMMA NextVolumeOK ==
    ASSUME IInv, loop' = NextVolume
    PROVE  Between(loop') /\ (loop'.pc = "detach" => loop'.todo = loop.todo)
  <1>1. loop \in LoopType /\ cWant \subseteq Pods
    BY Typed DEF RestTypeOK
  <1>2. loop.todo \in SUBSET Volumes /\ (loop.mounted \ loop.volume) \in SUBSET Volumes
    BY <1>1 DEF LoopType
  <1>. QED  BY <1>1, <1>2, DetachLoopOK DEF NextVolume

\* DetachStart, DetachUnpatched and FinalPatch
LEMMA PatchKeeps ==
    ASSUME IInv, (\E v \in Volumes : DetachStart(v)) \/ DetachUnpatched \/ FinalPatch
    PROVE  IInv'
  <1>0. cOp \in [Volumes -> COps]
    BY Typed DEF RestTypeOK
  <1>1. ASSUME NEW v \in Volumes, DetachStart(v)
        PROVE  IInv'
    <2>. DEFINE verified   == v \notin loop.mounted
                unverified == v \in loop.mounted /\ loop.overdue
                b          == IF unverified THEN {v} ELSE {}
    <2>1. /\ loop.pc = "patchDetach" /\ loop.volume = {v} /\ loop' = NextVolume
          /\ PatchDone(b) /\ failures' = failures
          /\ UNCHANGED <<cAttached, mountedByNode, setOnce, detachReq, expired, toReport>>
          /\ KubeletFrame /\ Frame
      BY <1>1 DEF DetachStart
    <2>2. cOp' = IF cOp[v] = "none" /\ (verified \/ unverified)
                   THEN [cOp EXCEPT ![v] = IF verified THEN "checkInUse" ELSE "detach"]
                   ELSE cOp
      BY <1>1 DEF DetachStart
    <2>3. cOp' \in [Volumes -> COps]
      BY <1>0, <2>2 DEF COps
    <2>4. \A w \in Volumes : \/ cOp'[w] = cOp[w]
                             \/ w = v /\ cOp'[w] = "checkInUse"
                             \/ w = v /\ cOp'[w] = "detach" /\ unverified
      BY <1>0, <2>2
    <2>5. b \in SUBSET Volumes /\ (unverified => v \in b)
      OBVIOUS
    <2>. HIDE DEF verified, unverified, b
    <2>6. \A w \in Volumes :
             \/ cOp'[w] = cOp[w]
             \/ /\ PatchDone(b) /\ w \in loop.volume
                /\ cOp'[w] = "checkInUse" \/ (cOp'[w] = "detach" /\ w \in b)
      BY <2>1, <2>4, <2>5
    <2>7. Between(loop') /\ (loop'.pc = "detach" => loop'.todo = loop.todo)
      BY <2>1, NextVolumeOK
    <2>. QED  BY <2>1, <2>3, <2>5, <2>6, <2>7, PatchStep
  <1>2. CASE DetachUnpatched
    <2>1. /\ loop.pc = "patchDetach" /\ loop' = NextVolume /\ PatchFails /\ cOp' = cOp
          /\ UNCHANGED <<cAttached, mountedByNode, setOnce, detachReq, expired, toReport>>
          /\ KubeletFrame /\ Frame
      BY <1>2 DEF DetachUnpatched
    <2>2. Between(loop') /\ (loop'.pc = "detach" => loop'.todo = loop.todo)
      BY <2>1, NextVolumeOK
    <2>3. {} \in SUBSET Volumes
      OBVIOUS
    <2>. QED  BY <1>0, <2>1, <2>2, <2>3, PatchStep
  <1>3. CASE FinalPatch
    <2>1. /\ (PatchDone({}) /\ failures' = failures) \/ PatchFails
          /\ loop' = Sleep /\ cOp' = cOp
          /\ UNCHANGED <<cAttached, mountedByNode, setOnce, detachReq, expired, toReport>>
          /\ KubeletFrame /\ Frame
      BY <1>3 DEF FinalPatch
    <2>2. Between(loop') /\ loop'.pc # "detach"
      BY <2>1 DEF Between, Sleep, LoopType
    <2>3. {} \in SUBSET Volumes
      OBVIOUS
    <2>. QED  BY <1>0, <2>1, <2>2, <2>3, PatchStep
  <1>. QED  BY <1>1, <1>2, <1>3

-----------------------------------------------------------------------------
(* The theorems.                                                           *)

\* Every step keeps the invariant.
LEMMA StepKeeps ==
    ASSUME IInv, [Next]_vars
    PROVE  IInv'
  <1>1. CASE UNCHANGED vars
    <2>1. UNCHANGED <<log, apiVars, plugged, kubeletVars, failures, crossed, ctrlVars>>
      BY <1>1 DEF vars, world
    <2>2. PodInv' /\ ReportInv' /\ MountInv'
      BY <2>1, KubeletHalf DEF kubeletVars, desired, actual, apiVars
    <2>3. KubeletTypeOK'
      BY <2>1 DEF IInv, TypeOK, KubeletTypeOK, kubeletVars, desired, actual, apiVars
    <2>4. ExcludeInv'
      BY <2>1 DEF IInv, ExcludeInv, Engaged, Mounting, Wanted, VolumesOf,
                  kubeletVars, desired, actual, ctrlVars
    <2>. QED  BY <2>1, <2>2, <2>3, <2>4, KubeletStep DEF apiVars
  <1>2. CASE Users /\ UNCHANGED ctrlVars
    BY <1>2, UsersKeep
  <1>3. CASE KubeletNext /\ UNCHANGED ctrlVars
    BY <1>3, KubeletKeeps
  <1>4. CASE Quiet(PodEvent) \/ Quiet(WatchNode) \/ Quiet(NodeEvent)
             \/ \E v \in Volumes : Quiet(WaitExpires(v))
    BY <1>4, EventKeeps
  <1>5. CASE \E v \in Volumes : OperationNext(v)
    BY <1>5, OperationKeeps
  <1>6. CASE Quiet(LoopStart \/ Detaching \/ Attaching \/ FinalReport)
    <2>1. UNCHANGED kubeletVars
      BY <1>6 DEF Quiet
    <2>2. LoopStart \/ Detaching \/ Attaching \/ FinalReport
      BY <1>6 DEF Quiet
    <2>. QED  BY <2>1, <2>2, DetachLoopKeeps, DetachMarkKeeps, AttachingKeeps, FinalReportKeeps
              DEF Detaching, Attaching
  <1>7. CASE (\E v \in Volumes : DetachStart(v)) \/ DetachUnpatched \/ FinalPatch
    BY <1>7, PatchKeeps
  <1>. QED  BY <1>1, <1>2, <1>3, <1>4, <1>5, <1>6, <1>7 DEF Next, ReconcilerNext

\* The inductive invariant holds in every reachable state.
LEMMA Inductive == Spec => []IInv
  BY InitHasIt, StepKeeps, PTL DEF Spec

\* TypeOK: every variable of the kubelet and of the controller keeps its type;
\* an operation that mounts is always for a pod.
THEOREM TypeCorrect == Spec => []TypeOK
  <1>1. IInv => TypeOK
    BY DEF IInv
  <1>. QED  BY <1>1, Inductive, PTL

\* MountExcludesDetach: the controller does not detach a volume that the
\* kubelet has mounted or is mounting, whatever the pods, the volumes and the
\* calls that fail, unless the hand-shake was bypassed on that volume
\* (generateDetachVolumeFunc against generateMountVolumeFunc).
THEOREM DetachFindsNoMount == Spec => []MountExcludesDetach
  <1>1. IInv => MountExcludesDetach
    BY DEF IInv, ExcludeInv, MountInv, InUse, Engaged, Mounting, MountExcludesDetach
  <1>. QED  BY <1>1, Inductive, PTL

\* NoDetachWhileMounted: a device that is mounted is attached, also after
\* calls to the cloud that failed with their effect done or not, unless the
\* hand-shake was bypassed on its volume.
THEOREM MountedIsAttached == Spec => []NoDetachWhileMounted
  <1>1. IInv => NoDetachWhileMounted
    BY DEF IInv, TypeOK, KubeletTypeOK, ExcludeInv, NoDetachWhileMounted
  <1>. QED  BY <1>1, Inductive, PTL
=============================================================================
