------------------------------ MODULE Scheduler ------------------------------
(****************************************************************************)
(* The scheduler: the loop that takes a pod, chooses a node and binds the   *)
(* pod to it in the background; the cache of where every pod is, in which   *)
(* a pod is assumed to be on its node until the watch confirms it or the    *)
(* assumption expires; the retries after an error; and the two watches, of  *)
(* the pods without a node (they fill the queue) and of the pods with one   *)
(* (they fill the cache).                                                   *)
(*                                                                          *)
(* Abstractions.  A pod needs one unit; a pod's key stands for the pod, so  *)
(* that a pod created again after a deletion has the key of the old one.    *)
(* The queue is a set.  The deadline of an assumption is any time after it  *)
(* was made.  The watch of the unassigned pods merges what it has not       *)
(* delivered; that of the assigned ones delivers the events one by one, or, *)
(* by a relist, goes on from a later one.  A pod that ends is a deleted one.*)
(* A handler that panics (removePod on a node the cache does not have) is   *)
(* recovered by HandleCrash and changes nothing, like one that returns an   *)
(* error.                                                                   *)
(****************************************************************************)
EXTENDS Naturals, FiniteSets, Sequences

CONSTANTS Pods, Nodes, NoNode,
          AllowedPods,    \* the pods a node may have
          Capacity,       \* the units a node has
          MaxChanges,     \* bound on what the users and the nodes do
          MaxFailures     \* bound on failed calls and restarts

ASSUME NoNodeIsNoNode == NoNode \notin Nodes
ASSUME FiniteAssumption == IsFiniteSet(Pods)
ASSUME RoomAssumption == AllowedPods \in Nat \ {0} /\ Capacity \in Nat \ {0}
ASSUME BoundsAssumption == MaxChanges \in Nat /\ MaxFailures \in Nat

Absent == "absent"        \* the pod does not exist at the server

ASSUME AbsentIsNoNode == Absent \notin Nodes \cup {NoNode}
ASSUME AbsentIsNoPod == Absent \notin Pods

VARIABLES
  server,     \* server[p]: the node the API server has p on, NoNode, or Absent
  news,       \* news[p]: what the watch of unassigned pods has yet to tell the queue
  pending,    \* pending[p]: where the watch of assigned pods has yet to show p
  seen,       \* seen[p]: the node p is on in the store of the assigned pods' informer
  podQueue,   \* the pods in the FIFO
  current,    \* scheduleOne: its pod, the nodes to look at, the nodes that fit
  binds,      \* the bindings being posted: pairs of a pod and a node
  late,       \* those of a process that has died
  waiting,    \* pods whose retry waits for its backoff
  fetched,    \* pods a retry has read without a node and is about to queue
  podStates,  \* podStates[p]: the node in the cache's record of p, NoNode without one
  assumed,    \* assumedPods of the cache
  nodePods,   \* nodePods[n]: the pods counted on n by its NodeInfo
  updating,   \* the pod updatePod has removed, holding the lock, and where it adds it
  nodes,      \* the nodes the cache has a NodeInfo with a node of
  listed,     \* the nodes in the lister's store
  changes, failures,
  bound,      \* history: pods that are on their node by a binding
  lapsed,     \* history: the cache has once not counted a pod on its way to a node
  misplaced   \* history: pods whose assumption another node's event confirmed

cache == <<podStates, assumed, nodePods, updating>>
watches == <<news, pending, seen>>
retries == <<waiting, fetched>>
history == <<lapsed, misplaced>>
vars == <<server, watches, podQueue, current, binds, late, retries, cache, nodes,
          listed, changes, failures, bound, history>>

Idle == [pod |-> Absent, pc |-> "idle", todo |-> {}, fit |-> {}]
NoUpdate == [pod |-> Absent, dest |-> NoNode]
OnNode(p) == server[p] \in Nodes

TypeOK ==
  /\ server \in [Pods -> Nodes \cup {NoNode, Absent}]
  /\ news \in [Pods -> {"none", "set", "gone"}]
  /\ pending \in [Pods -> Seq(Nodes \cup {NoNode})]
  /\ seen \in [Pods -> Nodes \cup {NoNode}]
  /\ podQueue \subseteq Pods
  /\ current \in [pod : Pods \cup {Absent}, pc : {"idle", "list", "snapshot", "check", "error"},
                  todo : SUBSET Nodes, fit : SUBSET Nodes]
  /\ binds \subseteq Pods \X Nodes /\ late \subseteq Pods \X Nodes
  /\ waiting \subseteq Pods /\ fetched \subseteq Pods
  /\ podStates \in [Pods -> Nodes \cup {NoNode}]
  /\ assumed \subseteq Pods
  /\ nodePods \in [Nodes -> SUBSET Pods]
  /\ updating \in [pod : Pods \cup {Absent}, dest : Nodes \cup {NoNode}]
  /\ nodes \subseteq Nodes /\ listed \subseteq Nodes
  /\ changes \in 0 .. MaxChanges /\ failures \in 0 .. MaxFailures
  /\ bound \subseteq Pods /\ lapsed \in BOOLEAN /\ misplaced \subseteq Pods

Init ==
  /\ server = [p \in Pods |-> Absent]
  /\ news = [p \in Pods |-> "none"]
  /\ pending = [p \in Pods |-> <<>>]
  /\ seen = [p \in Pods |-> NoNode]
  /\ podQueue = {} /\ current = Idle /\ binds = {} /\ late = {}
  /\ waiting = {} /\ fetched = {}
  /\ podStates = [p \in Pods |-> NoNode]
  /\ assumed = {}
  /\ nodePods = [n \in Nodes |-> {}]
  /\ updating = NoUpdate
  /\ nodes = Nodes /\ listed = Nodes
  /\ changes = 0 /\ failures = 0
  /\ bound = {} /\ lapsed = FALSE /\ misplaced = {}

-----------------------------------------------------------------------------
(* The users, the nodes, and what may go wrong.                             *)

Change == changes < MaxChanges /\ changes' = changes + 1
Fail == failures < MaxFailures /\ failures' = failures + 1

Tell(p, what) == news' = [news EXCEPT ![p] = what]
Show(p, n) == pending' = [pending EXCEPT ![p] = Append(@, n)]

(* A pod may be created with a node.                                        *)
CreatePod(p, n) ==
  /\ Change /\ server[p] = Absent
  /\ server' = [server EXCEPT ![p] = n]
  /\ \/ n = NoNode /\ Tell(p, "set") /\ UNCHANGED pending
     \/ n # NoNode /\ Show(p, n) /\ UNCHANGED news
  /\ UNCHANGED <<seen, podQueue, current, binds, late, retries, cache, nodes, listed,
                 failures, bound, history>>

(* A pod's labels or status are changed: a reflector sees it modified.      *)
TouchPod(p) ==
  /\ Change
  /\ \/ server[p] = NoNode /\ Tell(p, "set") /\ UNCHANGED pending
     \/ OnNode(p) /\ Show(p, server[p]) /\ UNCHANGED news
  /\ UNCHANGED <<server, seen, podQueue, current, binds, late, retries, cache, nodes,
                 listed, failures, bound, history>>

DeletePod(p) ==
  /\ Change /\ server[p] # Absent
  /\ server' = [server EXCEPT ![p] = Absent]
  /\ bound' = bound \ {p}
  /\ \/ ~OnNode(p) /\ Tell(p, "gone") /\ UNCHANGED pending
     \/ OnNode(p) /\ Show(p, NoNode) /\ UNCHANGED news
  /\ UNCHANGED <<seen, podQueue, current, binds, late, retries, cache, nodes, listed,
                 failures, history>>

(* The reflector of the pods without a node keeps the FIFO.                 *)
UpdateQueue(p) ==
  /\ news[p] # "none"
  /\ podQueue' = IF news[p] = "set" THEN podQueue \cup {p} ELSE podQueue \ {p}
  /\ Tell(p, "none")
  /\ UNCHANGED <<server, pending, seen, current, binds, late, retries, cache, nodes,
                 listed, changes, failures, bound, history>>

-----------------------------------------------------------------------------
(* The cache.  Every operation holds its lock throughout; updatePod is cut  *)
(* in two, for those who read without the lock.                             *)

Unlocked == updating = NoUpdate
Counted(p, n) == p \in nodePods[n]

(* addPod and removePod of a NodeInfo, on the pods every node counts.       *)
AddTo(np, p, n) == [np EXCEPT ![n] = @ \cup {p}]
RemoveFrom(np, p, n) == [np EXCEPT ![n] = @ \ {p}]

(* The pod is on a node, or on its way to one.                              *)
Bound(p, n) == server[p] = n \/ <<p, n>> \in binds

AssumePod(p, n) ==
  IF podStates[p] # NoNode
  THEN UNCHANGED cache
  ELSE /\ nodePods' = AddTo(nodePods, p, n)
       /\ podStates' = [podStates EXCEPT ![p] = n]
       /\ assumed' = assumed \cup {p}
       /\ UNCHANGED updating

(* Deviation (see module WorkQueue): an expired pod is not added back.      *)
AddPodOnlyConfirms(p, n) ==
  /\ assumed' = assumed \ {p}
  /\ UNCHANGED <<podStates, nodePods, updating, history>>

(* The pod of an assumption is confirmed, whatever node the event has it    *)
(* on; a pod that is not in the cache is added; a second Add is an error.   *)
AddPod(p, n) ==
  /\ \/ /\ p \in assumed
        /\ assumed' = assumed \ {p}
        /\ misplaced' = IF Counted(p, n) THEN misplaced ELSE misplaced \cup {p}
        /\ UNCHANGED <<podStates, nodePods>>
     \/ /\ podStates[p] = NoNode
        /\ nodePods' = AddTo(nodePods, p, n)
        /\ podStates' = [podStates EXCEPT ![p] = n]
        /\ UNCHANGED <<assumed, misplaced>>
     \/ /\ podStates[p] # NoNode /\ p \notin assumed
        /\ UNCHANGED <<podStates, assumed, nodePods, misplaced>>
  /\ UNCHANGED <<updating, lapsed>>

Added(p) == podStates[p] # NoNode /\ p \notin assumed

(* updatePod: removePod of the old pod, then addPod of the new one.  The    *)
(* record keeps the pod it was made with.  The history notes a pod taken    *)
(* off its node by the events of an older pod of its name.                  *)
UpdatePod(p, old, new) ==
  IF Added(p) /\ Counted(p, old)
  THEN /\ nodePods' = RemoveFrom(nodePods, p, old)
       /\ updating' = [pod |-> p, dest |-> new]
       /\ lapsed' = (lapsed \/ \E n \in Nodes \ {new} : Bound(p, n))
       /\ UNCHANGED <<podStates, assumed, misplaced>>
  ELSE UNCHANGED <<cache, history>>

UpdatePodAdds ==
  /\ ~Unlocked
  /\ nodePods' = AddTo(nodePods, updating.pod, updating.dest)
  /\ updating' = NoUpdate
  /\ UNCHANGED <<server, watches, podQueue, current, binds, late, retries, podStates,
                 assumed, nodes, listed, changes, failures, bound, history>>

(* Deviation: an error of removePod is ignored.                             *)
RemovePodAnyway(p, n) ==
  IF Added(p)
  THEN /\ nodePods' = RemoveFrom(nodePods, p, n)
       /\ podStates' = [podStates EXCEPT ![p] = NoNode]
       /\ lapsed' = (lapsed \/ \E m \in Nodes : Bound(p, m))
       /\ UNCHANGED <<assumed, updating, misplaced>>
  ELSE UNCHANGED <<cache, history>>

RemovePod(p, n) ==
  IF Added(p) /\ Counted(p, n)
  THEN /\ nodePods' = RemoveFrom(nodePods, p, n)
       /\ podStates' = [podStates EXCEPT ![p] = NoNode]
       /\ lapsed' = (lapsed \/ \E m \in Nodes : Bound(p, m))
       /\ UNCHANGED <<assumed, updating, misplaced>>
  ELSE UNCHANGED <<cache, history>>

(* cleanupAssumedPods finds the assumption of p past its deadline.  The     *)
(* history notes one whose pod is on its way to a node, or on one.          *)
ExpirePod(p) ==
  /\ Unlocked /\ p \in assumed
  /\ IF Counted(p, podStates[p])
     THEN /\ nodePods' = RemoveFrom(nodePods, p, podStates[p])
          /\ assumed' = assumed \ {p}
          /\ podStates' = [podStates EXCEPT ![p] = NoNode]
          /\ UNCHANGED updating
     ELSE UNCHANGED cache
  /\ lapsed' = (lapsed \/ \E n \in Nodes : Bound(p, n))
  /\ UNCHANGED <<server, watches, podQueue, current, binds, late, retries, nodes, listed,
                 changes, failures, bound, misplaced>>

(* The informer of the pods with a node: its store is set, then its handler *)
(* called, with what the store had before.  A relist passes over events.    *)
WatchAssigned(p) ==
  /\ Unlocked
  /\ \E k \in 1 .. Len(pending[p]) :
       LET old == seen[p]
           new == pending[p][k]
       IN  /\ pending' = [pending EXCEPT ![p] = SubSeq(@, k + 1, Len(@))]
           /\ seen' = [seen EXCEPT ![p] = new]
           /\ \/ old = NoNode /\ new # NoNode /\ AddPod(p, new)
              \/ old # NoNode /\ new # NoNode /\ UpdatePod(p, old, new)
              \/ old # NoNode /\ new = NoNode /\ RemovePod(p, old)
              \/ old = NoNode /\ new = NoNode /\ UNCHANGED <<cache, history>>
  /\ UNCHANGED <<server, news, podQueue, current, binds, late, retries, nodes, listed,
                 changes, failures, bound>>

(* The informer of the nodes sets the lister's store and then calls AddNode *)
(* or RemoveNode; a NodeInfo without its node stays while it counts pods.   *)
ListerUpdated == listed = nodes

SetNode(n) ==
  /\ ListerUpdated /\ n \notin listed
  /\ listed' = listed \cup {n}
  /\ UNCHANGED <<server, watches, podQueue, current, binds, late, retries, cache, nodes,
                 changes, failures, bound, history>>

RemoveNode(n) ==
  /\ Change /\ ListerUpdated /\ n \in listed
  /\ listed' = listed \ {n}
  /\ UNCHANGED <<server, watches, podQueue, current, binds, late, retries, cache, nodes,
                 failures, bound, history>>

NodeHandler ==
  /\ Unlocked /\ ~ListerUpdated
  /\ nodes' = listed
  /\ UNCHANGED <<server, watches, podQueue, current, binds, late, retries, cache, listed,
                 changes, failures, bound, history>>

-----------------------------------------------------------------------------
(* The scheduling loop.                                                     *)

LoopKeeps == <<server, pending, seen, late, fetched, nodes, listed, changes, failures, bound>>

NextPod(p) ==
  /\ current = Idle /\ p \in podQueue
  /\ podQueue' = podQueue \ {p}
  /\ current' = [Idle EXCEPT !.pod = p, !.pc = "list"]
  /\ UNCHANGED <<LoopKeeps, news, binds, waiting, cache, history>>

(* The lister's nodes.  It is an error when there are none,                 *)
ListNodes ==
  /\ current.pc = "list"
  /\ current' = [current EXCEPT !.todo = listed,
                                !.pc = IF listed = {} THEN "error" ELSE "snapshot"]
  /\ UNCHANGED <<LoopKeeps, news, podQueue, binds, waiting, cache, history>>

(* Deviation: a full node takes one more.                                   *)
HasRoomForTwo(n) == Cardinality(nodePods[n]) =< AllowedPods

(* Whether the pods in the snapshot of a NodeInfo are fewer than allowed.   *)
HasRoom(n) == Cardinality(nodePods[n]) < AllowedPods

(* or when the cache does not have one of them ("node not found").  The     *)
(* lists of pods are copied under the lock, the counters are not.           *)
GetNodeNameToInfoMap ==
  /\ current.pc = "snapshot" /\ Unlocked
  /\ \/ /\ current.todo \subseteq nodes
        /\ current' = [current EXCEPT !.pc = "check", !.todo = {n \in @ : HasRoom(n)}]
     \/ /\ ~(current.todo \subseteq nodes)
        /\ current' = [current EXCEPT !.pc = "error"]
  /\ UNCHANGED <<LoopKeeps, news, podQueue, binds, waiting, cache, history>>

(* PodFitsResources reads the counters of the cache, without its lock.      *)
CheckNode(n) ==
  /\ current.pc = "check" /\ n \in current.todo
  /\ current' = [current EXCEPT
                   !.todo = @ \ {n},
                   !.fit = IF Cardinality(nodePods[n]) < Capacity THEN @ \cup {n} ELSE @]
  /\ UNCHANGED <<LoopKeeps, news, podQueue, binds, waiting, cache, history>>

(* The pod's condition is written with the copy the scheduler has: it takes *)
(* effect, and the watch shows the pod modified, unless that copy is stale  *)
(* or already has the condition.                                            *)
UpdateCondition(p) ==
  \/ UNCHANGED news
  \/ server[p] = NoNode /\ Tell(p, "set")

(* The error function: one retry waits per pod, others are abandoned.       *)
Error(p) == waiting' = waiting \cup {p}

(* No node fits, or an error has ended the attempt.                        *)
ScheduleFails ==
  /\ \/ current.pc = "error"
     \/ current.pc = "check" /\ current.todo = {} /\ current.fit = {}
  /\ Error(current.pod) /\ UpdateCondition(current.pod)
  /\ current' = Idle
  /\ UNCHANGED <<LoopKeeps, podQueue, binds, cache, history>>

(* The pod is assumed on the node, an error of AssumePod being logged only, *)
(* and a goroutine posts the binding.                                       *)
Assume(n) ==
  /\ current.pc = "check" /\ current.todo = {} /\ n \in current.fit /\ Unlocked
  /\ AssumePod(current.pod, n)
  /\ lapsed' = (lapsed \/ podStates[current.pod] # NoNode)
  /\ binds' = binds \cup {<<current.pod, n>>}
  /\ current' = Idle
  /\ UNCHANGED <<LoopKeeps, news, podQueue, waiting, misplaced>>

-----------------------------------------------------------------------------
(* Binding, and the retry after a failure.                                  *)

(* The server assigns a pod that exists and has no node.                    *)
CanAssign(p) == server[p] = NoNode
AssignPod(p, n) ==
  /\ server' = [server EXCEPT ![p] = n]
  /\ bound' = bound \cup {p}
  /\ Tell(p, "gone") /\ Show(p, n)

Bind(p, n) ==
  /\ <<p, n>> \in binds
  /\ CanAssign(p) /\ AssignPod(p, n)
  /\ binds' = binds \ {<<p, n>>}
  /\ UNCHANGED <<seen, podQueue, current, late, retries, cache, nodes, listed, changes,
                 failures, history>>

(* The server assigns the pod, but its answer is lost.  The condition that  *)
(* follows is written with a stale copy and conflicts.                      *)
BindAnswerLost(p, n) ==
  /\ <<p, n>> \in binds /\ Fail
  /\ CanAssign(p) /\ AssignPod(p, n)
  /\ binds' = binds \ {<<p, n>>}
  /\ Error(p)
  /\ UNCHANGED <<seen, podQueue, current, late, fetched, cache, nodes, listed, changes,
                 history>>

(* The server refuses, or the request does not reach it.                    *)
BindFails(p, n) ==
  /\ <<p, n>> \in binds
  /\ \/ ~CanAssign(p) /\ UNCHANGED failures
     \/ Fail
  /\ binds' = binds \ {<<p, n>>}
  /\ Error(p) /\ UpdateCondition(p)
  /\ UNCHANGED <<server, pending, seen, podQueue, current, late, fetched, cache, nodes,
                 listed, changes, bound, history>>

(* A binding of a dead process reaches the server.                          *)
LateBind(p, n) ==
  /\ <<p, n>> \in late
  /\ CanAssign(p) /\ AssignPod(p, n)
  /\ late' = late \ {<<p, n>>}
  /\ UNCHANGED <<seen, podQueue, current, binds, retries, cache, nodes, listed, changes,
                 failures, history>>

(* The backoff is over: the pod is read again.                              *)
GetPod(p) ==
  /\ p \in waiting
  /\ waiting' = waiting \ {p}
  /\ fetched' = IF server[p] = NoNode THEN fetched \cup {p} ELSE fetched
  /\ UNCHANGED <<server, watches, podQueue, current, binds, late, cache, nodes, listed,
                 changes, failures, bound, history>>

GetPodFails(p) ==
  /\ p \in waiting /\ Fail
  /\ waiting' = waiting \ {p}
  /\ UNCHANGED <<server, watches, podQueue, current, binds, late, fetched, cache, nodes,
                 listed, changes, bound, history>>

AddIfNotPresent(p) ==
  /\ p \in fetched
  /\ fetched' = fetched \ {p}
  /\ podQueue' = podQueue \cup {p}
  /\ UNCHANGED <<server, watches, current, binds, late, waiting, cache, nodes, listed,
                 changes, failures, bound, history>>

(* The scheduler's process is restarted.  It lists the pods anew, at        *)
(* resource version 0: as they are, or as the last process knew them.       *)
Listed(p) == IF OnNode(p) THEN <<server[p]>> ELSE <<>>
Known(p)  == IF seen[p] # NoNode THEN <<seen[p]>> \o pending[p] ELSE pending[p]

Restart ==
  /\ Fail
  /\ \/ podQueue' = {} /\ pending' = [p \in Pods |-> Listed(p)]
     \/ podQueue' = podQueue /\ pending' = [p \in Pods |-> Known(p)]
  /\ news' = [p \in Pods |-> IF server[p] = NoNode THEN "set"
                             ELSE IF p \in podQueue' THEN "gone" ELSE "none"]
  /\ seen' = [p \in Pods |-> NoNode]
  /\ current' = Idle /\ binds' = {} /\ late' = late \cup binds
  /\ waiting' = {} /\ fetched' = {}
  /\ podStates' = [p \in Pods |-> NoNode]
  /\ assumed' = {} /\ updating' = NoUpdate
  /\ nodePods' = [n \in Nodes |-> {}]
  /\ nodes' = {} /\ listed' = {}
  /\ lapsed' = TRUE /\ misplaced' = {}
  /\ UNCHANGED <<server, changes, bound>>

-----------------------------------------------------------------------------
ScheduleOne ==
  \/ \E p \in Pods : NextPod(p)
  \/ ListNodes \/ GetNodeNameToInfoMap \/ ScheduleFails
  \/ \E n \in Nodes : CheckNode(n) \/ Assume(n)

Next ==
  \/ ScheduleOne
  \/ \E p \in Pods : \/ \E n \in Nodes \cup {NoNode} : CreatePod(p, n)
                     \/ TouchPod(p) \/ DeletePod(p)
                     \/ UpdateQueue(p) \/ WatchAssigned(p) \/ ExpirePod(p)
                     \/ GetPod(p) \/ GetPodFails(p) \/ AddIfNotPresent(p)
  \/ \E p \in Pods, n \in Nodes : \/ Bind(p, n) \/ BindAnswerLost(p, n) \/ BindFails(p, n)
                                 \/ LateBind(p, n)
  \/ \E n \in Nodes : SetNode(n) \/ RemoveNode(n)
  \/ NodeHandler \/ UpdatePodAdds \/ Restart

Spec == Init /\ [][Next]_vars

(* The watches deliver, the cleanup runs every second, the loop and the     *)
(* goroutines of bindings and retries run.                                  *)
FairSpec ==
  /\ Spec
  /\ WF_vars(ScheduleOne) /\ WF_vars(UpdatePodAdds) /\ WF_vars(NodeHandler)
  /\ \A p \in Pods :
       /\ WF_vars(UpdateQueue(p)) /\ WF_vars(WatchAssigned(p)) /\ WF_vars(ExpirePod(p))
       /\ WF_vars(GetPod(p)) /\ WF_vars(AddIfNotPresent(p))
       /\ \A n \in Nodes : WF_vars(Bind(p, n) \/ BindFails(p, n))
  /\ \A n \in Nodes : WF_vars(SetNode(n))

-----------------------------------------------------------------------------
(* The cache counts a pod exactly when it has a record of it, and on one    *)
(* node (on none in the middle of updatePod); an assumed pod is counted     *)
(* where its record has it, so that its expiry takes away what the          *)
(* assumption added (cache.go:106, 156, 180, 207, 301).                     *)
EachPodCountedOnce ==
  \A p \in Pods :
    /\ Cardinality({n \in Nodes : Counted(p, n)}) =
         (IF podStates[p] = NoNode \/ updating.pod = p THEN 0 ELSE 1)
    /\ p \in assumed => podStates[p] # NoNode /\ Counted(p, podStates[p])

(* The pods the scheduler has brought to a node.                            *)
BoundTo(n) == {p \in bound : server[p] = n}

(* As long as no assumption expired with its pod on the way to a node, none *)
(* was refused because the cache had a record of the pod, no event of an    *)
(* older pod of the same name took one off its node, and the scheduler was  *)
(* not restarted, it brings no more pods to a node than are allowed there,  *)
(* whatever is bound, created, deleted, updated and retried at the same     *)
(* time (scheduler.go:112-140, predicates.go:439).                          *)
NoOvercommit == ~lapsed => \A n \in Nodes : Cardinality(BoundTo(n)) =< AllowedPods

Agrees(p) ==
  \A n \in Nodes : Counted(p, n) <=> server[p] = n

(* A pod whose assumption was not confirmed by the event of another node is *)
(* in the end counted where the server has it, and nowhere else: after      *)
(* failed and lost bindings, expiries and restarts (cache.go:129, 283).     *)
CacheConverges == \A p \in Pods : <>[](p \in misplaced \/ Agrees(p))

(* scheduler.go:112-119: when a binding fails, the scheduler goes by a      *)
(* wrong assumption until it expires; "However, after this timeout, the     *)
(* situation will self-repair."                                             *)
SelfRepairs == \A p \in Pods : <>[]Agrees(p)
=============================================================================
