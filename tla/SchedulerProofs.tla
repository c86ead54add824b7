--------------------------- MODULE SchedulerProofs ---------------------------
(****************************************************************************)
(* For every set of pods and of nodes the scheduler's cache counts a pod on *)
(* one node while it has a record of it, and on none otherwise, whatever    *)
(* is assumed, confirmed, expired, updated and removed in whatever order.   *)
(* And it brings no more pods to a node than are allowed there, however     *)
(* late the news of a binding or of a deletion arrives.                     *)
(****************************************************************************)
EXTENDS Scheduler, FiniteSetTheorems, SequenceTheorems, TLAPS

(* scheduleOne works on a pod and has nodes that fit while it looks at      *)
(* them; updatePod is under way with a pod and a node.                      *)
Working ==
  /\ current.pc # "idle" => current.pod \in Pods
  /\ current.pc # "check" => current.fit = {}
  /\ updating = NoUpdate \/ (updating.pod \in Pods /\ updating.dest \in Nodes)

(* Where p is counted, according to its record.                             *)
Placed(p) ==
  /\ podStates[p] = NoNode => \A n \in Nodes : ~Counted(p, n)
  /\ updating.pod = p => podStates[p] # NoNode /\ \A n \in Nodes : ~Counted(p, n)
  /\ podStates[p] # NoNode /\ updating.pod # p
       => \E n \in Nodes : \A m \in Nodes : Counted(p, m) <=> m = n
  /\ p \in assumed => podStates[p] # NoNode /\ Counted(p, podStates[p])

IInv == TypeOK /\ Working /\ \A p \in Pods : Placed(p)

(* The same with the number of nodes.                                       *)
LEMMA PlacedOnce == IInv => EachPodCountedOnce
  <1> SUFFICES ASSUME IInv, NEW p \in Pods
               PROVE  /\ Cardinality({n \in Nodes : Counted(p, n)})
                           = (IF podStates[p] = NoNode \/ updating.pod = p THEN 0 ELSE 1)
                      /\ p \in assumed => podStates[p] # NoNode /\ Counted(p, podStates[p])
    BY DEF EachPodCountedOnce
  <1> DEFINE S == {n \in Nodes : Counted(p, n)}
  <1>1. Placed(p)
    BY DEF IInv
  <1>2. CASE podStates[p] = NoNode \/ updating.pod = p
    <2>1. S = {}
      BY <1>1, <1>2 DEF Placed
    <2>2. Cardinality(S) = 0
      BY <2>1, FS_EmptySet
    <2> QED BY <1>1, <1>2, <2>2 DEF Placed
  <1>3. CASE podStates[p] # NoNode /\ updating.pod # p
    <2>1. PICK n \in Nodes : \A m \in Nodes : Counted(p, m) <=> m = n
      BY <1>1, <1>3 DEF Placed
    <2>2. S = {n}
      BY <2>1
    <2>3. Cardinality(S) = 1
      BY <2>2, FS_Singleton
    <2> QED BY <1>1, <1>3, <2>3 DEF Placed
  <1> QED BY <1>2, <1>3

LEMMA InitPlaced == Init => IInv
  <1> SUFFICES ASSUME Init PROVE IInv
    OBVIOUS
  <1>1. TypeOK
    <2>1. current \in [pod : Pods \cup {Absent}, pc : {"idle", "list", "snapshot", "check", "error"},
                       todo : SUBSET Nodes, fit : SUBSET Nodes]
      BY DEF Init, Idle
    <2>2. updating \in [pod : Pods \cup {Absent}, dest : Nodes \cup {NoNode}]
      BY DEF Init, NoUpdate
    <2>3. changes \in 0 .. MaxChanges /\ failures \in 0 .. MaxFailures
      BY BoundsAssumption DEF Init
    <2>4. pending \in [Pods -> Seq(Nodes \cup {NoNode})]
      BY EmptySeq DEF Init
    <2> QED BY <2>1, <2>2, <2>3, <2>4 DEF Init, TypeOK
  <1>2. Working
    BY DEF Init, Working, Idle
  <1>3. \A p \in Pods : Placed(p)
    BY NoNodeIsNoNode, AbsentIsNoPod DEF Init, Placed, Counted, NoUpdate
  <1> QED BY <1>1, <1>2, <1>3 DEF IInv

(* A step that changes the place of one pod only.                           *)
LEMMA OthersStay ==
  ASSUME IInv, NEW p \in Pods, Placed(p)',
         podStates' \in [Pods -> Nodes \cup {NoNode}], nodePods' \in [Nodes -> SUBSET Pods],
         updating'.pod \in {updating.pod, p, Absent}, updating.pod \in {p, Absent},
         \A q \in Pods \ {p} : /\ podStates'[q] = podStates[q]
                               /\ q \in assumed' <=> q \in assumed
                               /\ \A n \in Nodes : q \in nodePods'[n] <=> q \in nodePods[n]
  PROVE  \A q \in Pods : Placed(q)'
  <1> SUFFICES ASSUME NEW q \in Pods, q # p PROVE Placed(q)'
    OBVIOUS
  <1>1. Placed(q) /\ podStates[q] \in Nodes \cup {NoNode}
    BY DEF IInv, TypeOK
  <1>2. updating.pod # q /\ updating'.pod # q
    BY AbsentIsNoPod
  <1> QED BY <1>1, <1>2 DEF Placed, Counted

(* A step that leaves the cache alone.                                      *)
LEMMA CacheStays == IInv /\ UNCHANGED cache => \A p \in Pods : Placed(p)'
  BY DEF IInv, Placed, Counted, cache

(* A pod without a record is put on a node.                                 *)
LEMMA PutOn ==
  ASSUME IInv, NEW p \in Pods, NEW n \in Nodes, podStates[p] = NoNode,
         updating = NoUpdate, UNCHANGED updating,
         nodePods' = AddTo(nodePods, p, n),
         podStates' = [podStates EXCEPT ![p] = n],
         assumed' \in {assumed, assumed \cup {p}}
  PROVE  \A q \in Pods : Placed(q)'
  <1> USE NoNodeIsNoNode DEF IInv, TypeOK, AddTo
  <1>1. \A m \in Nodes : p \in nodePods'[m] <=> m = n
    BY DEF Placed, Counted
  <1>2. podStates'[p] = n /\ updating.pod = Absent /\ updating'.pod # p
    BY AbsentIsNoPod DEF NoUpdate
  <1>3. Placed(p)'
    BY <1>1, <1>2 DEF Placed, Counted
  <1> QED BY <1>2, <1>3, OthersStay

(* A pod with a record is taken off its node, and the record deleted.       *)
LEMMA TakeOff ==
  ASSUME IInv, NEW p \in Pods, NEW n \in Nodes, podStates[p] # NoNode, Counted(p, n),
         updating = NoUpdate, UNCHANGED updating,
         nodePods' = RemoveFrom(nodePods, p, n),
         podStates' = [podStates EXCEPT ![p] = NoNode],
         assumed' = assumed \ {p}
  PROVE  \A q \in Pods : Placed(q)'
  <1> USE NoNodeIsNoNode DEF IInv, TypeOK, RemoveFrom
  <1>0. updating.pod = Absent /\ updating.pod # p
    BY AbsentIsNoPod DEF NoUpdate
  <1>1. \A m \in Nodes : m # n => p \notin nodePods[m]
    BY <1>0 DEF Placed, Counted
  <1>2. \A m \in Nodes : p \notin nodePods'[m]
    BY <1>1
  <1>3. Placed(p)'
    BY <1>0, <1>2 DEF Placed, Counted
  <1> QED BY <1>0, <1>3, OthersStay

(* The first half of updatePod: an added pod is taken off its node.         *)
LEMMA StartMove ==
  ASSUME IInv, NEW p \in Pods, NEW old \in Nodes, NEW new \in Nodes,
         podStates[p] # NoNode, p \notin assumed, Counted(p, old),
         updating = NoUpdate, updating' = [pod |-> p, dest |-> new],
         nodePods' = RemoveFrom(nodePods, p, old),
         UNCHANGED <<podStates, assumed>>
  PROVE  \A q \in Pods : Placed(q)'
  <1> USE NoNodeIsNoNode DEF IInv, TypeOK, RemoveFrom
  <1>0. updating.pod = Absent /\ updating.pod # p /\ updating'.pod = p
    BY AbsentIsNoPod DEF NoUpdate
  <1>1. \A m \in Nodes : m # old => p \notin nodePods[m]
    BY <1>0 DEF Placed, Counted
  <1>2. \A m \in Nodes : p \notin nodePods'[m]
    BY <1>1
  <1>3. Placed(p)'
    BY <1>0, <1>2 DEF Placed, Counted
  <1> QED BY <1>0, <1>3, OthersStay

(* The second half: it is put on its node again, or on another.             *)
LEMMA EndMove ==
  ASSUME IInv, UpdatePodAdds
  PROVE  \A q \in Pods : Placed(q)'
  <1> USE NoNodeIsNoNode DEF IInv, TypeOK, AddTo
  <1>0. PICK p \in Pods, n \in Nodes : updating.pod = p /\ updating.dest = n
    BY DEF UpdatePodAdds, Unlocked, Working
  <1>1. /\ nodePods' = AddTo(nodePods, p, n) /\ UNCHANGED <<podStates, assumed>>
        /\ updating'.pod = Absent /\ updating'.pod # p
    BY <1>0, AbsentIsNoPod DEF UpdatePodAdds, NoUpdate
  <1>2. podStates[p] # NoNode /\ \A m \in Nodes : p \notin nodePods[m]
    BY <1>0 DEF Placed, Counted
  <1>3. p \notin assumed
    BY <1>2 DEF Placed, Counted
  <1>4. \A m \in Nodes : p \in nodePods'[m] <=> m = n
    BY <1>1, <1>2
  <1>5. Placed(p)'
    BY <1>1, <1>2, <1>3, <1>4 DEF Placed, Counted
  <1> QED BY <1>0, <1>1, <1>5, OthersStay

-----------------------------------------------------------------------------
CurrentType ==
  [pod : Pods \cup {Absent}, pc : {"idle", "list", "snapshot", "check", "error"},
   todo : SUBSET Nodes, fit : SUBSET Nodes]

LEMMA ShowTyped ==
  ASSUME TypeOK, NEW p \in Pods, NEW n \in Nodes \cup {NoNode}, Show(p, n)
  PROVE  pending' \in [Pods -> Seq(Nodes \cup {NoNode})]
  <1>1. Append(pending[p], n) \in Seq(Nodes \cup {NoNode})
    BY AppendProperties DEF TypeOK
  <1> QED BY <1>1 DEF TypeOK, Show

(* The loop's steps, but Assume, leave the cache alone.                     *)
LEMMA LoopTyped ==
  ASSUME TypeOK, Working,
         \/ \E p \in Pods : NextPod(p)
         \/ ListNodes \/ GetNodeNameToInfoMap \/ ScheduleFails
         \/ \E n \in Nodes : CheckNode(n)
  PROVE  TypeOK' /\ Working' /\ UNCHANGED cache
  <1> USE DEF TypeOK, cache
  <1>0. /\ Idle \in CurrentType /\ Idle.pc = "idle" /\ Idle.fit = {}
        /\ current \in CurrentType
    BY DEF Idle, CurrentType
  <1>1. ASSUME NEW p \in Pods, NextPod(p) PROVE TypeOK' /\ Working' /\ UNCHANGED cache
    <2>1. current' \in CurrentType /\ current'.pod = p /\ current'.fit = {}
      BY <1>0, <1>1 DEF NextPod, Idle, CurrentType
    <2> QED BY <1>1, <2>1 DEF NextPod, LoopKeeps, history, Working, CurrentType
  <1>2. CASE ListNodes
    <2>1. /\ current' \in CurrentType /\ current'.pod = current.pod /\ current'.fit = current.fit
          /\ current.pc = "list"
      BY <1>0, <1>2 DEF ListNodes, CurrentType
    <2> QED BY <1>2, <2>1 DEF ListNodes, LoopKeeps, history, Working, CurrentType
  <1>3. CASE GetNodeNameToInfoMap
    <2> DEFINE T == {n \in current.todo : HasRoom(n)}
    <2>0. T \subseteq Nodes /\ current.pc = "snapshot"
      BY <1>3 DEF GetNodeNameToInfoMap
    <2>1. current' \in CurrentType /\ current'.pod = current.pod /\ current'.fit = current.fit
      <3>1. CASE current' = [current EXCEPT !.pc = "check", !.todo = T]
        <4> HIDE DEF T
        <4> QED BY <1>0, <2>0, <3>1 DEF CurrentType
      <3>2. CASE current' = [current EXCEPT !.pc = "error"]
        BY <1>0, <3>2 DEF CurrentType
      <3> QED BY <1>3, <3>1, <3>2 DEF GetNodeNameToInfoMap
    <2> QED BY <1>3, <2>0, <2>1 DEF GetNodeNameToInfoMap, LoopKeeps, history, Working, CurrentType
  <1>4. CASE ScheduleFails
    <2>1. current' = Idle /\ current.pod \in Pods
      BY <1>4 DEF ScheduleFails, Working
    <2>2. waiting' \subseteq Pods /\ news' \in [Pods -> {"none", "set", "gone"}]
      BY <1>4, <2>1 DEF ScheduleFails, Error, UpdateCondition, Tell
    <2>3. /\ UNCHANGED <<server, pending, seen, late, fetched, nodes, listed, changes, failures, bound>>
          /\ UNCHANGED <<podQueue, binds, podStates, assumed, nodePods, updating, lapsed, misplaced>>
      BY <1>4 DEF ScheduleFails, LoopKeeps, history
    <2>4. TypeOK'
      BY <1>0, <2>1, <2>2, <2>3 DEF CurrentType
    <2> QED BY <1>0, <2>1, <2>3, <2>4 DEF Working
  <1>5. ASSUME NEW n \in Nodes, CheckNode(n) PROVE TypeOK' /\ Working' /\ UNCHANGED cache
    <2>1. /\ current' \in CurrentType /\ current'.pod = current.pod
          /\ current.pc = "check" /\ current'.pc = "check"
      BY <1>0, <1>5 DEF CheckNode, CurrentType
    <2> QED BY <1>5, <2>1 DEF CheckNode, LoopKeeps, history, Working, CurrentType
  <1> QED BY <1>1, <1>2, <1>3, <1>4, <1>5

(* So do those of the users, the queue, the bindings and the retries.       *)
LEMMA OutsideTyped ==
  ASSUME TypeOK, Working, NEW p \in Pods,
         \/ \E n \in Nodes \cup {NoNode} : CreatePod(p, n)
         \/ TouchPod(p) \/ DeletePod(p) \/ UpdateQueue(p)
         \/ GetPod(p) \/ GetPodFails(p) \/ AddIfNotPresent(p)
         \/ \E n \in Nodes : Bind(p, n) \/ BindAnswerLost(p, n) \/ BindFails(p, n) \/ LateBind(p, n)
  PROVE  TypeOK' /\ Working' /\ UNCHANGED cache
  <1> USE BoundsAssumption DEF TypeOK, cache, history, retries, watches
  <1>1. ASSUME NEW n \in Nodes \cup {NoNode}, CreatePod(p, n)
        PROVE  TypeOK' /\ Working' /\ UNCHANGED cache
    <2>1. pending' \in [Pods -> Seq(Nodes \cup {NoNode})]
      BY <1>1, ShowTyped DEF CreatePod
    <2>2. changes' \in 0 .. MaxChanges
      BY <1>1 DEF CreatePod, Change
    <2>3. news' \in [Pods -> {"none", "set", "gone"}]
      BY <1>1 DEF CreatePod, Tell
    <2>4. server' \in [Pods -> Nodes \cup {NoNode, Absent}] /\ bound' \subseteq Pods
      BY <1>1 DEF CreatePod
    <2>5. /\ UNCHANGED <<seen, podQueue, current, binds, late, waiting, fetched, nodes, listed>>
          /\ UNCHANGED <<podStates, assumed, nodePods, updating, failures, lapsed, misplaced>>
      BY <1>1 DEF CreatePod
    <2>6. TypeOK'
      BY <2>1, <2>2, <2>3, <2>4, <2>5
    <2> QED BY <2>5, <2>6 DEF Working
  <1>2. CASE TouchPod(p)
    <2>1. pending' \in [Pods -> Seq(Nodes \cup {NoNode})]
      BY <1>2, ShowTyped DEF TouchPod, OnNode
    <2>2. changes' \in 0 .. MaxChanges
      BY <1>2 DEF TouchPod, Change
    <2>3. news' \in [Pods -> {"none", "set", "gone"}]
      BY <1>2 DEF TouchPod, Tell
    <2>4. server' \in [Pods -> Nodes \cup {NoNode, Absent}] /\ bound' \subseteq Pods
      BY <1>2 DEF TouchPod
    <2>5. /\ UNCHANGED <<seen, podQueue, current, binds, late, waiting, fetched, nodes, listed>>
          /\ UNCHANGED <<podStates, assumed, nodePods, updating, failures, lapsed, misplaced>>
      BY <1>2 DEF TouchPod
    <2>6. TypeOK'
      BY <2>1, <2>2, <2>3, <2>4, <2>5
    <2> QED BY <2>5, <2>6 DEF Working
  <1>3. CASE DeletePod(p)
    <2>1. pending' \in [Pods -> Seq(Nodes \cup {NoNode})]
      BY <1>3, ShowTyped DEF DeletePod
    <2>2. changes' \in 0 .. MaxChanges
      BY <1>3 DEF DeletePod, Change
    <2>3. news' \in [Pods -> {"none", "set", "gone"}]
      BY <1>3 DEF DeletePod, Tell
    <2>4. server' \in [Pods -> Nodes \cup {NoNode, Absent}] /\ bound' \subseteq Pods
      BY <1>3 DEF DeletePod
    <2>5. /\ UNCHANGED <<seen, podQueue, current, binds, late, waiting, fetched, nodes, listed>>
          /\ UNCHANGED <<podStates, assumed, nodePods, updating, failures, lapsed, misplaced>>
      BY <1>3 DEF DeletePod
    <2>6. TypeOK'
      BY <2>1, <2>2, <2>3, <2>4, <2>5
    <2> QED BY <2>5, <2>6 DEF Working
  <1>4. CASE UpdateQueue(p)
    BY <1>4 DEF UpdateQueue, Tell, Working
  <1>5. CASE GetPod(p) \/ GetPodFails(p) \/ AddIfNotPresent(p)
    BY <1>5 DEF GetPod, GetPodFails, AddIfNotPresent, Fail, Working
  <1>6. ASSUME NEW n \in Nodes, Bind(p, n) \/ BindAnswerLost(p, n) \/ LateBind(p, n)
        PROVE  TypeOK' /\ Working' /\ UNCHANGED cache
    <2>1. AssignPod(p, n)
      BY <1>6 DEF Bind, BindAnswerLost, LateBind
    <2>2. pending' \in [Pods -> Seq(Nodes \cup {NoNode})]
      BY <2>1, ShowTyped DEF AssignPod
    <2>3. /\ server' \in [Pods -> Nodes \cup {NoNode, Absent}] /\ bound' \subseteq Pods
          /\ news' \in [Pods -> {"none", "set", "gone"}]
      BY <2>1 DEF AssignPod, Tell
    <2>4. failures' \in 0 .. MaxFailures
      BY <1>6 DEF Bind, BindAnswerLost, LateBind, Fail
    <2> QED BY <1>6, <2>2, <2>3, <2>4 DEF Bind, BindAnswerLost, LateBind, Error, Working
  <1>7. ASSUME NEW n \in Nodes, BindFails(p, n) PROVE TypeOK' /\ Working' /\ UNCHANGED cache
    BY <1>7 DEF BindFails, UpdateCondition, Tell, Fail, Error, Working
  <1> QED BY <1>1, <1>2, <1>3, <1>4, <1>5, <1>6, <1>7

LEMMA NodesTyped ==
  ASSUME TypeOK, Working, NodeHandler \/ \E n \in Nodes : SetNode(n) \/ RemoveNode(n)
  PROVE  TypeOK' /\ Working' /\ UNCHANGED cache
  <1> USE BoundsAssumption DEF TypeOK, cache, history, retries, watches, Working
  <1>1. CASE NodeHandler
    BY <1>1 DEF NodeHandler
  <1>2. ASSUME NEW n \in Nodes, SetNode(n) PROVE TypeOK' /\ Working' /\ UNCHANGED cache
    BY <1>2 DEF SetNode
  <1>3. ASSUME NEW n \in Nodes, RemoveNode(n) PROVE TypeOK' /\ Working' /\ UNCHANGED cache
    BY <1>3 DEF RemoveNode, Change
  <1> QED BY <1>1, <1>2, <1>3

LEMMA AssumeStays ==
  ASSUME IInv, NEW n \in Nodes, Assume(n)
  PROVE  IInv'
  <1> DEFINE p == current.pod
  <1>1. /\ p \in Pods /\ updating = NoUpdate
        /\ AssumePod(p, n) /\ binds' = binds \cup {<<p, n>>} /\ current' = Idle
        /\ UNCHANGED <<server, pending, seen, late, fetched, nodes, listed, changes, failures, bound>>
        /\ UNCHANGED <<news, podQueue, waiting, misplaced>>
    BY DEF Assume, IInv, TypeOK, Working, Unlocked, LoopKeeps
  <1>2. lapsed' \in BOOLEAN
    BY DEF Assume, IInv, TypeOK
  <1> HIDE DEF p
  <1>3. /\ podStates' \in [Pods -> Nodes \cup {NoNode}] /\ assumed' \subseteq Pods
        /\ nodePods' \in [Nodes -> SUBSET Pods] /\ updating' = updating
    <2>1. CASE podStates[p] # NoNode
      BY <1>1, <2>1 DEF AssumePod, IInv, TypeOK, cache
    <2>2. CASE podStates[p] = NoNode
      <3>1. /\ nodePods' = AddTo(nodePods, p, n) /\ podStates' = [podStates EXCEPT ![p] = n]
            /\ assumed' = assumed \cup {p} /\ updating' = updating
        BY <1>1, <2>2 DEF AssumePod
      <3>2. podStates \in [Pods -> Nodes \cup {NoNode}] /\ assumed \subseteq Pods
            /\ nodePods \in [Nodes -> SUBSET Pods]
        BY DEF IInv, TypeOK
      <3> QED BY <1>1, <3>1, <3>2 DEF AddTo
    <2> QED BY <2>1, <2>2
  <1>4. current' \in CurrentType /\ current'.pc = "idle" /\ current'.fit = {}
    BY <1>1 DEF Idle, CurrentType
  <1>5. TypeOK'
    BY <1>1, <1>2, <1>3, <1>4 DEF IInv, TypeOK, CurrentType
  <1>6. Working'
    BY <1>1, <1>3, <1>4 DEF Working
  <1>7. \A q \in Pods : Placed(q)'
    <2>1. CASE podStates[p] # NoNode
      BY <1>1, <2>1, CacheStays DEF AssumePod
    <2>2. CASE podStates[p] = NoNode
      BY <1>1, <2>2, PutOn DEF AssumePod
    <2> QED BY <2>1, <2>2
  <1> QED BY <1>5, <1>6, <1>7 DEF IInv

(* What the informer's handlers do to the cache.                            *)
LEMMA AddPodStays ==
  ASSUME IInv, Unlocked, NEW p \in Pods, NEW n \in Nodes, AddPod(p, n)
  PROVE  /\ podStates' \in [Pods -> Nodes \cup {NoNode}] /\ assumed' \subseteq Pods
         /\ nodePods' \in [Nodes -> SUBSET Pods] /\ updating' = updating
         /\ lapsed' = lapsed /\ misplaced' \subseteq Pods
         /\ \A q \in Pods : Placed(q)'
  <1> USE DEF IInv, Unlocked
  <1>1. CASE /\ p \in assumed /\ assumed' = assumed \ {p}
             /\ misplaced' = IF Counted(p, n) THEN misplaced ELSE misplaced \cup {p}
             /\ UNCHANGED <<podStates, nodePods, updating, lapsed>>
    <2>1. \A q \in Pods : Placed(q)'
      BY <1>1 DEF Placed, Counted
    <2> QED BY <1>1, <2>1 DEF TypeOK
  <1>2. CASE /\ podStates[p] = NoNode
             /\ nodePods' = AddTo(nodePods, p, n)
             /\ podStates' = [podStates EXCEPT ![p] = n]
             /\ UNCHANGED <<assumed, misplaced, updating, lapsed>>
    <2>1. \A q \in Pods : Placed(q)'
      BY <1>2, PutOn
    <2> QED BY <1>2, <2>1 DEF TypeOK, AddTo
  <1>3. CASE UNCHANGED <<podStates, assumed, nodePods, misplaced, updating, lapsed>>
    <2>1. \A q \in Pods : Placed(q)'
      BY <1>3, CacheStays DEF cache
    <2> QED BY <1>3, <2>1 DEF TypeOK
  <1> QED BY <1>1, <1>2, <1>3 DEF AddPod

LEMMA UpdatePodStays ==
  ASSUME IInv, Unlocked, NEW p \in Pods, NEW old \in Nodes, NEW new \in Nodes,
         UpdatePod(p, old, new)
  PROVE  /\ podStates' = podStates /\ assumed' = assumed /\ misplaced' = misplaced
         /\ nodePods' \in [Nodes -> SUBSET Pods] /\ lapsed' \in BOOLEAN
         /\ updating' = updating \/ updating' = [pod |-> p, dest |-> new]
         /\ \A q \in Pods : Placed(q)'
  <1> USE DEF IInv, Unlocked
  <1>1. CASE Added(p) /\ Counted(p, old)
    <2>1. /\ nodePods' = RemoveFrom(nodePods, p, old)
          /\ updating' = [pod |-> p, dest |-> new]
          /\ UNCHANGED <<podStates, assumed, misplaced>>
      BY <1>1 DEF UpdatePod
    <2>2. lapsed' \in BOOLEAN
      BY <1>1 DEF UpdatePod, TypeOK
    <2>3. \A q \in Pods : Placed(q)'
      BY <1>1, <2>1, StartMove DEF Added
    <2>4. nodePods' \in [Nodes -> SUBSET Pods]
      BY <2>1 DEF TypeOK, RemoveFrom
    <2> QED BY <2>1, <2>2, <2>3, <2>4
  <1>2. CASE ~(Added(p) /\ Counted(p, old))
    <2>1. UNCHANGED <<cache, history>>
      BY <1>2 DEF UpdatePod
    <2>2. \A q \in Pods : Placed(q)'
      BY <2>1, CacheStays
    <2> QED BY <2>1, <2>2 DEF TypeOK, cache, history
  <1> QED BY <1>1, <1>2

LEMMA RemovePodStays ==
  ASSUME IInv, Unlocked, NEW p \in Pods, NEW n \in Nodes, RemovePod(p, n)
  PROVE  /\ podStates' \in [Pods -> Nodes \cup {NoNode}]
         /\ assumed' = assumed /\ misplaced' = misplaced /\ updating' = updating
         /\ nodePods' \in [Nodes -> SUBSET Pods] /\ lapsed' \in BOOLEAN
         /\ \A q \in Pods : Placed(q)'
  <1> USE DEF IInv, Unlocked
  <1>1. CASE Added(p) /\ Counted(p, n)
    <2>1. /\ nodePods' = RemoveFrom(nodePods, p, n)
          /\ podStates' = [podStates EXCEPT ![p] = NoNode]
          /\ UNCHANGED <<assumed, misplaced, updating>>
      BY <1>1 DEF RemovePod
    <2>2. lapsed' \in BOOLEAN
      BY <1>1 DEF RemovePod, TypeOK
    <2>3. assumed' = assumed \ {p}
      BY <1>1, <2>1 DEF Added
    <2>4. \A q \in Pods : Placed(q)'
      BY <1>1, <2>1, <2>3, TakeOff DEF Added
    <2>5. nodePods' \in [Nodes -> SUBSET Pods] /\ podStates' \in [Pods -> Nodes \cup {NoNode}]
      BY <2>1 DEF TypeOK, RemoveFrom
    <2> QED BY <2>1, <2>2, <2>4, <2>5
  <1>2. CASE ~(Added(p) /\ Counted(p, n))
    <2>1. UNCHANGED <<cache, history>>
      BY <1>2 DEF RemovePod
    <2>2. \A q \in Pods : Placed(q)'
      BY <2>1, CacheStays
    <2> QED BY <2>1, <2>2 DEF TypeOK, cache, history
  <1> QED BY <1>1, <1>2

(* The four ways the informer of the assigned pods calls its handlers.      *)
LEMMA WatchCases ==
  ASSUME IInv, NEW p \in Pods, WatchAssigned(p)
  PROVE  /\ Unlocked /\ pending' \in [Pods -> Seq(Nodes \cup {NoNode})]
         /\ seen' \in [Pods -> Nodes \cup {NoNode}]
         /\ \/ \E n \in Nodes : AddPod(p, n)
            \/ \E old, new \in Nodes : UpdatePod(p, old, new)
            \/ \E n \in Nodes : RemovePod(p, n)
            \/ UNCHANGED <<cache, history>>
  <1> DEFINE Shown == Nodes \cup {NoNode}
  <1>1. PICK k \in 1 .. Len(pending[p]) :
          /\ pending' = [pending EXCEPT ![p] = SubSeq(@, k + 1, Len(@))]
          /\ seen' = [seen EXCEPT ![p] = pending[p][k]]
          /\ \/ seen[p] = NoNode /\ pending[p][k] # NoNode /\ AddPod(p, pending[p][k])
             \/ seen[p] # NoNode /\ pending[p][k] # NoNode /\ UpdatePod(p, seen[p], pending[p][k])
             \/ seen[p] # NoNode /\ pending[p][k] = NoNode /\ RemovePod(p, seen[p])
             \/ seen[p] = NoNode /\ pending[p][k] = NoNode /\ UNCHANGED <<cache, history>>
    BY DEF WatchAssigned
  <1>2. pending[p] \in Seq(Shown) /\ seen[p] \in Shown
    BY DEF IInv, TypeOK
  <1>3. pending[p][k] \in Shown /\ Len(pending[p]) \in Nat
    BY <1>1, <1>2, ElementOfSeq, LenProperties
  <1>4. \A i \in k + 1 .. Len(pending[p]) : pending[p][i] \in Shown
    BY <1>1, <1>2, <1>3, ElementOfSeq
  <1>5. SubSeq(pending[p], k + 1, Len(pending[p])) \in Seq(Shown)
    BY <1>1, <1>2, <1>3, <1>4, SubSeqProperties
  <1>6. pending' \in [Pods -> Seq(Shown)] /\ seen' \in [Pods -> Shown]
    BY <1>1, <1>3, <1>5 DEF IInv, TypeOK
  <1>7. Unlocked
    BY DEF WatchAssigned
  <1> QED BY <1>1, <1>2, <1>3, <1>6, <1>7

LEMMA WatchStays ==
  ASSUME IInv, NEW p \in Pods, WatchAssigned(p)
  PROVE  IInv'
  <1>1. /\ Unlocked /\ updating = NoUpdate
        /\ pending' \in [Pods -> Seq(Nodes \cup {NoNode})]
        /\ seen' \in [Pods -> Nodes \cup {NoNode}]
    BY WatchCases DEF Unlocked
  <1>2. /\ UNCHANGED <<server, news, podQueue, current, binds, late, waiting, fetched, nodes, listed>>
        /\ UNCHANGED <<changes, failures, bound>>
    BY DEF WatchAssigned, retries
  <1>3. /\ podStates' \in [Pods -> Nodes \cup {NoNode}] /\ assumed' \subseteq Pods
        /\ nodePods' \in [Nodes -> SUBSET Pods]
        /\ \/ updating' = updating
           \/ \E new \in Nodes : updating' = [pod |-> p, dest |-> new]
        /\ lapsed' \in BOOLEAN /\ misplaced' \subseteq Pods
        /\ \A q \in Pods : Placed(q)'
    <2>1. podStates \in [Pods -> Nodes \cup {NoNode}] /\ assumed \subseteq Pods
          /\ misplaced \subseteq Pods /\ lapsed \in BOOLEAN /\ nodePods \in [Nodes -> SUBSET Pods]
      BY DEF IInv, TypeOK
    <2>2. ASSUME NEW n \in Nodes, AddPod(p, n) PROVE <1>3!:
      BY <1>1, <2>1, <2>2, AddPodStays
    <2>3. ASSUME NEW old \in Nodes, NEW new \in Nodes, UpdatePod(p, old, new) PROVE <1>3!:
      BY <1>1, <2>1, <2>3, UpdatePodStays
    <2>4. ASSUME NEW n \in Nodes, RemovePod(p, n) PROVE <1>3!:
      BY <1>1, <2>1, <2>4, RemovePodStays
    <2>5. CASE UNCHANGED <<cache, history>>
      <3>1. \A q \in Pods : Placed(q)'
        BY <2>5, CacheStays
      <3> QED BY <2>1, <2>5, <3>1 DEF cache, history
    <2> QED BY <2>2, <2>3, <2>4, <2>5, WatchCases
  <1>4. updating' \in [pod : Pods \cup {Absent}, dest : Nodes \cup {NoNode}]
        /\ (updating' = NoUpdate \/ (updating'.pod \in Pods /\ updating'.dest \in Nodes))
    BY <1>1, <1>3 DEF NoUpdate
  <1>5. TypeOK'
    BY <1>1, <1>2, <1>3, <1>4 DEF IInv, TypeOK
  <1>6. Working'
    BY <1>2, <1>4 DEF IInv, Working
  <1> QED BY <1>3, <1>5, <1>6 DEF IInv

LEMMA ExpireStays ==
  ASSUME IInv, NEW p \in Pods, ExpirePod(p)
  PROVE  IInv'
  <1>1. /\ updating = NoUpdate /\ p \in assumed /\ podStates[p] \in Nodes
        /\ podStates[p] # NoNode /\ Counted(p, podStates[p])
    BY DEF ExpirePod, Unlocked, IInv, Placed, TypeOK
  <1>2. /\ nodePods' = RemoveFrom(nodePods, p, podStates[p])
        /\ assumed' = assumed \ {p}
        /\ podStates' = [podStates EXCEPT ![p] = NoNode]
        /\ UNCHANGED updating
        /\ UNCHANGED <<server, news, pending, seen, podQueue, current, binds, late, waiting>>
        /\ UNCHANGED <<fetched, nodes, listed, changes, failures, bound, misplaced>>
    BY <1>1 DEF ExpirePod, watches, retries
  <1>3. lapsed' \in BOOLEAN
    BY DEF ExpirePod, IInv, TypeOK
  <1>4. \A q \in Pods : Placed(q)'
    BY <1>1, <1>2, TakeOff
  <1>5. nodePods' \in [Nodes -> SUBSET Pods] /\ podStates' \in [Pods -> Nodes \cup {NoNode}]
    BY <1>1, <1>2 DEF IInv, TypeOK, RemoveFrom
  <1>6. TypeOK'
    BY <1>2, <1>3, <1>5 DEF IInv, TypeOK
  <1>7. Working'
    BY <1>2 DEF IInv, Working
  <1> QED BY <1>4, <1>6, <1>7 DEF IInv

LEMMA EndMoveStays == IInv /\ UpdatePodAdds => IInv'
  <1> SUFFICES ASSUME IInv, UpdatePodAdds PROVE IInv'
    OBVIOUS
  <1>0. PICK p \in Pods, n \in Nodes : updating.pod = p /\ updating.dest = n
    BY DEF UpdatePodAdds, Unlocked, Working, IInv
  <1>1. /\ nodePods' = AddTo(nodePods, p, n) /\ updating' = NoUpdate
        /\ UNCHANGED <<server, news, pending, seen, podQueue, current, binds, late, waiting>>
        /\ UNCHANGED <<fetched, podStates, assumed, nodes, listed, changes, failures, bound>>
        /\ UNCHANGED <<lapsed, misplaced>>
    BY <1>0 DEF UpdatePodAdds, watches, retries, history
  <1>2. nodePods' \in [Nodes -> SUBSET Pods]
    BY <1>0, <1>1 DEF IInv, TypeOK, AddTo
  <1>3. updating' \in [pod : Pods \cup {Absent}, dest : Nodes \cup {NoNode}]
    BY <1>1 DEF NoUpdate
  <1>4. TypeOK'
    BY <1>1, <1>2, <1>3 DEF IInv, TypeOK
  <1>5. Working'
    BY <1>1 DEF IInv, Working
  <1> QED BY <1>4, <1>5, EndMove DEF IInv

LEMMA RestartStays == IInv /\ Restart => IInv'
  <1> SUFFICES ASSUME IInv, Restart PROVE IInv'
    OBVIOUS
  <1> DEFINE Shown == Nodes \cup {NoNode}
  <1>1. /\ current' = Idle /\ binds' = {} /\ late' = late \cup binds /\ seen' = [p \in Pods |-> NoNode]
        /\ waiting' = {} /\ fetched' = {} /\ podStates' = [p \in Pods |-> NoNode]
        /\ assumed' = {} /\ updating' = NoUpdate /\ nodePods' = [n \in Nodes |-> {}]
        /\ nodes' = {} /\ listed' = {} /\ lapsed' = TRUE /\ misplaced' = {}
        /\ UNCHANGED <<server, changes, bound>> /\ podQueue' \subseteq Pods
    BY DEF Restart, IInv, TypeOK
  <1>2. failures' \in 0 .. MaxFailures
    BY BoundsAssumption DEF Restart, Fail, IInv, TypeOK
  <1>3. news' \in [Pods -> {"none", "set", "gone"}]
    BY DEF Restart
  <1>4. \A n \in Shown : <<n>> \in Seq(Shown)
    OBVIOUS
  <1>5. \A p \in Pods : Listed(p) \in Seq(Shown)
    BY <1>4, EmptySeq DEF Listed, OnNode
  <1>6. \A p \in Pods : Known(p) \in Seq(Shown)
    <2> SUFFICES ASSUME NEW p \in Pods PROVE Known(p) \in Seq(Shown)
      OBVIOUS
    <2>1. pending[p] \in Seq(Shown) /\ <<seen[p]>> \in Seq(Shown)
      BY <1>4 DEF IInv, TypeOK
    <2>2. <<seen[p]>> \o pending[p] \in Seq(Shown)
      BY <2>1, ConcatProperties
    <2> QED BY <2>1, <2>2 DEF Known
  <1>7. pending' \in [Pods -> Seq(Shown)]
    BY <1>5, <1>6 DEF Restart
  <1>8. current' \in CurrentType /\ current'.pc = "idle" /\ current'.fit = {}
    BY <1>1 DEF Idle, CurrentType
  <1>9. updating' \in [pod : Pods \cup {Absent}, dest : Nodes \cup {NoNode}]
    BY <1>1 DEF NoUpdate
  <1>10. TypeOK'
    BY <1>1, <1>2, <1>3, <1>7, <1>8, <1>9 DEF IInv, TypeOK, CurrentType
  <1>11. Working'
    BY <1>1, <1>8 DEF Working
  <1>12. \A p \in Pods : Placed(p)'
    BY <1>1, AbsentIsNoPod DEF Placed, Counted, NoUpdate
  <1> QED BY <1>10, <1>11, <1>12 DEF IInv

LEMMA InvStays == IInv /\ [Next]_vars => IInv'
  <1> SUFFICES ASSUME IInv, [Next]_vars PROVE IInv'
    OBVIOUS
  <1>1. ASSUME TypeOK', Working', UNCHANGED cache PROVE IInv'
    BY <1>1, CacheStays DEF IInv
  <1>2. CASE \/ \E p \in Pods : NextPod(p)
             \/ ListNodes \/ GetNodeNameToInfoMap \/ ScheduleFails
             \/ \E n \in Nodes : CheckNode(n)
    BY <1>1, <1>2, LoopTyped DEF IInv
  <1>3. ASSUME NEW p \in Pods,
               \/ \E n \in Nodes \cup {NoNode} : CreatePod(p, n)
               \/ TouchPod(p) \/ DeletePod(p) \/ UpdateQueue(p)
               \/ GetPod(p) \/ GetPodFails(p) \/ AddIfNotPresent(p)
               \/ \E n \in Nodes : \/ Bind(p, n) \/ BindAnswerLost(p, n) \/ BindFails(p, n)
                                   \/ LateBind(p, n)
        PROVE  IInv'
    BY <1>1, <1>3, OutsideTyped DEF IInv
  <1>4. CASE NodeHandler \/ \E n \in Nodes : SetNode(n) \/ RemoveNode(n)
    BY <1>1, <1>4, NodesTyped DEF IInv
  <1>5. CASE UNCHANGED vars
    BY <1>1, <1>5 DEF vars, IInv, TypeOK, Working, cache, watches, retries, history
  <1> QED BY <1>2, <1>3, <1>4, <1>5, AssumeStays, WatchStays, ExpireStays, EndMoveStays,
             RestartStays DEF Next, ScheduleOne

LEMMA InvAlways == Spec => []IInv
  BY InitPlaced, InvStays, PTL DEF Spec

(* The variables have their types (cache.go:44-63, factory.go:54-95).       *)
THEOREM TypeCorrect == Spec => []TypeOK
  <1>1. IInv => TypeOK
    BY DEF IInv
  <1> QED BY <1>1, InvAlways, PTL

(* The cache counts a pod exactly when it has a record of it, and on one    *)
(* node (on none in the middle of updatePod); an assumed pod on the node of *)
(* its record (cache.go:106-230, 301).                                      *)
THEOREM CountedOnce == Spec => []EachPodCountedOnce
  BY PlacedOnce, InvAlways, PTL

-----------------------------------------------------------------------------
(* No overcommitment.  The pods sent to n are those whose binding is on its *)
(* way and those a binding has brought there.                               *)
Claimed(p, n) == <<p, n>> \in binds \/ (p \in bound /\ server[p] = n)
Sent(n) == {p \in Pods : Claimed(p, n)}

(* Until the cache lapses, a pod sent to a node is counted there, or        *)
(* updatePod is about to count it there.                                    *)
Held(p, n) == Counted(p, n) \/ (updating.pod = p /\ updating.dest = n)

(* A node has room for the pods sent to it and, from the time scheduleOne   *)
(* has taken the snapshot until it has chosen, for one more.                *)
Considered(n) == current.pc = "check" /\ n \in current.todo \cup current.fit
Room(n) ==
  /\ Cardinality(Sent(n)) =< AllowedPods
  /\ Considered(n) => Cardinality(Sent(n)) < AllowedPods

BoundInv ==
  /\ \A p \in Pods : p \in bound => OnNode(p)
  /\ late # {} => lapsed

RoomInv ==
  ~lapsed => /\ \A p \in Pods, n \in Nodes : Claimed(p, n) => Held(p, n)
             /\ \A n \in Nodes : Room(n)

LEMMA SentFinite ==
  /\ \A n \in Nodes : IsFiniteSet(Sent(n)) /\ Cardinality(Sent(n)) \in Nat
  /\ \A S \in SUBSET Pods : IsFiniteSet(S) /\ Cardinality(S) \in Nat
  <1>1. \A S \in SUBSET Pods : IsFiniteSet(S)
    BY FiniteAssumption, FS_Subset
  <1>2. \A S \in SUBSET Pods : Cardinality(S) \in Nat
    BY <1>1, FS_CardinalityType
  <1>3. \A n \in Nodes : Sent(n) \in SUBSET Pods
    BY DEF Sent
  <1> QED BY <1>1, <1>2, <1>3

LEMMA RoomImplies == IInv /\ RoomInv => NoOvercommit
  <1> SUFFICES ASSUME IInv, RoomInv, ~lapsed, NEW n \in Nodes
               PROVE  Cardinality(BoundTo(n)) =< AllowedPods
    BY DEF NoOvercommit
  <1>1. BoundTo(n) \subseteq Sent(n)
    BY DEF BoundTo, Sent, Claimed, IInv, TypeOK
  <1>2. IsFiniteSet(Sent(n)) /\ Cardinality(Sent(n)) \in Nat
    BY SentFinite
  <1>3. /\ Cardinality(BoundTo(n)) =< Cardinality(Sent(n))
        /\ Cardinality(BoundTo(n)) \in Nat
    BY <1>1, <1>2, FS_Subset, FS_CardinalityType
  <1>4. Cardinality(Sent(n)) =< AllowedPods
    BY DEF RoomInv, Room
  <1> QED BY <1>2, <1>3, <1>4, RoomAssumption

LEMMA RoomInit == Init => BoundInv /\ RoomInv
  <1> SUFFICES ASSUME Init PROVE BoundInv /\ RoomInv
    OBVIOUS
  <1>1. \A p \in Pods, n \in Nodes : ~Claimed(p, n)
    BY DEF Init, Claimed
  <1>2. \A n \in Nodes : Sent(n) = {}
    BY <1>1 DEF Sent
  <1>3. \A n \in Nodes : Room(n)
    <2>1. \A n \in Nodes : Cardinality(Sent(n)) = 0
      BY <1>2, FS_EmptySet
    <2>2. \A n \in Nodes : ~Considered(n)
      BY DEF Considered, Init, Idle
    <2> QED BY <2>1, <2>2, RoomAssumption DEF Room
  <1> QED BY <1>1, <1>3 DEF BoundInv, RoomInv, Init

(* A step that sends no pod and takes no snapshot.                          *)
LEMMA RoomKept ==
  ASSUME NEW n \in Nodes, Room(n),
         \A p \in Pods : Claimed(p, n)' => Claimed(p, n),
         Considered(n)' => Considered(n)
  PROVE  Room(n)'
  <1> DEFINE S == Sent(n)'
  <1>1. S \subseteq Sent(n)
    BY DEF Sent
  <1>2. IsFiniteSet(Sent(n)) /\ Cardinality(Sent(n)) \in Nat
    BY SentFinite
  <1>3. Cardinality(S) =< Cardinality(Sent(n)) /\ Cardinality(S) \in Nat
    BY <1>1, <1>2, FS_Subset, FS_CardinalityType
  <1> QED BY <1>2, <1>3, RoomAssumption DEF Room

(* And leaves the cache alone.                                              *)
LEMMA RoomIdle ==
  ASSUME RoomInv, UNCHANGED <<cache, lapsed>>,
         \A p \in Pods, n \in Nodes : Claimed(p, n)' => Claimed(p, n),
         \A n \in Nodes : Considered(n)' => Considered(n)
  PROVE  RoomInv'
  <1> SUFFICES ASSUME ~lapsed' PROVE /\ \A p \in Pods, n \in Nodes : Claimed(p, n)' => Held(p, n)'
                                     /\ \A n \in Nodes : Room(n)'
    BY DEF RoomInv
  <1>1. \A n \in Nodes : Room(n)'
    BY RoomKept DEF RoomInv
  <1>2. \A p \in Pods, n \in Nodes : Claimed(p, n)' => Held(p, n)'
    BY DEF RoomInv, Held, Counted, cache
  <1> QED BY <1>1, <1>2

(* The snapshot counts all the pods sent to a node.                         *)
LEMMA RoomSnapshot ==
  ASSUME IInv, RoomInv, GetNodeNameToInfoMap
  PROVE  RoomInv'
  <1> SUFFICES ASSUME ~lapsed' PROVE RoomInv'
    BY DEF RoomInv
  <1>1. /\ UNCHANGED <<server, bound, binds, nodePods, updating, lapsed>>
        /\ updating = NoUpdate /\ current.pc = "snapshot"
    BY DEF GetNodeNameToInfoMap, LoopKeeps, cache, history, Unlocked
  <1>2. \A p \in Pods, n \in Nodes : Claimed(p, n) => Held(p, n)
    BY <1>1 DEF RoomInv
  <1>3. \A p \in Pods, n \in Nodes : Claimed(p, n)' <=> Claimed(p, n)
    BY <1>1 DEF Claimed
  <1>4. \A p \in Pods, n \in Nodes : Claimed(p, n)' => Held(p, n)'
    BY <1>1, <1>2, <1>3 DEF Held, Counted
  <1>5. ASSUME NEW n \in Nodes PROVE Room(n)'
    <2>1. Sent(n)' = Sent(n) /\ Cardinality(Sent(n)) =< AllowedPods
      BY <1>1, <1>3, <1>5 DEF Sent, RoomInv, Room
    <2>2. ASSUME Considered(n)' PROVE Cardinality(Sent(n)) < AllowedPods
      <3>1. current'.pc = "check" /\ n \in current'.todo \cup current'.fit
        BY <2>2 DEF Considered
      <3>2. current' = [current EXCEPT !.pc = "check", !.todo = {m \in @ : HasRoom(m)}]
        BY <3>1 DEF GetNodeNameToInfoMap, IInv, TypeOK
      <3>3. current'.fit = {} /\ \A m \in current'.todo : HasRoom(m)
        BY <1>1, <3>2 DEF IInv, TypeOK, Working
      <3>4. Cardinality(nodePods[n]) < AllowedPods
        BY <3>1, <3>3 DEF HasRoom
      <3>5. \A p \in Pods : Claimed(p, n) => p \in nodePods[n]
        BY <1>1, <1>2, AbsentIsNoPod DEF Held, Counted, NoUpdate
      <3>6. Sent(n) \subseteq nodePods[n] /\ nodePods[n] \subseteq Pods
        BY <3>5 DEF Sent, IInv, TypeOK
      <3>7. /\ Cardinality(Sent(n)) =< Cardinality(nodePods[n])
            /\ Cardinality(Sent(n)) \in Nat /\ Cardinality(nodePods[n]) \in Nat
        BY <3>6, SentFinite, FS_Subset
      <3> QED BY <3>4, <3>7, RoomAssumption
    <2> QED BY <2>1, <2>2 DEF Room
  <1> QED BY <1>4, <1>5 DEF RoomInv

(* A node that was considered takes the pod; a pod with a record lapses.    *)
LEMMA RoomAssume ==
  ASSUME IInv, RoomInv, NEW n \in Nodes, Assume(n)
  PROVE  RoomInv'
  <1> SUFFICES ASSUME ~lapsed' PROVE RoomInv'
    BY DEF RoomInv
  <1> DEFINE p == current.pod
  <1>1. /\ p \in Pods /\ updating = NoUpdate /\ Considered(n)
        /\ podStates[p] = NoNode /\ ~lapsed
        /\ binds' = binds \cup {<<p, n>>} /\ current'.pc = "idle"
        /\ UNCHANGED <<server, bound>>
    BY DEF Assume, Unlocked, IInv, TypeOK, Working, Considered, LoopKeeps, Idle
  <1>2. nodePods' = AddTo(nodePods, p, n) /\ updating' = updating
    BY <1>1 DEF Assume, AssumePod
  <1> HIDE DEF p
  <1>3. \A m \in Nodes : nodePods'[m] = IF m = n THEN nodePods[n] \cup {p} ELSE nodePods[m]
    BY <1>2 DEF AddTo, IInv, TypeOK
  <1>4. \A q \in Pods, m \in Nodes : Claimed(q, m)' <=> Claimed(q, m) \/ (q = p /\ m = n)
    BY <1>1 DEF Claimed
  <1>5. \A q \in Pods, m \in Nodes : Claimed(q, m)' => Held(q, m)'
    BY <1>1, <1>2, <1>3, <1>4 DEF RoomInv, Held, Counted
  <1>6. \A m \in Nodes : ~Considered(m)'
    BY <1>1 DEF Considered
  <1>7. ASSUME NEW m \in Nodes PROVE Room(m)'
    <2>1. CASE m # n
      BY <1>1, <1>4, <1>6, <2>1, RoomKept DEF RoomInv
    <2>2. CASE m = n
      <3> DEFINE S == Sent(n)'
      <3>1. S = Sent(n) \cup {p}
        BY <1>1, <1>4 DEF Sent
      <3>2. Cardinality(Sent(n)) < AllowedPods /\ Cardinality(Sent(n)) \in Nat /\ IsFiniteSet(Sent(n))
        BY <1>1, SentFinite DEF RoomInv, Room
      <3>3. Cardinality(S) \in {Cardinality(Sent(n)), Cardinality(Sent(n)) + 1}
        BY <3>1, <3>2, FS_AddElement
      <3>4. Cardinality(S) =< AllowedPods
        BY <3>2, <3>3, RoomAssumption
      <3> QED BY <1>6, <2>2, <3>4 DEF Room
    <2> QED BY <2>1, <2>2
  <1> QED BY <1>5, <1>7 DEF RoomInv

(* A change of the cache that takes away only what is claimed nowhere else. *)
LEMMA RoomCache ==
  ASSUME RoomInv, ~lapsed, UNCHANGED <<server, bound, binds, current>>,
         \A p \in Pods, n \in Nodes : Claimed(p, n) /\ Held(p, n) => Held(p, n)'
  PROVE  RoomInv'
  <1>1. \A p \in Pods, n \in Nodes : Claimed(p, n)' <=> Claimed(p, n)
    BY DEF Claimed
  <1>2. \A n \in Nodes : Considered(n)' <=> Considered(n)
    BY DEF Considered
  <1>3. \A n \in Nodes : Room(n)'
    BY <1>1, <1>2, RoomKept DEF RoomInv
  <1>4. \A p \in Pods, n \in Nodes : Claimed(p, n)' => Held(p, n)'
    BY <1>1 DEF RoomInv
  <1> QED BY <1>3, <1>4 DEF RoomInv

(* Only a pod that goes nowhere leaves the cache without a lapse, and       *)
(* updatePod takes a pod off only to put it where it goes.                  *)
LEMMA RoomWatch ==
  ASSUME IInv, RoomInv, NEW p \in Pods, WatchAssigned(p)
  PROVE  RoomInv'
  <1> SUFFICES ASSUME ~lapsed' PROVE RoomInv'
    BY DEF RoomInv
  <1>1. UNCHANGED <<server, bound, binds, current>> /\ Unlocked
    BY DEF WatchAssigned
  <1>2. updating.pod = Absent /\ nodePods \in [Nodes -> SUBSET Pods]
    BY <1>1 DEF Unlocked, NoUpdate, IInv, TypeOK
  <1>3. ASSUME NEW n \in Nodes, AddPod(p, n) PROVE RoomInv'
    <2>1. ~lapsed /\ updating' = updating /\ \A m \in Nodes : nodePods[m] \subseteq nodePods'[m]
      BY <1>2, <1>3 DEF AddPod, AddTo
    <2> QED BY <1>1, <2>1, RoomCache DEF Held, Counted
  <1>4. ASSUME NEW old \in Nodes, NEW new \in Nodes, UpdatePod(p, old, new) PROVE RoomInv'
    <2>1. CASE Added(p) /\ Counted(p, old)
      <3>1. /\ nodePods' = RemoveFrom(nodePods, p, old)
            /\ updating' = [pod |-> p, dest |-> new]
            /\ ~lapsed /\ \A n \in Nodes \ {new} : ~Bound(p, n)
        BY <1>4, <2>1 DEF UpdatePod
      <3>2. \A q \in Pods, m \in Nodes : q \in nodePods[m] => q \in nodePods'[m] \/ q = p
        BY <1>2, <3>1 DEF RemoveFrom
      <3>3. \A m \in Nodes : Claimed(p, m) => m = new
        BY <3>1 DEF Claimed, Bound
      <3>4. \A q \in Pods, m \in Nodes : Claimed(q, m) /\ Held(q, m) => Held(q, m)'
        BY <1>2, <3>1, <3>2, <3>3, AbsentIsNoPod DEF Held, Counted
      <3> QED BY <1>1, <3>1, <3>4, RoomCache
    <2>2. CASE ~(Added(p) /\ Counted(p, old))
      <3>1. ~lapsed /\ UNCHANGED <<nodePods, updating>>
        BY <1>4, <2>2 DEF UpdatePod, cache, history
      <3> QED BY <1>1, <3>1, RoomCache DEF Held, Counted
    <2> QED BY <2>1, <2>2
  <1>5. ASSUME NEW n \in Nodes, RemovePod(p, n) PROVE RoomInv'
    <2>1. CASE Added(p) /\ Counted(p, n)
      <3>1. /\ nodePods' = RemoveFrom(nodePods, p, n) /\ updating' = updating
            /\ ~lapsed /\ \A m \in Nodes : ~Bound(p, m)
        BY <1>5, <2>1 DEF RemovePod
      <3>2. \A q \in Pods, m \in Nodes : q \in nodePods[m] => q \in nodePods'[m] \/ q = p
        BY <1>2, <3>1 DEF RemoveFrom
      <3>3. \A m \in Nodes : ~Claimed(p, m)
        BY <3>1 DEF Claimed, Bound
      <3>4. \A q \in Pods, m \in Nodes : Claimed(q, m) /\ Held(q, m) => Held(q, m)'
        BY <3>1, <3>2, <3>3 DEF Held, Counted
      <3> QED BY <1>1, <3>1, <3>4, RoomCache
    <2>2. CASE ~(Added(p) /\ Counted(p, n))
      <3>1. ~lapsed /\ UNCHANGED <<nodePods, updating>>
        BY <1>5, <2>2 DEF RemovePod, cache, history
      <3> QED BY <1>1, <3>1, RoomCache DEF Held, Counted
    <2> QED BY <2>1, <2>2
  <1>6. CASE UNCHANGED <<cache, history>>
    <2>1. ~lapsed /\ UNCHANGED <<nodePods, updating>>
      BY <1>6 DEF cache, history
    <2> QED BY <1>1, <2>1, RoomCache DEF Held, Counted
  <1> QED BY <1>3, <1>4, <1>5, <1>6, WatchCases

LEMMA RoomExpire ==
  ASSUME IInv, RoomInv, NEW p \in Pods, ExpirePod(p)
  PROVE  RoomInv'
  <1> SUFFICES ASSUME ~lapsed' PROVE RoomInv'
    BY DEF RoomInv
  <1>1. /\ UNCHANGED <<server, bound, binds, current>>
        /\ ~lapsed /\ \A n \in Nodes : ~Bound(p, n)
    BY DEF ExpirePod
  <1>2. /\ nodePods' = RemoveFrom(nodePods, p, podStates[p]) \/ nodePods' = nodePods
        /\ updating' = updating
    BY DEF ExpirePod, cache
  <1>3. \A q \in Pods, m \in Nodes : q \in nodePods[m] => q \in nodePods'[m] \/ q = p
    <2>1. nodePods \in [Nodes -> SUBSET Pods]
      BY DEF IInv, TypeOK
    <2>2. CASE nodePods' = nodePods
      BY <2>2
    <2>3. CASE nodePods' = [nodePods EXCEPT ![podStates[p]] = @ \ {p}]
      <3>1. \A m \in Nodes : nodePods'[m] = IF m = podStates[p] THEN nodePods[m] \ {p} ELSE nodePods[m]
        BY <2>1, <2>3
      <3> QED BY <3>1
    <2> QED BY <1>2, <2>2, <2>3 DEF RemoveFrom
  <1>4. \A m \in Nodes : ~Claimed(p, m)
    BY <1>1 DEF Claimed, Bound
  <1>5. \A q \in Pods, m \in Nodes : Claimed(q, m) /\ Held(q, m) => Held(q, m)'
    BY <1>2, <1>3, <1>4 DEF Held, Counted
  <1> QED BY <1>1, <1>5, RoomCache

LEMMA RoomEndMove ==
  ASSUME IInv, RoomInv, UpdatePodAdds
  PROVE  RoomInv'
  <1> SUFFICES ASSUME ~lapsed' PROVE RoomInv'
    BY DEF RoomInv
  <1>0. PICK p \in Pods, n \in Nodes : updating.pod = p /\ updating.dest = n
    BY DEF UpdatePodAdds, Unlocked, Working, IInv
  <1>1. /\ nodePods' = AddTo(nodePods, p, n) /\ ~lapsed
        /\ UNCHANGED <<server, bound, binds, current>>
    BY <1>0 DEF UpdatePodAdds, history
  <1>2. \A m \in Nodes : nodePods'[m] = IF m = n THEN nodePods[n] \cup {p} ELSE nodePods[m]
    BY <1>1 DEF AddTo, IInv, TypeOK
  <1>3. \A q \in Pods, m \in Nodes : Held(q, m) => Held(q, m)'
    BY <1>0, <1>2 DEF Held, Counted
  <1> QED BY <1>1, <1>3, RoomCache

(* A binding only turns a pod on its way into one that has arrived.         *)
LEMMA RoomBind ==
  ASSUME IInv, RoomInv, NEW p \in Pods, NEW n \in Nodes, Bind(p, n) \/ BindAnswerLost(p, n)
  PROVE  RoomInv'
  <1>1. /\ <<p, n>> \in binds /\ server' = [server EXCEPT ![p] = n] /\ bound' = bound \cup {p}
        /\ binds' = binds \ {<<p, n>>}
        /\ UNCHANGED <<cache, lapsed, current>>
    BY DEF Bind, BindAnswerLost, AssignPod, history
  <1>2. \A q \in Pods : server'[q] = IF q = p THEN n ELSE server[q]
    BY <1>1 DEF IInv, TypeOK
  <1>3. \A q \in Pods, m \in Nodes : Claimed(q, m)' => Claimed(q, m)
    BY <1>1, <1>2 DEF Claimed
  <1>4. \A m \in Nodes : Considered(m)' => Considered(m)
    BY <1>1 DEF Considered
  <1> QED BY <1>1, <1>3, <1>4, RoomIdle

(* The users' steps send no pod anywhere: a pod created with a node is not  *)
(* one that a binding brought there.                                        *)
LEMMA RoomUser ==
  ASSUME IInv, RoomInv, BoundInv, NEW p \in Pods,
         (\E n \in Nodes \cup {NoNode} : CreatePod(p, n)) \/ TouchPod(p) \/ DeletePod(p)
  PROVE  RoomInv'
  <1>1. UNCHANGED <<cache, lapsed, current, binds>>
    BY DEF CreatePod, TouchPod, DeletePod, history
  <1>2. \A q \in Pods, m \in Nodes : Claimed(q, m)' => Claimed(q, m)
    <2>1. ASSUME NEW n \in Nodes \cup {NoNode}, CreatePod(p, n)
          PROVE  \A q \in Pods, m \in Nodes : Claimed(q, m)' => Claimed(q, m)
      <3>1. /\ server[p] = Absent /\ server' = [server EXCEPT ![p] = n]
            /\ UNCHANGED <<bound, binds>>
        BY <2>1 DEF CreatePod
      <3>2. p \notin bound
        BY <3>1, AbsentIsNoNode DEF BoundInv, OnNode
      <3> QED BY <3>1, <3>2 DEF Claimed, IInv, TypeOK
    <2>2. CASE TouchPod(p)
      BY <2>2 DEF TouchPod, Claimed
    <2>3. CASE DeletePod(p)
      <3>1. /\ server' = [server EXCEPT ![p] = Absent] /\ bound' = bound \ {p} /\ binds' = binds
        BY <2>3 DEF DeletePod
      <3> QED BY <3>1 DEF Claimed, IInv, TypeOK
    <2> QED BY <2>1, <2>2, <2>3
  <1>3. \A m \in Nodes : Considered(m)' => Considered(m)
    BY <1>1 DEF Considered
  <1> QED BY <1>1, <1>2, <1>3, RoomIdle

LEMMA RoomStays == IInv /\ BoundInv /\ RoomInv /\ [Next]_vars => RoomInv'
  <1> SUFFICES ASSUME IInv, BoundInv, RoomInv, [Next]_vars PROVE RoomInv'
    OBVIOUS
  <1>1. ASSUME UNCHANGED <<cache, lapsed, server, bound>>, binds' \subseteq binds,
               \A n \in Nodes : Considered(n)' => Considered(n)
        PROVE  RoomInv'
    <2>1. \A p \in Pods, n \in Nodes : Claimed(p, n)' => Claimed(p, n)
      BY <1>1 DEF Claimed
    <2> QED BY <1>1, <2>1, RoomIdle
  <1>2. ASSUME NEW p \in Pods,
               \/ NextPod(p) \/ UpdateQueue(p) \/ GetPod(p) \/ GetPodFails(p) \/ AddIfNotPresent(p)
               \/ \E n \in Nodes : BindFails(p, n)
        PROVE  RoomInv'
    <2>1. /\ UNCHANGED <<cache, lapsed, server, bound>> /\ binds' \subseteq binds
          /\ current' = current \/ current'.pc = "list"
      BY <1>2 DEF NextPod, UpdateQueue, GetPod, GetPodFails, AddIfNotPresent, BindFails,
                  history, LoopKeeps, Idle
    <2> QED BY <1>1, <2>1 DEF Considered
  <1>3. CASE ListNodes \/ ScheduleFails
    <2>1. UNCHANGED <<cache, lapsed, server, bound, binds>>
      BY <1>3 DEF ListNodes, ScheduleFails, history, LoopKeeps
    <2>2. current'.pc # "check"
      <3>1. CASE ListNodes
        <4>1. current'.pc = IF listed = {} THEN "error" ELSE "snapshot"
          BY <3>1 DEF ListNodes, IInv, TypeOK
        <4> QED BY <4>1
      <3>2. CASE ScheduleFails
        BY <3>2 DEF ScheduleFails, Idle
      <3> QED BY <1>3, <3>1, <3>2
    <2> QED BY <1>1, <2>1, <2>2 DEF Considered
  <1>4. ASSUME NEW n \in Nodes, CheckNode(n) PROVE RoomInv'
    <2>1. /\ UNCHANGED <<cache, lapsed, server, bound, binds>>
          /\ current.pc = "check" /\ n \in current.todo
          /\ current'.todo \subseteq current.todo
          /\ current'.fit \subseteq current.fit \cup {n}
      BY <1>4 DEF CheckNode, history, LoopKeeps, IInv, TypeOK
    <2> QED BY <1>1, <2>1 DEF Considered
  <1>5. CASE NodeHandler \/ \E n \in Nodes : SetNode(n) \/ RemoveNode(n)
    <2>1. UNCHANGED <<cache, lapsed, server, bound, binds, current>>
      BY <1>5 DEF NodeHandler, SetNode, RemoveNode, history
    <2> QED BY <1>1, <2>1 DEF Considered
  <1>6. ASSUME NEW p \in Pods, NEW n \in Nodes, LateBind(p, n) PROVE RoomInv'
    <2>1. lapsed /\ lapsed' = lapsed
      BY <1>6 DEF LateBind, BoundInv, history
    <2> QED BY <2>1 DEF RoomInv
  <1>7. CASE Restart
    BY <1>7 DEF Restart, RoomInv
  <1>8. CASE UNCHANGED vars
    <2>1. UNCHANGED <<cache, lapsed, server, bound, binds, current>>
      BY <1>8 DEF vars, history
    <2> QED BY <1>1, <2>1 DEF Considered
  <1> QED BY <1>2, <1>3, <1>4, <1>5, <1>6, <1>7, <1>8, RoomSnapshot, RoomAssume, RoomBind,
             RoomWatch, RoomExpire, RoomEndMove, RoomUser DEF Next, ScheduleOne

LEMMA BoundStays == IInv /\ BoundInv /\ [Next]_vars => BoundInv'
  <1> SUFFICES ASSUME IInv, BoundInv, [Next]_vars PROVE BoundInv'
    OBVIOUS
  <1>1. ASSUME UNCHANGED <<server, bound, late>>, lapsed => lapsed' PROVE BoundInv'
    BY <1>1 DEF BoundInv, OnNode
  <1>2. ASSUME NEW p \in Pods, NEW n \in Nodes, Bind(p, n) \/ BindAnswerLost(p, n) \/ LateBind(p, n)
        PROVE  BoundInv'
    <2>1. /\ server' = [server EXCEPT ![p] = n] /\ bound' = bound \cup {p} /\ lapsed' = lapsed
          /\ late' \subseteq late
      BY <1>2 DEF Bind, BindAnswerLost, LateBind, AssignPod, history
    <2> QED BY <2>1 DEF BoundInv, OnNode, IInv, TypeOK
  <1>3. ASSUME NEW p \in Pods,
               (\E n \in Nodes \cup {NoNode} : CreatePod(p, n)) \/ TouchPod(p) \/ DeletePod(p)
        PROVE  BoundInv'
    <2>1. late' = late /\ lapsed' = lapsed
      BY <1>3 DEF CreatePod, TouchPod, DeletePod, history
    <2>2. ASSUME NEW n \in Nodes \cup {NoNode}, CreatePod(p, n) PROVE BoundInv'
      <3>1. /\ server[p] = Absent /\ server' = [server EXCEPT ![p] = n] /\ bound' = bound
        BY <2>2 DEF CreatePod
      <3>2. p \notin bound
        BY <3>1, AbsentIsNoNode DEF BoundInv, OnNode
      <3> QED BY <2>1, <3>1, <3>2 DEF BoundInv, OnNode, IInv, TypeOK
    <2>3. CASE TouchPod(p)
      BY <1>1, <2>1, <2>3 DEF TouchPod
    <2>4. CASE DeletePod(p)
      <3>1. /\ server' = [server EXCEPT ![p] = Absent] /\ bound' = bound \ {p}
        BY <2>4 DEF DeletePod
      <3> QED BY <2>1, <3>1 DEF BoundInv, OnNode, IInv, TypeOK
    <2> QED BY <1>3, <2>2, <2>3, <2>4
  <1>4. ASSUME NEW p \in Pods,
               \/ NextPod(p) \/ UpdateQueue(p) \/ GetPod(p) \/ GetPodFails(p) \/ AddIfNotPresent(p)
               \/ \E n \in Nodes : BindFails(p, n)
        PROVE  BoundInv'
    BY <1>1, <1>4 DEF NextPod, UpdateQueue, GetPod, GetPodFails, AddIfNotPresent, BindFails,
                      history, LoopKeeps
  <1>5. CASE \/ ListNodes \/ ScheduleFails \/ GetNodeNameToInfoMap \/ NodeHandler \/ UpdatePodAdds
             \/ \E n \in Nodes : CheckNode(n) \/ SetNode(n) \/ RemoveNode(n)
    BY <1>1, <1>5 DEF ListNodes, ScheduleFails, GetNodeNameToInfoMap, NodeHandler, UpdatePodAdds,
                      CheckNode, SetNode, RemoveNode, history, LoopKeeps
  <1>6. ASSUME NEW n \in Nodes, Assume(n) PROVE BoundInv'
    BY <1>1, <1>6 DEF Assume, LoopKeeps
  <1>7. ASSUME NEW p \in Pods, ExpirePod(p) PROVE BoundInv'
    BY <1>1, <1>7 DEF ExpirePod
  <1>8. ASSUME NEW p \in Pods, WatchAssigned(p) PROVE BoundInv'
    <2>1. lapsed => lapsed'
      BY <1>8, WatchCases DEF AddPod, UpdatePod, RemovePod, history
    <2> QED BY <1>1, <1>8, <2>1 DEF WatchAssigned
  <1>9. CASE Restart
    <2>1. UNCHANGED <<server, bound>> /\ lapsed'
      BY <1>9 DEF Restart
    <2> QED BY <2>1 DEF BoundInv, OnNode
  <1>10. CASE UNCHANGED vars
    BY <1>1, <1>10 DEF vars, history
  <1> QED BY <1>2, <1>3, <1>4, <1>5, <1>6, <1>7, <1>8, <1>9, <1>10 DEF Next, ScheduleOne

(* As long as the cache has not lapsed no node is given more pods than are  *)
(* allowed there, whatever is scheduled, bound, confirmed, updated,         *)
(* deleted, expired and retried at the same time (scheduler.go:112-140).    *)
THEOREM NeverOvercommitted == Spec => []NoOvercommit
  BY RoomImplies, RoomInit, RoomStays, BoundStays, InvAlways, PTL DEF Spec
==============================================================================
