-------------------------- MODULE WorkQueueProofs --------------------------
(***************************************************************************)
(* Theorems about WorkQueue for every set of items and every finite set of *)
(* workers: the inductive invariant IInv, and from it the properties the   *)
(* runs check on small instances.                                          *)
(*                                                                         *)
(* The second half is about DelayingQueue, for any callers, capacity,      *)
(* delays and number of calls: an entry is at one place at a time, there   *)
(* once, and until shutdown somewhere (DelayInv); and the queue inside is  *)
(* only used as a queue, so that the first half holds of it.               *)
(***************************************************************************)
EXTENDS DelayingQueue, FiniteSetTheorems, TLAPS

-----------------------------------------------------------------------------
(* Sequences without duplicates.                                           *)

\* Appending an item that is not queued keeps the queue free of duplicates.
LEMMA AppendDistinct ==
  ASSUME NEW S, NEW q \in Seq(S), NEW i \in S,
         \A k \in 1..Len(q) : q[k] # i,
         \A j, k \in 1..Len(q) : q[j] = q[k] => j = k
  PROVE  /\ Append(q, i) \in Seq(S)
         /\ Len(Append(q, i)) = Len(q) + 1
         /\ Append(q, i)[Len(q) + 1] = i
         /\ \A k \in 1..Len(q) : Append(q, i)[k] = q[k]
         /\ \A j, k \in 1..Len(Append(q, i)) :
              Append(q, i)[j] = Append(q, i)[k] => j = k
  OBVIOUS

\* Taking the head off a queue without duplicates takes the item out.
LEMMA TailDistinct ==
  ASSUME NEW S, NEW q \in Seq(S), q # <<>>,
         \A j, k \in 1..Len(q) : q[j] = q[k] => j = k
  PROVE  /\ Tail(q) \in Seq(S)
         /\ Head(q) = q[1] /\ Head(q) \in S /\ 1 \in 1..Len(q)
         /\ Len(Tail(q)) = Len(q) - 1
         /\ \A k \in 1..Len(Tail(q)) : Tail(q)[k] = q[k+1] /\ k+1 \in 1..Len(q)
         /\ \A k \in 2..Len(q) : q[k] = Tail(q)[k-1] /\ k-1 \in 1..Len(Tail(q))
         /\ \A k \in 1..Len(Tail(q)) : Tail(q)[k] # Head(q)
         /\ \A j, k \in 1..Len(Tail(q)) : Tail(q)[j] = Tail(q)[k] => j = k
  OBVIOUS

-----------------------------------------------------------------------------
(* Workers and the condition variable.                                     *)

\* The workers at a place are a finite set.
LEMMA PlaceFinite ==
  ASSUME NEW f, NEW p
  PROVE  /\ IsFiniteSet({w \in Workers : f[w] = p})
         /\ Cardinality({w \in Workers : f[w] = p}) \in Nat
  <1>1. {w \in Workers : f[w] = p} \subseteq Workers
    OBVIOUS
  <1> QED
    BY <1>1, WorkersFinite, FS_Subset, FS_CardinalityType

LEMMA WokenFinite == IsFiniteSet(Woken) /\ Cardinality(Woken) \in Nat
  <1>1. Woken \subseteq Workers
    BY DEF Woken
  <1> QED
    BY <1>1, WorkersFinite, FS_Subset, FS_CardinalityType

\* Signal moves at most one worker, from parked to woken, and moves one
\* whenever a worker is still parked afterwards.
LEMMA SignalEffect ==
  ASSUME NEW f \in [Workers -> Places], Signal(f)
  PROVE  /\ pc' \in [Workers -> Places]
         /\ \A w \in Workers : \/ pc'[w] = f[w]
                               \/ f[w] = "parked" /\ pc'[w] = "woken"
         /\ Parked' # {} =>
              Cardinality(Woken') = Cardinality({w \in Workers : f[w] = "woken"}) + 1
  <1> DEFINE fp == {w \in Workers : f[w] = "parked"}
             fw == {w \in Workers : f[w] = "woken"}
  <1>1. CASE fp = {} /\ pc' = f
    BY <1>1 DEF Parked
  <1>2. ASSUME NEW w \in fp, pc' = [f EXCEPT ![w] = "woken"]
        PROVE  /\ pc' \in [Workers -> Places]
               /\ \A v \in Workers : \/ pc'[v] = f[v]
                                     \/ f[v] = "parked" /\ pc'[v] = "woken"
               /\ Cardinality(Woken') = Cardinality(fw) + 1
    <2>1. pc' \in [Workers -> Places]
      BY <1>2 DEF Places
    <2>2. \A v \in Workers : \/ pc'[v] = f[v]
                             \/ f[v] = "parked" /\ pc'[v] = "woken"
      BY <1>2
    <2>3. Woken' = fw \cup {w} /\ w \notin fw
      BY <1>2 DEF Woken
    <2>4. IsFiniteSet(fw)
      BY PlaceFinite
    <2> QED
      BY <2>1, <2>2, <2>3, <2>4, FS_AddElement
  <1> QED
    BY <1>1, <1>2 DEF Signal

-----------------------------------------------------------------------------
(* The inductive invariant.                                                *)

LEMMA InitIInv == Init => IInv
  <1> SUFFICES ASSUME Init PROVE IInv
    OBVIOUS
  <1>1. TypeOK
    <2>1. queue \in Seq(Items) /\ dirty \subseteq Items /\ processing \subseteq Items
      BY DEF Init
    <2>2. shuttingDown \in BOOLEAN
      BY DEF Init
    <2>3. pc \in [Workers -> Places] /\ held \in [Workers -> Items \cup {None}]
      BY DEF Init, Places
    <2> QED
      BY <2>1, <2>2, <2>3 DEF TypeOK
  <1>2. QueueSound /\ NoLostAdd
    BY DEF Init, QueueSound, NoLostAdd
  <1>3. \A w \in Workers : pc[w] # "working" /\ pc[w] # "parked"
    BY DEF Init
  <1>4. Parked = {} /\ processing = {}
    BY <1>3 DEF Parked, Init
  <1> QED
    BY <1>1, <1>2, <1>3, <1>4
       DEF IInv, OneWorkerPerItem, NoLostWakeup, NobodyParkedAfterShutDown

\* Add of an item that is being processed.
LEMMA AddWhileProcessingIInv ==
  ASSUME IInv, NEW i \in Items, AddWhileProcessing(i)
  PROVE  IInv'
  <1> USE DEF AddWhileProcessing
  <1>1. TypeOK'
    BY DEF IInv, TypeOK
  <1>2. QueueSound'
    BY DEF IInv, QueueSound
  <1>3. NoLostAdd'
    BY DEF IInv, NoLostAdd, InQueue
  <1>4. (\A w \in Workers : pc[w] = "working" => held[w] \in Items)'
    BY DEF IInv
  <1>5. OneWorkerPerItem'
    BY DEF IInv, OneWorkerPerItem
  <1>6. NoLostWakeup' /\ NobodyParkedAfterShutDown'
    BY DEF IInv, NoLostWakeup, NobodyParkedAfterShutDown, Parked, Woken
  <1> QED
    BY <1>1, <1>2, <1>3, <1>4, <1>5, <1>6 DEF IInv

\* Add of an item that nobody processes: it is queued and a worker signalled.
LEMMA AddToQueueIInv ==
  ASSUME IInv, NEW i \in Items, AddToQueue(i)
  PROVE  IInv'
  <1> USE DEF AddToQueue
  <1>1. /\ queue \in Seq(Items) /\ pc \in [Workers -> Places]
        /\ \A k \in 1..Len(queue) : queue[k] # i
        /\ \A j, k \in 1..Len(queue) : queue[j] = queue[k] => j = k
    BY DEF IInv, TypeOK, QueueSound
  <1>2. /\ queue' \in Seq(Items)
        /\ Len(queue') = Len(queue) + 1
        /\ queue'[Len(queue) + 1] = i
        /\ \A k \in 1..Len(queue) : queue'[k] = queue[k]
        /\ \A j, k \in 1..Len(queue') : queue'[j] = queue'[k] => j = k
    <2> QED BY <1>1, AppendDistinct
  <1>3. /\ pc' \in [Workers -> Places]
        /\ \A w \in Workers : \/ pc'[w] = pc[w]
                              \/ pc[w] = "parked" /\ pc'[w] = "woken"
        /\ Parked' # {} => Cardinality(Woken') = Cardinality(Woken) + 1
    BY <1>1, SignalEffect DEF Woken
  <1>4. TypeOK'
    BY <1>2, <1>3 DEF IInv, TypeOK
  <1>5. QueueSound'
    <2>1. \A k \in 1..Len(queue') : queue'[k] \in dirty' \ processing'
      <3> SUFFICES ASSUME NEW k \in 1..Len(queue')
                   PROVE  queue'[k] \in dirty' \ processing'
        OBVIOUS
      <3>1. CASE k \in 1..Len(queue)
        BY <3>1, <1>2 DEF IInv, QueueSound
      <3>2. CASE k = Len(queue) + 1
        BY <3>2, <1>2
      <3> QED
        BY <3>1, <3>2, <1>1, <1>2
    <2> QED
      BY <2>1, <1>2 DEF QueueSound
  <1>6. NoLostAdd'
    <2> SUFFICES ASSUME NEW j \in dirty'
                 PROVE  (\E k \in 1..Len(queue') : queue'[k] = j) \/ j \in processing'
      BY DEF NoLostAdd, InQueue
    <2>1. CASE j = i
      BY <2>1, <1>1, <1>2
    <2>2. CASE j \in dirty
      BY <2>2, <1>1, <1>2 DEF IInv, NoLostAdd, InQueue
    <2> QED
      BY <2>1, <2>2
  <1>7. (\A w \in Workers : pc[w] = "working" => held[w] \in Items)'
    BY <1>3 DEF IInv
  <1>8. OneWorkerPerItem'
    <2>1. \A w \in Workers : pc'[w] = "working" <=> pc[w] = "working"
      BY <1>3
    <2> QED
      BY <2>1 DEF IInv, OneWorkerPerItem
  <1>9. NoLostWakeup'
    <2> SUFFICES ASSUME Parked' # {}
                 PROVE  Len(queue') <= Cardinality(Woken')
      BY DEF NoLostWakeup
    <2>1. Parked # {}
      BY <1>3 DEF Parked
    <2>2. Cardinality(Woken) \in Nat
      BY WokenFinite
    <2>3. Len(queue) \in Nat
      BY <1>1
    <2> QED
      BY <2>1, <2>2, <2>3, <1>2, <1>3 DEF IInv, NoLostWakeup
  <1>10. NobodyParkedAfterShutDown'
    BY DEF NobodyParkedAfterShutDown
  <1> QED
    BY <1>4, <1>5, <1>6, <1>7, <1>8, <1>9, <1>10 DEF IInv

\* Get on an empty queue that is not shutting down: the worker parks.
LEMMA GetWaitIInv ==
  ASSUME IInv, NEW w \in Workers, GetWait(w)
  PROVE  IInv'
  <1> USE DEF GetWait, InGet
  <1>1. TypeOK'
    BY DEF IInv, TypeOK, Places
  <1>2. QueueSound' /\ NoLostAdd'
    BY DEF IInv, QueueSound, NoLostAdd, InQueue
  <1>3. \A v \in Workers : pc'[v] = "working" <=> pc[v] = "working"
    BY DEF IInv, TypeOK
  <1>4. (\A v \in Workers : pc[v] = "working" => held[v] \in Items)'
    BY <1>3 DEF IInv
  <1>5. OneWorkerPerItem'
    BY <1>3 DEF IInv, OneWorkerPerItem
  <1>6. NoLostWakeup'
    <2>1. Cardinality(Woken') \in Nat
      <3>1. Woken' \subseteq Workers
        BY DEF Woken
      <3> QED
        BY <3>1, WorkersFinite, FS_Subset, FS_CardinalityType
    <2>2. Len(queue') = 0
      OBVIOUS
    <2> QED
      BY <2>1, <2>2 DEF NoLostWakeup
  <1>7. NobodyParkedAfterShutDown'
    BY DEF NobodyParkedAfterShutDown
  <1> QED
    BY <1>1, <1>2, <1>4, <1>5, <1>6, <1>7 DEF IInv

\* Get on an empty queue that is shutting down: the worker is told to exit.
LEMMA GetShutdownIInv ==
  ASSUME IInv, NEW w \in Workers, GetShutdown(w)
  PROVE  IInv'
  <1> USE DEF GetShutdown, InGet
  <1>1. TypeOK'
    BY DEF IInv, TypeOK, Places
  <1>2. QueueSound' /\ NoLostAdd'
    BY DEF IInv, QueueSound, NoLostAdd, InQueue
  <1>3. \A v \in Workers : pc'[v] = "working" <=> pc[v] = "working"
    BY DEF IInv, TypeOK
  <1>4. (\A v \in Workers : pc[v] = "working" => held[v] \in Items)'
    BY <1>3 DEF IInv
  <1>5. OneWorkerPerItem'
    BY <1>3 DEF IInv, OneWorkerPerItem
  <1>6. Parked' = {}
    BY DEF IInv, TypeOK, NobodyParkedAfterShutDown, Parked
  <1>7. NoLostWakeup' /\ NobodyParkedAfterShutDown'
    BY <1>6 DEF NoLostWakeup, NobodyParkedAfterShutDown
  <1> QED
    BY <1>1, <1>2, <1>4, <1>5, <1>7 DEF IInv

\* Get that takes the head of the queue.
LEMMA GetItemIInv ==
  ASSUME IInv, NEW w \in Workers, GetItem(w)
  PROVE  IInv'
  <1> USE DEF GetItem, InGet
  <1> DEFINE i == Head(queue)
  <1>1. /\ queue \in Seq(Items) /\ queue # <<>>
        /\ \A j, k \in 1..Len(queue) : queue[j] = queue[k] => j = k
        /\ pc \in [Workers -> Places]
        /\ held \in [Workers -> Items \cup {None}]
    BY DEF IInv, TypeOK, QueueSound
  <1>2. /\ queue' \in Seq(Items)
        /\ i = queue[1] /\ i \in Items /\ 1 \in 1..Len(queue)
        /\ Len(queue') = Len(queue) - 1
        /\ \A k \in 1..Len(queue') : queue'[k] = queue[k+1] /\ k+1 \in 1..Len(queue)
        /\ \A k \in 2..Len(queue) : queue[k] = queue'[k-1] /\ k-1 \in 1..Len(queue')
        /\ \A k \in 1..Len(queue') : queue'[k] # i
        /\ \A j, k \in 1..Len(queue') : queue'[j] = queue'[k] => j = k
    <2>1. queue' = Tail(queue)
      OBVIOUS
    <2> HIDE DEF GetItem, InGet
    <2> QED
      BY <1>1, <2>1, TailDistinct
  <1>3. i \in dirty /\ i \notin processing
    BY <1>2 DEF IInv, QueueSound
  <1> HIDE DEF i
  <1>4. /\ processing' = processing \cup {i}
        /\ dirty' = dirty \ {i}
        /\ pc' = [pc EXCEPT ![w] = "working"]
        /\ held' = [held EXCEPT ![w] = i]
        /\ shuttingDown' = shuttingDown
        /\ pc[w] \in {"idle", "woken"}
    BY DEF i
  <1> HIDE DEF GetItem, InGet
  <1>5. TypeOK'
    BY <1>1, <1>2, <1>4 DEF IInv, TypeOK, Places
  <1>6. QueueSound'
    BY <1>2, <1>4 DEF IInv, QueueSound
  <1>7. NoLostAdd'
    <2> SUFFICES ASSUME NEW j \in dirty', j \notin processing'
                 PROVE  \E k \in 1..Len(queue') : queue'[k] = j
      BY DEF NoLostAdd, InQueue
    <2>1. PICK k \in 1..Len(queue) : queue[k] = j
      BY <1>4 DEF IInv, NoLostAdd, InQueue
    <2>2. k \in 2..Len(queue)
      BY <2>1, <1>1, <1>2, <1>4
    <2> QED
      BY <2>1, <2>2, <1>2
  <1>8. (\A v \in Workers : pc[v] = "working" => held[v] \in Items)'
    BY <1>1, <1>2, <1>4 DEF IInv
  <1>9. OneWorkerPerItem'
    <2>1. \A v \in Workers : pc[v] = "working" => held[v] # i
      BY <1>3 DEF IInv, OneWorkerPerItem
    <2>2. \A v \in Workers :
            /\ pc'[v] = "working" <=> (v = w \/ pc[v] = "working")
            /\ held'[v] = IF v = w THEN i ELSE held[v]
      BY <1>1, <1>4
    <2>3. processing' = {held'[v] : v \in {u \in Workers : pc'[u] = "working"}}
      BY <2>1, <2>2, <1>4 DEF IInv, OneWorkerPerItem
    <2>4. \A u, v \in Workers :
            pc'[u] = "working" /\ pc'[v] = "working" /\ held'[u] = held'[v] => u = v
      BY <2>1, <2>2 DEF IInv, OneWorkerPerItem
    <2> QED
      BY <2>3, <2>4 DEF OneWorkerPerItem
  <1>10. NoLostWakeup'
    <2> SUFFICES ASSUME Parked' # {}
                 PROVE  Len(queue') <= Cardinality(Woken')
      BY DEF NoLostWakeup
    <2>1. Parked # {}
      BY <1>1, <1>4 DEF Parked
    <2>2. Len(queue) <= Cardinality(Woken) /\ Len(queue) \in Nat
      BY <2>1, <1>1 DEF IInv, NoLostWakeup
    <2>3. Woken' = Woken \ {w}
      BY <1>1, <1>4 DEF Woken
    <2>4. /\ Cardinality(Woken') \in Nat /\ Cardinality(Woken) \in Nat
          /\ Cardinality(Woken') >= Cardinality(Woken) - 1
      BY <2>3, WokenFinite, FS_RemoveElement, FS_CardinalityType
    <2> QED
      BY <2>2, <2>4, <1>2
  <1>11. NobodyParkedAfterShutDown'
    BY <1>1, <1>4 DEF IInv, NobodyParkedAfterShutDown, Parked
  <1> QED
    BY <1>5, <1>6, <1>7, <1>8, <1>9, <1>10, <1>11 DEF IInv

\* Done: the item leaves processing and is queued again if it became dirty.
LEMMA DoneIInv ==
  ASSUME IInv, NEW w \in Workers, Done(w)
  PROVE  IInv'
  <1> DEFINE i == held[w]
             idle == [pc EXCEPT ![w] = "idle"]
  <1>1. /\ queue \in Seq(Items)
        /\ pc \in [Workers -> Places] /\ held \in [Workers -> Items \cup {None}]
        /\ pc[w] = "working" /\ i \in Items /\ i \in processing
        /\ \A j, k \in 1..Len(queue) : queue[j] = queue[k] => j = k
        /\ \A k \in 1..Len(queue) : queue[k] # i
        /\ idle \in [Workers -> Places]
    BY DEF Done, IInv, TypeOK, QueueSound, OneWorkerPerItem, Places
  <1>2. /\ processing' = processing \ {i} /\ dirty' = dirty
        /\ held' = [held EXCEPT ![w] = None] /\ shuttingDown' = shuttingDown
    BY DEF Done
  <1>3. /\ queue' \in Seq(Items)
        /\ \A k \in 1..Len(queue) : k \in 1..Len(queue') /\ queue'[k] = queue[k]
        /\ \A j, k \in 1..Len(queue') : queue'[j] = queue'[k] => j = k
        /\ \A k \in 1..Len(queue') :
             \/ k \in 1..Len(queue)
             \/ queue'[k] = i /\ i \in dirty
        /\ i \in dirty => \E k \in 1..Len(queue') : queue'[k] = i
    <2>1. CASE i \in dirty /\ queue' = Append(queue, i)
      <3>1. /\ queue' \in Seq(Items)
            /\ Len(queue') = Len(queue) + 1
            /\ queue'[Len(queue) + 1] = i
            /\ \A k \in 1..Len(queue) : queue'[k] = queue[k]
            /\ \A j, k \in 1..Len(queue') : queue'[j] = queue'[k] => j = k
        BY <2>1, <1>1, AppendDistinct
      <3>2. Len(queue) \in Nat
        BY <1>1
      <3> QED
        BY <3>1, <3>2, <2>1
    <2>2. CASE i \notin dirty /\ queue' = queue
      BY <2>2, <1>1
    <2> QED
      BY <2>1, <2>2 DEF Done
  <1>4. /\ pc' \in [Workers -> Places]
        /\ \A v \in Workers : \/ pc'[v] = idle[v]
                              \/ idle[v] = "parked" /\ pc'[v] = "woken"
        /\ \/ /\ queue' = Append(queue, i)
              /\ Parked' # {} => Cardinality(Woken') = Cardinality(Woken) + 1
           \/ queue' = queue /\ pc' = idle
    <2>1. {v \in Workers : idle[v] = "woken"} = Woken
      BY <1>1 DEF Woken
    <2>2. CASE queue' = Append(queue, i) /\ Signal(idle)
      <3> HIDE DEF idle
      <3> QED BY <2>1, <2>2, <1>1, SignalEffect
    <2>3. CASE queue' = queue /\ pc' = idle
      BY <2>3, <1>1
    <2> QED
      BY <2>2, <2>3 DEF Done
  <1>5. \A v \in Workers : pc'[v] = "working" <=> (v # w /\ pc[v] = "working")
    BY <1>1, <1>4
  <1>6. TypeOK'
    BY <1>2, <1>3, <1>4, <1>1 DEF IInv, TypeOK
  <1>7. QueueSound'
    BY <1>2, <1>3 DEF IInv, QueueSound
  <1>8. NoLostAdd'
    <2> SUFFICES ASSUME NEW j \in dirty', j \notin processing'
                 PROVE  \E k \in 1..Len(queue') : queue'[k] = j
      BY DEF NoLostAdd, InQueue
    <2>1. CASE j = i
      BY <2>1, <1>2, <1>3
    <2>2. CASE j # i
      <3>1. PICK k \in 1..Len(queue) : queue[k] = j
        BY <2>2, <1>2 DEF IInv, NoLostAdd, InQueue
      <3> QED
        BY <3>1, <1>3
    <2> QED
      BY <2>1, <2>2
  <1>9. (\A v \in Workers : pc[v] = "working" => held[v] \in Items)'
    BY <1>1, <1>2, <1>5 DEF IInv
  <1>10. OneWorkerPerItem'
    <2>1. \A v \in Workers : v # w /\ pc[v] = "working" => held[v] # i
      BY <1>1 DEF IInv, OneWorkerPerItem
    <2>2. \A v \in Workers : v # w => held'[v] = held[v]
      BY <1>1, <1>2
    <2>3. processing' = {held'[v] : v \in {u \in Workers : pc'[u] = "working"}}
      BY <2>1, <2>2, <1>1, <1>2, <1>5 DEF IInv, OneWorkerPerItem
    <2>4. \A u, v \in Workers :
            pc'[u] = "working" /\ pc'[v] = "working" /\ held'[u] = held'[v] => u = v
      BY <2>2, <1>5 DEF IInv, OneWorkerPerItem
    <2> QED
      BY <2>3, <2>4 DEF OneWorkerPerItem
  <1>11. NoLostWakeup'
    <2> SUFFICES ASSUME Parked' # {}
                 PROVE  Len(queue') <= Cardinality(Woken')
      BY DEF NoLostWakeup
    <2>1. Parked # {}
      BY <1>1, <1>4 DEF Parked
    <2>2. Len(queue) <= Cardinality(Woken) /\ Len(queue) \in Nat
      BY <2>1, <1>1 DEF IInv, NoLostWakeup
    <2>3. CASE queue' = queue /\ pc' = idle
      <3>1. Woken' = Woken
        BY <2>3, <1>1 DEF Woken
      <3> QED
        BY <3>1, <2>2, <2>3
    <2>4. CASE /\ queue' = Append(queue, i)
               /\ Cardinality(Woken') = Cardinality(Woken) + 1
      <3>1. Len(queue') = Len(queue) + 1
        BY <2>4, <1>1
      <3> QED
        BY <3>1, <2>2, <2>4, WokenFinite
    <2> QED
      BY <2>3, <2>4, <1>4
  <1>12. NobodyParkedAfterShutDown'
    BY <1>1, <1>2, <1>4 DEF IInv, NobodyParkedAfterShutDown, Parked
  <1> QED
    BY <1>6, <1>7, <1>8, <1>9, <1>10, <1>11, <1>12 DEF IInv

\* ShutDown wakes everybody.
LEMMA ShutDownIInv ==
  ASSUME IInv, ShutDown
  PROVE  IInv'
  <1> USE DEF ShutDown, Broadcast
  <1>1. TypeOK'
    BY DEF IInv, TypeOK, Places
  <1>2. QueueSound' /\ NoLostAdd'
    BY DEF IInv, QueueSound, NoLostAdd, InQueue
  <1>3. \A v \in Workers : pc'[v] = "working" <=> pc[v] = "working"
    BY DEF IInv, TypeOK
  <1>4. (\A v \in Workers : pc[v] = "working" => held[v] \in Items)'
    BY <1>3 DEF IInv
  <1>5. OneWorkerPerItem'
    BY <1>3 DEF IInv, OneWorkerPerItem
  <1>6. Parked' = {}
    BY DEF Parked
  <1>7. NoLostWakeup' /\ NobodyParkedAfterShutDown'
    BY <1>6 DEF NoLostWakeup, NobodyParkedAfterShutDown
  <1> QED
    BY <1>1, <1>2, <1>4, <1>5, <1>7 DEF IInv

LEMMA NextIInv == IInv /\ [Next]_vars => IInv'
  <1> SUFFICES ASSUME IInv, [Next]_vars PROVE IInv'
    OBVIOUS
  <1>1. CASE UNCHANGED vars
    BY <1>1 DEF vars, IInv, TypeOK, QueueSound, NoLostAdd, InQueue,
                OneWorkerPerItem, NoLostWakeup, NobodyParkedAfterShutDown,
                Parked, Woken
  <1>2. ASSUME NEW i \in Items, Add(i) PROVE IInv'
    BY <1>1, <1>2, AddWhileProcessingIInv, AddToQueueIInv DEF Add, AddIgnored
  <1>3. ASSUME NEW w \in Workers, Get(w) PROVE IInv'
    BY <1>3, GetWaitIInv, GetShutdownIInv, GetItemIInv DEF Get
  <1>4. ASSUME NEW w \in Workers, Done(w) PROVE IInv'
    BY <1>4, DoneIInv
  <1>5. CASE ShutDown
    BY <1>5, ShutDownIInv
  <1> QED
    BY <1>1, <1>2, <1>3, <1>4, <1>5 DEF Next

\* The inductive invariant holds in every reachable state of the queue.
THEOREM InvariantHolds == Spec => []IInv
  <1>1. Init => IInv
    BY InitIInv
  <1>2. IInv /\ [Next]_vars => IInv'
    BY NextIInv
  <1> QED
    BY <1>1, <1>2, PTL DEF Spec

\* Type correctness of the queue's fields and of the worker table.
THEOREM TypeCorrect == Spec => []TypeOK
  <1>1. IInv => TypeOK
    BY DEF IInv
  <1> QED
    BY <1>1, InvariantHolds, PTL

\* Get never hands an item to two workers at a time, however Add, Get and
\* Done interleave: the mutual exclusion every controller's sync relies on.
THEOREM MutualExclusion == Spec => []OneWorkerPerItem
  <1>1. IInv => OneWorkerPerItem
    BY DEF IInv
  <1> QED
    BY <1>1, InvariantHolds, PTL

\* Add never drops a change: a dirty item is queued or is going to be queued
\* again by the Done that ends its current processing.
THEOREM AddsAreKept == Spec => []NoLostAdd
  <1>1. IInv => NoLostAdd
    BY DEF IInv
  <1> QED
    BY <1>1, InvariantHolds, PTL

\* One Signal per queued item is enough: no worker sleeps on a queue whose
\* items have nobody coming for them.
THEOREM WakeupsAreKept == Spec => []NoLostWakeup
  <1>1. IInv => NoLostWakeup
    BY DEF IInv
  <1> QED
    BY <1>1, InvariantHolds, PTL

-----------------------------------------------------------------------------
(* The refinement of WorkSet.                                              *)

Hands == [w \in Workers |-> IF pc[w] = "working" THEN held[w] ELSE None]
Exits == {w \in Workers : pc[w] = "exited"}

\* The abstract set of items in hand is the concrete set processing.
LEMMA HeldIsProcessing == IInv => Abs!Held = processing
  <1> SUFFICES ASSUME IInv PROVE Abs!Held = processing
    OBVIOUS
  <1>1. \A w \in Workers : /\ pc[w] = "working" => Hands[w] = held[w] /\ held[w] # None
                           /\ pc[w] # "working" => Hands[w] = None
    BY NoneIsNoItem DEF Hands, IInv
  <1>2. processing = {held[w] : w \in {v \in Workers : pc[v] = "working"}}
    BY DEF IInv, OneWorkerPerItem
  <1>3. Abs!Held = {Hands[w] : w \in Workers} \ {None}
    BY DEF Abs!Held, Hands
  <1> QED
    BY <1>1, <1>2, <1>3

\* A step that moves workers only among idle, parked and woken is invisible.
LEMMA MovesAreInvisible ==
  ASSUME \A w \in Workers : \/ pc'[w] = pc[w]
                            \/ /\ pc[w] \notin {"working", "exited"}
                               /\ pc'[w] \notin {"working", "exited"},
         held' = held
  PROVE  Hands' = Hands /\ Exits' = Exits
  BY DEF Hands, Exits

\* Every step of the queue is a step of the set, or changes nothing of it.
LEMMA StepRefines == IInv /\ [Next]_vars => [Abs!Next]_Abs!vars
  <1> SUFFICES ASSUME IInv, [Next]_vars PROVE [Abs!Next]_Abs!vars
    OBVIOUS
  <1> USE DEF Hands, Exits
  <1>0. pc \in [Workers -> Places] /\ held \in [Workers -> Items \cup {None}]
    BY DEF IInv, TypeOK
  <1>1. CASE UNCHANGED vars
    BY <1>1 DEF vars, Abs!vars
  <1>2. ASSUME NEW i \in Items, Add(i) PROVE [Abs!Next]_Abs!vars
    <2>1. CASE AddIgnored(i)
      BY <2>1, <1>1 DEF AddIgnored
    <2>2. CASE AddWhileProcessing(i)
      <3>1. Abs!Mark(i)
        BY <2>2 DEF AddWhileProcessing, Abs!Mark
      <3> QED BY <3>1 DEF Abs!Next
    <2>3. CASE AddToQueue(i)
      <3>1. \A w \in Workers : \/ pc'[w] = pc[w]
                               \/ pc[w] = "parked" /\ pc'[w] = "woken"
        <4>1. Signal(pc)
          BY <2>3 DEF AddToQueue
        <4> QED BY <4>1, <1>0, SignalEffect
      <3>2. Hands' = Hands /\ Exits' = Exits
        BY <3>1, <2>3, MovesAreInvisible DEF AddToQueue
      <3>3. Abs!Mark(i)
        BY <3>2, <2>3 DEF AddToQueue, Abs!Mark
      <3> QED BY <3>3 DEF Abs!Next
    <2> QED BY <2>1, <2>2, <2>3, <1>2 DEF Add
  <1>3. ASSUME NEW w \in Workers, Get(w) PROVE [Abs!Next]_Abs!vars
    <2>1. CASE GetWait(w)
      <3>1. Hands' = Hands /\ Exits' = Exits
        BY <2>1, <1>0 DEF GetWait, InGet
      <3> QED BY <3>1, <2>1 DEF GetWait, Abs!vars
    <2>2. CASE GetShutdown(w)
      <3>1. Hands' = Hands /\ Exits' = Exits \cup {w} /\ Hands[w] = None
        BY <2>2, <1>0 DEF GetShutdown, InGet
      <3>2. dirty \subseteq Abs!Held
        BY <2>2, HeldIsProcessing DEF GetShutdown, IInv, NoLostAdd, InQueue
      <3>3. Abs!Leave(w)
        BY <3>1, <3>2, <2>2 DEF GetShutdown, Abs!Leave
      <3> QED BY <3>3 DEF Abs!Next
    <2>3. CASE GetItem(w)
      <3>1. /\ Head(queue) \in Items
            /\ Head(queue) \in dirty /\ Head(queue) \notin processing
        <4>1. queue \in Seq(Items) /\ queue # <<>>
          BY <2>3 DEF IInv, TypeOK, GetItem
        <4>2. Head(queue) = queue[1] /\ 1 \in 1..Len(queue) /\ Head(queue) \in Items
          BY <4>1
        <4> QED BY <4>2 DEF IInv, QueueSound
      <3>2. PICK i \in Items : i = Head(queue)
        BY <3>1
      <3>3. /\ Hands' = [Hands EXCEPT ![w] = i]
            /\ Exits' = Exits /\ w \notin Exits /\ Hands[w] = None
        BY <3>2, <2>3, <1>0 DEF GetItem, InGet
      <3>4. Abs!Take(w, i)
        BY <3>1, <3>2, <3>3, <2>3, HeldIsProcessing DEF GetItem, Abs!Take
      <3> QED BY <3>4 DEF Abs!Next
    <2> QED BY <2>1, <2>2, <2>3, <1>3 DEF Get
  <1>4. ASSUME NEW w \in Workers, Done(w) PROVE [Abs!Next]_Abs!vars
    <2> DEFINE idle == [pc EXCEPT ![w] = "idle"]
    <2>1. idle \in [Workers -> Places]
      BY <1>0 DEF Places
    <2>2. \A v \in Workers : \/ pc'[v] = idle[v]
                             \/ idle[v] = "parked" /\ pc'[v] = "woken"
      <3>1. CASE Signal(idle)
        <4> HIDE DEF idle
        <4> QED BY <3>1, <2>1, SignalEffect
      <3>2. CASE pc' = idle
        BY <3>2
      <3> QED BY <3>1, <3>2, <1>4 DEF Done
    <2>3. pc[w] = "working" /\ held[w] \in Items /\ held' = [held EXCEPT ![w] = None]
      BY <1>4 DEF Done, IInv
    <2>4. \A v \in Workers : /\ pc'[v] = "working" <=> (v # w /\ pc[v] = "working")
                             /\ pc'[v] = "exited" <=> pc[v] = "exited"
      BY <2>2, <2>3, <1>0
    <2>5. Hands' = [Hands EXCEPT ![w] = None]
      BY <2>3, <2>4, <1>0
    <2>6. Exits' = Exits
      BY <2>4
    <2>7. Hands[w] # None
      BY <2>3, NoneIsNoItem
    <2>8. Abs!Finish(w)
      BY <2>5, <2>6, <2>7, <1>4 DEF Done, Abs!Finish
    <2> QED BY <2>8 DEF Abs!Next
  <1>5. CASE ShutDown
    <2>1. \A w \in Workers : \/ pc'[w] = pc[w]
                             \/ pc[w] = "parked" /\ pc'[w] = "woken"
      BY <1>5, <1>0 DEF ShutDown, Broadcast
    <2>2. Hands' = Hands /\ Exits' = Exits
      BY <2>1, <1>5, MovesAreInvisible DEF ShutDown
    <2>3. Abs!Close
      BY <2>2, <1>5 DEF ShutDown, Abs!Close
    <2> QED BY <2>3 DEF Abs!Next
  <1> QED
    BY <1>1, <1>2, <1>3, <1>4, <1>5 DEF Next

\* WorkQueue implements WorkSet for any items and workers: a controller may
\* be reasoned about as if keys were taken from, and put back into, a set.
THEOREM QueueImplementsSet == Spec => ImplementsWorkSet
  <1>1. Init => Abs!Init
    BY DEF Init, Abs!Init
  <1>2. IInv /\ [Next]_vars => [Abs!Next]_Abs!vars
    BY StepRefines
  <1> QED
    BY <1>1, <1>2, InvariantHolds, PTL DEF Spec, ImplementsWorkSet, Abs!Spec

-----------------------------------------------------------------------------
(* The delaying queue: types.                                              *)

LEMMA BoundsNat == Cap \in Nat \ {0} /\ MaxTime \in Nat /\ MaxIds \in Nat /\ Never = MaxTime + 1
  BY BoundsAreNaturals DEF Never

LEMMA EntryFields ==
  ASSUME NEW e \in Entry
  PROVE  /\ e.id \in 1..MaxIds /\ e.at \in 0..MaxTime /\ e.item \in Items
         /\ e.id \in Nat \ {0} /\ e.at \in Nat
  BY BoundsNat DEF Entry

\* What is recorded of an addition.
Record == [id : 1..MaxIds, at : 0..MaxTime, item : Items, time : 0..MaxTime]

LEMMA AddedFields ==
  ASSUME NEW e \in Entry, now \in 0..MaxTime
  PROVE  /\ Added(e) \in Record
         /\ Added(e).id = e.id /\ Added(e).at = e.at /\ Added(e).time = now
  BY DEF Added, Entry, Record

LEMMA PutTypes ==
  ASSUME NEW e \in Entry, now \in 0..MaxTime, added \subseteq Record, Put(e)
  PROVE  added' \subseteq Record
  BY AddedFields DEF Put

LEMMA HeadAndTail ==
  ASSUME NEW S, NEW s \in Seq(S), s # <<>>
  PROVE  Head(s) \in S /\ Tail(s) \in Seq(S) /\ Len(Tail(s)) <= Len(s)
  OBVIOUS

LEMMA LoopTypeInit == DelayInit => LoopTypeOK
  <1>. SUFFICES ASSUME DelayInit PROVE LoopTypeOK
    OBVIOUS
  <1>1. 0 \in 0..MaxTime /\ 0 \in 0..MaxIds /\ Never \in 0..Never /\ 0 <= Cap
    BY BoundsNat
  <1>2. now \in 0..MaxTime /\ loopNow \in 0..MaxTime /\ ids \in 0..MaxIds /\ nextReadyAt \in 0..Never
    BY <1>1 DEF DelayInit
  <1>3. /\ waitingForAddCh \in Seq(Entry) /\ Len(waitingForAddCh) <= Cap
        /\ waitingForAdd \in Seq(Entry)
    BY <1>1 DEF DelayInit
  <1>4. stopped \in BOOLEAN /\ beat \in BOOLEAN /\ loop \in {"top", "add", "select", "drain", "exited"}
    BY DEF DelayInit
  <1>5. caller \in [Callers -> Entry \cup {NoEntry}]
    BY DEF DelayInit
  <1>6. added = {}
    BY DEF DelayInit
  <1>. QED  BY <1>2, <1>3, <1>4, <1>5, <1>6 DEF LoopTypeOK

LEMMA AddAfterTypes ==
  ASSUME LoopTypeOK, NEW c \in Callers, NEW i \in Items, NEW d \in 0..MaxTime, AddAfter(c, i, d)
  PROVE  LoopTypeOK'
  <1>. DEFINE e == [id |-> ids + 1, at |-> now + d, item |-> i]
  <1>1. /\ ids < MaxIds /\ now + d <= MaxTime /\ ids' = ids + 1
        /\ \/ Put(e) /\ UNCHANGED caller
           \/ caller' = [caller EXCEPT ![c] = e] /\ UNCHANGED added
        /\ UNCHANGED <<now, beat, waitingForAddCh, waitingForAdd, stopped, loop, loopNow, nextReadyAt>>
    BY DEF AddAfter
  <1>2. ids + 1 \in 1..MaxIds /\ now + d \in 0..MaxTime /\ ids' \in 0..MaxIds
    BY <1>1, BoundsNat DEF LoopTypeOK
  <1>3. e \in Entry
    BY <1>2 DEF Entry
  <1>4. caller' \in [Callers -> Entry \cup {NoEntry}]
    BY <1>1, <1>3 DEF LoopTypeOK
  <1>5. added' \subseteq Record
    BY <1>1, <1>3, PutTypes DEF LoopTypeOK, Record
  <1>. QED  BY <1>1, <1>2, <1>4, <1>5 DEF LoopTypeOK, Record, NoEntry

\* The timer is set for a time to come.
LEMMA SetTimerTypes ==
  ASSUME LoopTypeOK, SetTimer
  PROVE  LoopTypeOK'
  <1>1. nextReadyAt' \in 0..Never
    <2>1. CASE waitingForAdd = <<>>
      <3>1. nextReadyAt' = Never
        BY <2>1 DEF SetTimer
      <3>. QED  BY <3>1, BoundsNat
    <2>2. CASE waitingForAdd # <<>>
      <3>. DEFINE at == Head(waitingForAdd).at
                  fires == now + (at - loopNow)
      <3>1. Head(waitingForAdd) \in Entry
        BY <2>2 DEF LoopTypeOK
      <3>2. at \in Nat /\ now \in Nat /\ loopNow \in Nat
        BY <3>1, EntryFields, BoundsNat DEF LoopTypeOK
      <3>3. ~(at <= loopNow)
        BY <2>2 DEF SetTimer, HeadIsReady
      <3>4. \/ fires <= MaxTime /\ nextReadyAt' = fires
            \/ fires > MaxTime  /\ nextReadyAt' = MaxTime
        <4>1. fires <= MaxTime \/ fires > MaxTime
          BY <3>2, BoundsNat
        <4>2. nextReadyAt' = CASE waitingForAdd = <<>> -> Never
                               [] waitingForAdd # <<>> /\ fires <= MaxTime -> fires
                               [] waitingForAdd # <<>> /\ fires > MaxTime  -> MaxTime
          BY DEF SetTimer
        <4>3. ~(fires <= MaxTime /\ fires > MaxTime)
          BY <3>2, BoundsNat
        <4>. HIDE DEF fires
        <4>. QED  BY <2>2, <4>1, <4>2, <4>3
      <3>. HIDE DEF at
      <3>. QED  BY <3>2, <3>3, <3>4, BoundsNat
    <2>. QED  BY <2>1, <2>2
  <1>2. UNCHANGED <<now, beat, waitingForAddCh, waitingForAdd, stopped, caller, ids, added>>
        /\ loop' = "select" /\ loopNow' = 0
    BY DEF SetTimer
  <1>3. 0 \in 0..MaxTime
    BY BoundsNat
  <1>. QED  BY <1>1, <1>2, <1>3 DEF LoopTypeOK, NoEntry
-----------------------------------------------------------------------------
(* Lists of entries.                                                       *)

\* What a concatenation has at each place.
LEMMA ConcatOK ==
  ASSUME NEW S, NEW u \in Seq(S), NEW w \in Seq(S)
  PROVE  /\ (u \o w) \in Seq(S) /\ Len(u \o w) = Len(u) + Len(w)
         /\ \A i \in 1..Len(u) : (u \o w)[i] = u[i]
         /\ \A i \in 1..Len(w) : (u \o w)[Len(u) + i] = w[i]
  <1>. DEFINE t == u \o w
  <1>1. Len(u) \in Nat /\ Len(w) \in Nat
    OBVIOUS
  <1>2. t \in Seq(S) /\ Len(t) = Len(u) + Len(w)
    OBVIOUS
  <1>3. ASSUME NEW i \in 1..Len(w)
        PROVE  t[Len(u) + i] = w[i]
    <2>1. Len(u) + i \in 1..(Len(u) + Len(w)) /\ ~(Len(u) + i <= Len(u)) /\ (Len(u) + i) - Len(u) = i
      BY <1>1
    <2>. QED  BY <1>1, <2>1
  <1>. QED  BY <1>1, <1>2, <1>3

\* The numbers up to n.
LEMMA CountTo ==
  ASSUME NEW n \in Nat
  PROVE  IsFiniteSet(1..n) /\ Cardinality(1..n) = n
  <1>1. IsFiniteSet(1..n) /\ Cardinality(1..n) = IF 1 > n THEN 0 ELSE n - 1 + 1
    BY FS_Interval
  <1>. QED  BY <1>1

\* The sequence s with e behind its first n elements.
PutAt(s, n, e) == (SubSeq(s, 1, n) \o <<e>>) \o SubSeq(s, n + 1, Len(s))

\* Putting an element into a sequence leaves the others in their order.
LEMMA PutOK ==
  ASSUME NEW S, NEW s \in Seq(S), NEW e \in S, NEW n \in 0..Len(s)
  PROVE  /\ PutAt(s, n, e) \in Seq(S) /\ Len(PutAt(s, n, e)) = Len(s) + 1
         /\ PutAt(s, n, e)[n + 1] = e
         /\ \A i \in 1..n : PutAt(s, n, e)[i] = s[i]
         /\ \A i \in (n + 1)..Len(s) : PutAt(s, n, e)[i + 1] = s[i]
  <1>. DEFINE t == PutAt(s, n, e)
  <1>0. Len(s) \in Nat /\ n \in Nat /\ n <= Len(s)
    OBVIOUS
  <1>. DEFINE a == SubSeq(s, 1, n)
              b == SubSeq(s, n + 1, Len(s))
  <1>1. a \in Seq(S) /\ Len(a) = n /\ \A i \in 1..n : a[i] = s[i]
    BY <1>0
  <1>2. b \in Seq(S) /\ Len(b) = Len(s) - n /\ \A i \in 1..(Len(s) - n) : b[i] = s[n + i]
    BY <1>0
  <1>. HIDE DEF a, b
  <1>3. <<e>> \in Seq(S) /\ Len(<<e>>) = 1 /\ <<e>>[1] = e
    OBVIOUS
  <1>. DEFINE ae == a \o <<e>>
  <1>4. ae \in Seq(S) /\ Len(ae) = n + 1 /\ ae[n + 1] = e /\ \A i \in 1..n : ae[i] = s[i]
    <2>1. /\ ae \in Seq(S) /\ Len(ae) = Len(a) + Len(<<e>>)
          /\ \A i \in 1..Len(a) : ae[i] = a[i]
          /\ \A i \in 1..Len(<<e>>) : ae[Len(a) + i] = <<e>>[i]
      BY <1>1, <1>3, ConcatOK
    <2>. QED  BY <1>0, <1>1, <1>3, <2>1
  <1>. HIDE DEF ae
  <1>5. t = ae \o b
    BY DEF ae, a, b, PutAt
  <1>6. /\ t \in Seq(S) /\ Len(t) = Len(s) + 1
        /\ \A i \in 1..(n + 1) : t[i] = ae[i]
        /\ \A i \in 1..(Len(s) - n) : t[n + 1 + i] = b[i]
    <2>1. /\ t \in Seq(S) /\ Len(t) = Len(ae) + Len(b)
          /\ \A i \in 1..Len(ae) : t[i] = ae[i]
          /\ \A i \in 1..Len(b) : t[Len(ae) + i] = b[i]
      <3>. DEFINE q == ae \o b
      <3>1. t = q
        BY <1>5
      <3>2. /\ q \in Seq(S) /\ Len(q) = Len(ae) + Len(b)
            /\ \A i \in 1..Len(ae) : q[i] = ae[i]
            /\ \A i \in 1..Len(b) : q[Len(ae) + i] = b[i]
        <4>1. ae \in Seq(S) /\ b \in Seq(S)
          BY <1>2, <1>4
        <4>. QED  BY <4>1, ConcatOK
      <3>. HIDE DEF q
      <3>. QED  BY <3>1, <3>2
    <2>2. Len(ae) + Len(b) = Len(s) + 1
      BY <1>0, <1>2, <1>4
    <2>. QED  BY <1>2, <1>4, <2>1, <2>2
  <1>7. ASSUME NEW i \in (n + 1)..Len(s)
        PROVE  t[i + 1] = s[i]
    <2>1. i - n \in 1..(Len(s) - n) /\ n + 1 + (i - n) = i + 1 /\ n + (i - n) = i
      BY <1>0
    <2>2. t[n + 1 + (i - n)] = b[i - n] /\ b[i - n] = s[n + (i - n)]
      BY <1>2, <1>6, <2>1
    <2>. QED  BY <2>1, <2>2
  <1>8. t[n + 1] = e /\ \A i \in 1..n : t[i] = s[i]
    <2>1. n + 1 \in 1..(n + 1) /\ \A i \in 1..n : i \in 1..(n + 1)
      BY <1>0
    <2>. QED  BY <1>4, <1>6, <2>1
  <1>. QED  BY <1>6, <1>7, <1>8

\* A set of positions that has, with each, the ones before it is a beginning,
\* as long as it has elements.
LEMMA CountsPrefix ==
  ASSUME NEW N \in Nat, NEW R, R \subseteq 1..N, \A i \in R : \A k \in 1..i : k \in R
  PROVE  /\ Cardinality(R) \in 0..N
         /\ \A i \in 1..N : i \in R <=> i <= Cardinality(R)
  <1>3. IsFiniteSet(1..N) /\ Cardinality(1..N) = N
    BY CountTo
  <1>4. IsFiniteSet(R) /\ Cardinality(R) <= N
    <2>1. IsFiniteSet(R) /\ Cardinality(R) <= Cardinality(1..N)
      BY <1>3, FS_Subset, Zenon
    <2>. QED  BY <1>3, <2>1
  <1>5. Cardinality(R) \in Nat
    BY <1>4, FS_CardinalityType
  <1>7. ASSUME NEW i \in 1..N
        PROVE  i \in R <=> i <= Cardinality(R)
    <2>1. CASE i \in R
      <3>1. 1..i \subseteq R
        BY <2>1
      <3>2. IsFiniteSet(1..i) /\ Cardinality(1..i) = i
        BY CountTo
      <3>3. i <= Cardinality(R)
        BY <1>4, <3>1, <3>2, FS_Subset
      <3>. QED  BY <2>1, <3>3
    <2>2. CASE i \notin R
      <3>1. R \subseteq 1..(i - 1)
        <4>. SUFFICES ASSUME NEW k \in R PROVE k \in 1..(i - 1)
          OBVIOUS
        <4>1. k \in 1..N
          OBVIOUS
        <4>2. ~(i <= k)
          BY <2>2, <4>1
        <4>. QED  BY <4>1, <4>2
      <3>2. i - 1 \in Nat /\ IsFiniteSet(1..(i - 1)) /\ Cardinality(1..(i - 1)) = i - 1
        <4>1. i - 1 \in Nat
          OBVIOUS
        <4>. QED  BY <4>1, CountTo
      <3>3. Cardinality(R) <= i - 1
        <4>1. Cardinality(R) <= Cardinality(1..(i - 1))
          BY <3>1, <3>2, FS_Subset, Zenon
        <4>. QED  BY <3>2, <4>1
      <3>. QED  BY <1>5, <2>2, <3>2, <3>3
    <2>. QED  BY <2>1, <2>2
  <1>8. Cardinality(R) \in 0..N
    BY <1>4, <1>5
  <1>. QED  BY <1>7, <1>8

\* The number of entries of s that are not due after e.
NotAfter(s, e) == Cardinality({i \in DOMAIN s : s[i].at <= e.at})

\* t is s with e behind its first n entries.
PutBehind(s, e, t, n) ==
    /\ n \in 0..Len(s)
    /\ t \in Seq(Entry) /\ Len(t) = Len(s) + 1
    /\ t[n + 1] = e
    /\ \A i \in 1..n : t[i] = s[i]
    /\ \A i \in (n + 1)..Len(s) : t[i + 1] = s[i]

\* Where the entries of t come from.
ComesFrom(s, e, t, n) ==
    \A i \in 1..Len(t) :
        \/ i = n + 1 /\ t[i] = e
        \/ \E k \in 1..Len(s) : t[i] = s[k] /\ ((k = i /\ i <= n) \/ (k = i - 1 /\ i >= n + 2))

\* insert puts the new entry behind that many.
LEMMA InsertShape ==
  ASSUME NEW s \in Seq(Entry), NEW e \in Entry, NEW t, t = insert(s, e), NEW n, n = NotAfter(s, e)
  PROVE  PutBehind(s, e, t, n) /\ ComesFrom(s, e, t, n)
  <1>1. Len(s) \in Nat /\ DOMAIN s = 1..Len(s)
    OBVIOUS
  <1>2. IsFiniteSet(1..Len(s)) /\ Cardinality(1..Len(s)) = Len(s)
    BY <1>1, CountTo
  <1>3. n \in 0..Len(s)
    <2>. DEFINE P == {i \in DOMAIN s : s[i].at <= e.at}
    <2>1. P \subseteq 1..Len(s)
      BY <1>1
    <2>2. IsFiniteSet(P) /\ Cardinality(P) <= Len(s)
      BY <1>2, <2>1, FS_Subset
    <2>3. Cardinality(P) \in Nat
      BY <2>2, FS_CardinalityType
    <2>4. n = Cardinality(P)
      BY DEF NotAfter
    <2>. QED  BY <1>1, <2>2, <2>3, <2>4
  <1>4. t = PutAt(s, n, e)
    BY DEF insert, PutAt, NotAfter
  <1>5. /\ t \in Seq(Entry) /\ Len(t) = Len(s) + 1
        /\ t[n + 1] = e
        /\ \A i \in 1..n : t[i] = s[i]
        /\ \A i \in (n + 1)..Len(s) : t[i + 1] = s[i]
    <2>. DEFINE q == PutAt(s, n, e)
    <2>1. q \in Seq(Entry)
      BY <1>3, PutOK
    <2>2. Len(q) = Len(s) + 1
      BY <1>3, PutOK
    <2>3. q[n + 1] = e
      BY <1>3, PutOK
    <2>4. \A i \in 1..n : q[i] = s[i]
      BY <1>3, PutOK
    <2>5. \A i \in (n + 1)..Len(s) : q[i + 1] = s[i]
      BY <1>3, PutOK
    <2>. HIDE DEF q
    <2>6. t = q
      BY <1>4 DEF q
    <2>. QED  BY <2>1, <2>2, <2>3, <2>4, <2>5, <2>6
  <1>6. ASSUME NEW i \in 1..Len(t), i # n + 1
        PROVE  \E k \in 1..Len(s) : t[i] = s[k] /\ ((k = i /\ i <= n) \/ (k = i - 1 /\ i >= n + 2))
    <2>1. CASE i <= n
      <3>1. i \in 1..n /\ i \in 1..Len(s)
        BY <1>1, <1>3, <2>1
      <3>. QED  BY <1>5, <2>1, <3>1
    <2>2. CASE ~(i <= n)
      <3>1. i >= n + 2 /\ i - 1 \in 1..Len(s) /\ i - 1 \in (n + 1)..Len(s) /\ (i - 1) + 1 = i
        BY <1>1, <1>3, <1>5, <1>6, <2>2
      <3>2. PICK k \in 1..Len(s) : k = i - 1
        BY <3>1
      <3>3. t[i] = s[k]
        BY <1>5, <3>1, <3>2
      <3>. QED  BY <3>1, <3>2, <3>3
    <2>. QED  BY <2>1, <2>2
  <1>7. PutBehind(s, e, t, n)
    BY <1>3, <1>5 DEF PutBehind
  <1>8. ComesFrom(s, e, t, n)
    BY <1>5, <1>6 DEF ComesFrom
  <1>. QED  BY <1>7, <1>8

\* The entry of call m is in s.
HasId(s, m) == \E i \in 1..Len(s) : s[i].id = m

\* No entry is in s twice.
OnceEach(s) == \A i, j \in 1..Len(s) : s[i].id = s[j].id => i = j

\* The entries of s are sorted by the time they are due.
InOrder(s) == \A i, j \in 1..Len(s) : i < j => s[i].at <= s[j].at

\* insert keeps every entry, once, and puts the new one among them.
LEMMA ListInsert ==
  ASSUME NEW s \in Seq(Entry), NEW e \in Entry, NEW t, t = insert(s, e),
         ~HasId(s, e.id), OnceEach(s)
  PROVE  /\ t \in Seq(Entry)
         /\ \A m : HasId(t, m) <=> m = e.id \/ HasId(s, m)
         /\ OnceEach(t)
  <1>0. /\ \A i \in 1..Len(s) : s[i].id # e.id
        /\ \A i, j \in 1..Len(s) : s[i].id = s[j].id => i = j
    BY DEF HasId, OnceEach
  <1>1. Len(s) \in Nat /\ DOMAIN s = 1..Len(s)
    OBVIOUS
  <1>. DEFINE n == NotAfter(s, e)
  <1>2. PutBehind(s, e, t, n) /\ ComesFrom(s, e, t, n)
    BY InsertShape
  <1>. HIDE DEF n
  <1>3. n \in 0..Len(s)
    BY <1>2 DEF PutBehind
  <1>5. /\ t \in Seq(Entry) /\ Len(t) = Len(s) + 1
        /\ t[n + 1] = e
        /\ \A i \in 1..n : t[i] = s[i]
        /\ \A i \in (n + 1)..Len(s) : t[i + 1] = s[i]
    BY <1>2 DEF PutBehind
  <1>6. \A i \in 1..Len(t) :
          \/ i = n + 1 /\ t[i] = e
          \/ \E k \in 1..Len(s) : t[i] = s[k] /\ ((k = i /\ i <= n) \/ (k = i - 1 /\ i >= n + 2))
    BY <1>2 DEF ComesFrom
  <1>7. \A m : (\E i \in 1..Len(t) : t[i].id = m) <=> (m = e.id \/ \E i \in 1..Len(s) : s[i].id = m)
    <2>. TAKE m
    <2>1. ASSUME NEW i \in 1..Len(t), t[i].id = m
          PROVE  m = e.id \/ \E k \in 1..Len(s) : s[k].id = m
      BY <1>6, <2>1
    <2>2. CASE m = e.id
      <3>1. n + 1 \in 1..Len(t)
        BY <1>1, <1>3, <1>5
      <3>. QED  BY <1>5, <2>2, <3>1
    <2>3. ASSUME NEW i \in 1..Len(s), s[i].id = m
          PROVE  \E k \in 1..Len(t) : t[k].id = m
      <3>1. CASE i \in 1..n
        <4>1. i \in 1..Len(t)
          BY <1>1, <1>5
        <4>. QED  BY <1>5, <2>3, <3>1, <4>1
      <3>2. CASE i \in (n + 1)..Len(s)
        <4>1. i + 1 \in 1..Len(t)
          BY <1>1, <1>5
        <4>. QED  BY <1>5, <2>3, <3>2, <4>1
      <3>. QED  BY <1>1, <1>3, <3>1, <3>2
    <2>. QED  BY <2>1, <2>2, <2>3
  <1>8. ASSUME NEW i \in 1..Len(t), NEW j \in 1..Len(t), t[i].id = t[j].id
        PROVE  i = j
    <2>1. \A l \in 1..Len(t) : t[l].id = e.id => l = n + 1
      BY <1>0, <1>6
    <2>2. CASE i = n + 1 \/ j = n + 1
      BY <1>5, <1>8, <2>1, <2>2
    <2>3. CASE i # n + 1 /\ j # n + 1
      <3>1. PICK k \in 1..Len(s) : t[i] = s[k] /\ ((k = i /\ i <= n) \/ (k = i - 1 /\ i >= n + 2))
        BY <1>6, <2>3, Zenon
      <3>2. PICK l \in 1..Len(s) : t[j] = s[l] /\ ((l = j /\ j <= n) \/ (l = j - 1 /\ j >= n + 2))
        BY <1>6, <2>3, Zenon
      <3>3. k = l
        BY <1>0, <1>8, <3>1, <3>2
      <3>. QED  BY <1>1, <1>3, <3>1, <3>2, <3>3
    <2>. QED  BY <2>2, <2>3
  <1>9. t \in Seq(Entry)
    BY <1>5
  <1>10. \A m : HasId(t, m) <=> m = e.id \/ HasId(s, m)
    BY <1>7 DEF HasId
  <1>11. OnceEach(t)
    BY <1>8 DEF OnceEach
  <1>. QED  BY <1>9, <1>10, <1>11

\* insert keeps a sorted list sorted.
LEMMA SortedInsert ==
  ASSUME NEW s \in Seq(Entry), NEW e \in Entry, NEW t, t = insert(s, e), InOrder(s)
  PROVE  InOrder(t)
  <1>. DEFINE n == NotAfter(s, e)
              R == {i \in DOMAIN s : s[i].at <= e.at}
  <1>1. Len(s) \in Nat /\ DOMAIN s = 1..Len(s) /\ e.at \in Nat
    BY EntryFields
  <1>2. \A i \in 1..Len(s) : s[i].at \in Nat
    <2>1. \A i \in 1..Len(s) : s[i] \in Entry
      OBVIOUS
    <2>. QED  BY <2>1, EntryFields
  <1>3. \A i \in R : \A k \in 1..i : k \in R
    <2>. SUFFICES ASSUME NEW i \in R, NEW k \in 1..i PROVE k \in R
      OBVIOUS
    <2>1. i \in 1..Len(s) /\ k \in 1..Len(s)
      BY <1>1
    <2>2. s[k].at <= s[i].at
      BY <1>2, <2>1 DEF InOrder
    <2>. QED  BY <1>1, <1>2, <2>1, <2>2
  <1>4. \A i \in 1..Len(s) : s[i].at <= e.at <=> i <= n
    <2>1. R \subseteq 1..Len(s)
      BY <1>1
    <2>. HIDE DEF R
    <2>2. \A i \in 1..Len(s) : i \in R <=> i <= Cardinality(R)
      BY <1>1, <1>3, <2>1, CountsPrefix
    <2>. QED  BY <1>1, <2>2 DEF R, NotAfter
  <1>0. PutBehind(s, e, t, n) /\ ComesFrom(s, e, t, n)
    BY InsertShape
  <1>. HIDE DEF n, R
  <1>5. n \in 0..Len(s) /\ Len(t) = Len(s) + 1
    BY <1>0 DEF PutBehind
  <1>6. \A i \in 1..Len(t) :
          \/ i = n + 1 /\ t[i] = e
          \/ \E k \in 1..Len(s) : t[i] = s[k] /\ ((k = i /\ i <= n) \/ (k = i - 1 /\ i >= n + 2))
    BY <1>0 DEF ComesFrom
  <1>. SUFFICES ASSUME NEW i \in 1..Len(t), NEW j \in 1..Len(t), i < j
                PROVE  t[i].at <= t[j].at
    BY DEF InOrder
  <1>7. CASE i = n + 1
    <2>1. t[i] = e /\ j # n + 1 /\ ~(j <= n)
      BY <1>1, <1>5, <1>6, <1>7
    <2>2. PICK l \in 1..Len(s) : t[j] = s[l] /\ ((l = j /\ j <= n) \/ (l = j - 1 /\ j >= n + 2))
      BY <1>6, <2>1, Zenon
    <2>3. ~(l <= n)
      BY <1>1, <1>5, <2>1, <2>2
    <2>. QED  BY <1>1, <1>2, <1>4, <2>1, <2>2, <2>3
  <1>8. CASE j = n + 1
    <2>1. t[j] = e /\ i # n + 1 /\ i <= n
      BY <1>1, <1>5, <1>6, <1>8
    <2>2. PICK k \in 1..Len(s) : t[i] = s[k] /\ ((k = i /\ i <= n) \/ (k = i - 1 /\ i >= n + 2))
      BY <1>6, <2>1, Zenon
    <2>3. k <= n
      BY <1>1, <1>5, <2>1, <2>2
    <2>. QED  BY <1>4, <2>1, <2>2, <2>3
  <1>9. CASE i # n + 1 /\ j # n + 1
    <2>1. PICK k \in 1..Len(s) : t[i] = s[k] /\ ((k = i /\ i <= n) \/ (k = i - 1 /\ i >= n + 2))
      BY <1>6, <1>9, Zenon
    <2>2. PICK l \in 1..Len(s) : t[j] = s[l] /\ ((l = j /\ j <= n) \/ (l = j - 1 /\ j >= n + 2))
      BY <1>6, <1>9, Zenon
    <2>3. k < l
      <3>1. n \in Nat /\ i \in Nat /\ j \in Nat /\ k \in Nat /\ l \in Nat /\ i < j
        BY <1>1, <1>5
      <3>2. (k = i /\ i <= n) \/ (k = i - 1 /\ i >= n + 2)
        BY <2>1
      <3>3. (l = j /\ j <= n) \/ (l = j - 1 /\ j >= n + 2)
        BY <2>2
      <3>. QED  BY <3>1, <3>2, <3>3
    <2>. QED  BY <2>1, <2>2, <2>3 DEF InOrder
  <1>. QED  BY <1>7, <1>8, <1>9

-----------------------------------------------------------------------------
(* The delaying queue: its inductive invariant.                            *)

\* Where the entry of call n can be.
AtCaller(n)  == \E c \in Callers : caller[c].id = n
InChannel(n) == \E i \in 1..Len(waitingForAddCh) : waitingForAddCh[i].id = n
InList(n)    == \E i \in 1..Len(waitingForAdd) : waitingForAdd[i].id = n
IsAdded(n)   == \E a \in added : a.id = n

\* An entry is one of the calls so far, and in one place at a time.
OnePlace ==
    \A n \in Nat \ {0} :
        /\ AtCaller(n) \/ InChannel(n) \/ InList(n) \/ IsAdded(n) => n <= ids
        /\ ~(AtCaller(n) /\ (InChannel(n) \/ InList(n) \/ IsAdded(n)))
        /\ ~(InChannel(n) /\ (InList(n) \/ IsAdded(n)))
        /\ ~(InList(n) /\ IsAdded(n))

\* It is there once.
ThereOnce ==
    /\ \A c, d \in Callers : caller[c].id = caller[d].id /\ caller[c] # NoEntry => c = d
    /\ OnceEach(waitingForAddCh)
    /\ OnceEach(waitingForAdd)

\* And until shutdown it is somewhere.
SomePlace ==
    /\ stopped => shuttingDown
    /\ shuttingDown \/ \A n \in 1..ids : AtCaller(n) \/ InChannel(n) \/ InList(n) \/ IsAdded(n)

\* The time the loop has read is not in the future.
ReadBefore == loopNow <= now

DelayInv ==
    /\ LoopTypeOK
    /\ ReadBefore
    /\ OnePlace
    /\ ThereOnce
    /\ SomePlace
    /\ AddedOnTime
    /\ InOrder(waitingForAdd)

LEMMA TypeFacts ==
  ASSUME LoopTypeOK
  PROVE  /\ now \in Nat /\ now \in 0..MaxTime /\ ids \in Nat
         /\ waitingForAddCh \in Seq(Entry) /\ waitingForAdd \in Seq(Entry)
         /\ caller \in [Callers -> Entry \cup {NoEntry}]
         /\ added \subseteq Record
  BY BoundsNat DEF LoopTypeOK, Record

\* Add of the queue inside: an entry that is due, and was not added yet, is
\* added, unless the queue shuts down.
LEMMA PutKeeps ==
  ASSUME LoopTypeOK, AddedOnTime, NEW e \in Entry, Put(e), e.at <= now, ~IsAdded(e.id)
  PROVE  /\ AddedOnTime'
         /\ added' \subseteq Record
         /\ \A n : IsAdded(n)' <=> IsAdded(n) \/ (~shuttingDown /\ n = e.id)
  <1>1. now \in 0..MaxTime /\ added \subseteq Record
    BY TypeFacts
  <1>2. CASE shuttingDown
    <2>1. added' = added
      BY <1>2 DEF Put
    <2>. QED  BY <1>1, <1>2, <2>1 DEF AddedOnTime, IsAdded
  <1>3. CASE ~shuttingDown
    <2>. DEFINE r == Added(e)
    <2>1. added' = added \cup {r}
      BY <1>3 DEF Put
    <2>2. r \in Record /\ r.id = e.id /\ r.at = e.at /\ r.time = now
      BY <1>1, AddedFields
    <2>. HIDE DEF r
    <2>3. added' \subseteq Record
      BY <1>1, <2>1, <2>2
    <2>4. \A n : IsAdded(n)' <=> IsAdded(n) \/ n = e.id
      BY <2>1, <2>2 DEF IsAdded
    <2>5. \A a \in added : a.id # r.id
      BY <2>2 DEF IsAdded
    <2>6. r.time >= r.at
      BY <1>1, <2>2, EntryFields, BoundsNat
    <2>7. AddedOnTime'
      BY <2>1, <2>5, <2>6 DEF AddedOnTime
    <2>. QED  BY <1>3, <2>3, <2>4, <2>7
  <1>. QED  BY <1>2, <1>3

\* Nobody has an entry to begin with.
LEMMA DelayInitInv == DelayInit => DelayInv
  <1>. SUFFICES ASSUME DelayInit PROVE DelayInv
    OBVIOUS
  <1>0. /\ waitingForAddCh = <<>> /\ waitingForAdd = <<>> /\ added = {} /\ ids = 0 /\ stopped = FALSE
        /\ now = 0 /\ loopNow = 0
        /\ caller = [c \in Callers |-> NoEntry]
    BY DEF DelayInit
  <1>1. \A n \in Nat \ {0} : ~AtCaller(n) /\ ~InChannel(n) /\ ~InList(n) /\ ~IsAdded(n)
    BY <1>0 DEF AtCaller, InChannel, InList, IsAdded, NoEntry
  <1>2. LoopTypeOK
    BY LoopTypeInit
  <1>3. OnePlace
    BY <1>1 DEF OnePlace
  <1>4. ThereOnce
    BY <1>0 DEF ThereOnce, OnceEach
  <1>5. SomePlace
    BY <1>0 DEF SomePlace
  <1>6. AddedOnTime /\ InOrder(waitingForAdd) /\ ReadBefore
    BY <1>0 DEF AddedOnTime, InOrder, ReadBefore
  <1>. QED  BY <1>2, <1>3, <1>4, <1>5, <1>6 DEF DelayInv

\* Steps that move no entry.
LEMMA NothingMoves ==
  ASSUME DelayInv, UNCHANGED <<waitingForAddCh, waitingForAdd, caller, ids, added>>,
         LoopTypeOK', ReadBefore', shuttingDown => shuttingDown', stopped' => shuttingDown'
  PROVE  DelayInv'
  <1>1. \A n : /\ AtCaller(n)' = AtCaller(n) /\ InChannel(n)' = InChannel(n)
               /\ InList(n)' = InList(n) /\ IsAdded(n)' = IsAdded(n)
    BY DEF AtCaller, InChannel, InList, IsAdded
  <1>3. OnePlace'
    BY <1>1 DEF DelayInv, OnePlace
  <1>4. ThereOnce'
    BY DEF DelayInv, ThereOnce, OnceEach, NoEntry
  <1>5. SomePlace'
    BY <1>1 DEF DelayInv, SomePlace
  <1>6. AddedOnTime' /\ InOrder(waitingForAdd)'
    BY DEF DelayInv, AddedOnTime, InOrder
  <1>. QED  BY <1>3, <1>4, <1>5, <1>6 DEF DelayInv

\* AddAfter: the entry is a new one.
LEMMA AddAfterKeeps ==
  ASSUME DelayInv, NEW c \in Callers, NEW i \in Items, NEW d \in 0..MaxTime, AddAfter(c, i, d)
  PROVE  DelayInv'
  <1>. DEFINE e == [id |-> ids + 1, at |-> now + d, item |-> i]
  <1>t. LoopTypeOK /\ LoopTypeOK'
    BY AddAfterTypes DEF DelayInv
  <1>0. now \in Nat /\ ids \in Nat /\ d \in Nat /\ caller \in [Callers -> Entry \cup {NoEntry}]
    BY <1>t, TypeFacts, BoundsNat
  <1>2. /\ caller[c] = NoEntry /\ ~shuttingDown /\ ids' = ids + 1
        /\ ids < MaxIds /\ now + d <= MaxTime
        /\ \/ d = 0 /\ Put(e) /\ shuttingDown' = shuttingDown /\ UNCHANGED caller
           \/ d > 0 /\ caller' = [caller EXCEPT ![c] = e] /\ UNCHANGED <<shuttingDown, added>>
        /\ UNCHANGED <<now, waitingForAddCh, waitingForAdd, stopped, loopNow>>
    BY DEF AddAfter, Put, Add, AddIgnored, AddWhileProcessing, AddToQueue, vars
  <1>1. e \in Entry /\ e.id = ids + 1 /\ e.at = now + d
    BY <1>0, <1>2, BoundsNat DEF Entry
  <1>3. ~AtCaller(e.id) /\ ~InChannel(e.id) /\ ~InList(e.id) /\ ~IsAdded(e.id)
    BY <1>0, <1>1 DEF DelayInv, OnePlace
  <1>. HIDE DEF e
  <1>4. \A n : InChannel(n)' = InChannel(n) /\ InList(n)' = InList(n)
    BY <1>2 DEF InChannel, InList
  <1>5. \A n \in Nat \ {0} : n <= ids => n <= ids' /\ n # e.id
    BY <1>0, <1>1, <1>2
  <1>6. e.id \in Nat \ {0} /\ e.id <= ids' /\ ids' \in Nat
    BY <1>0, <1>1, <1>2
  <1>7. \A n \in 1..ids' : n \in 1..ids \/ n = e.id
    BY <1>0, <1>1, <1>2
  <1>s. InOrder(waitingForAdd)' /\ ReadBefore'
    BY <1>2 DEF DelayInv, InOrder, ReadBefore
  <1>8. CASE d = 0 /\ Put(e) /\ UNCHANGED caller
    <2>1. e.at <= now
      BY <1>0, <1>1, <1>8
    <2>3. /\ AddedOnTime'
          /\ \A n : IsAdded(n)' <=> IsAdded(n) \/ (~shuttingDown /\ n = e.id)
      BY <1>1, <1>3, <1>8, <2>1, PutKeeps DEF DelayInv
    <2>4. \A n : /\ IsAdded(n)' <=> IsAdded(n) \/ n = e.id
                 /\ AtCaller(n)' = AtCaller(n)
      BY <1>2, <1>8, <2>3 DEF AtCaller
    <2>6. OnePlace'
      BY <1>3, <1>4, <1>5, <1>6, <2>4 DEF DelayInv, OnePlace
    <2>7. ThereOnce'
      BY <1>2, <1>8 DEF DelayInv, ThereOnce, OnceEach, NoEntry
    <2>8. SomePlace'
      BY <1>2, <1>4, <1>7, <2>4 DEF DelayInv, SomePlace
    <2>. QED  BY <1>t, <1>s, <2>3, <2>6, <2>7, <2>8 DEF DelayInv
  <1>9. CASE d > 0 /\ caller' = [caller EXCEPT ![c] = e] /\ UNCHANGED added
    <2>2. \A x \in Callers : caller'[x] = IF x = c THEN e ELSE caller[x]
      BY <1>0, <1>9
    <2>3. caller[c].id = 0
      BY <1>2 DEF NoEntry
    <2>4. \A n \in Nat \ {0} : /\ AtCaller(n)' <=> AtCaller(n) \/ n = e.id
                               /\ IsAdded(n)' = IsAdded(n)
      BY <1>9, <2>2, <2>3 DEF AtCaller, IsAdded
    <2>6. OnePlace'
      BY <1>3, <1>4, <1>5, <1>6, <2>4 DEF DelayInv, OnePlace
    <2>7. \A x, y \in Callers : caller'[x].id = caller'[y].id /\ caller'[x] # NoEntry => x = y
      <3>1. \A x \in Callers : caller[x].id # e.id
        BY <1>3 DEF AtCaller
      <3>2. \A x, y \in Callers : caller[x].id = caller[y].id /\ caller[x] # NoEntry => x = y
        BY DEF DelayInv, ThereOnce
      <3>. QED  BY <2>2, <3>1, <3>2
    <2>8. ThereOnce'
      BY <1>2, <2>7 DEF DelayInv, ThereOnce, OnceEach, NoEntry
    <2>9. SomePlace'
      <3>1. \A n \in 1..ids' : n \in Nat \ {0}
        BY <1>6
      <3>. QED  BY <1>2, <1>4, <1>7, <2>4, <3>1 DEF DelayInv, SomePlace
    <2>10. AddedOnTime'
      BY <1>9 DEF DelayInv, AddedOnTime
    <2>. QED  BY <1>t, <1>s, <2>6, <2>8, <2>9, <2>10 DEF DelayInv
  <1>. QED  BY <1>2, <1>8, <1>9

\* SendEntry and Unblocked: the caller lets go of its entry, which goes to the
\* end of the channel, or is dropped after shutdown.
LEMMA CallerKeeps ==
  ASSUME DelayInv, NEW c \in Callers, SendEntry(c) \/ Unblocked(c)
  PROVE  DelayInv'
  <1>. DEFINE e == caller[c]
  <1>1. /\ e # NoEntry /\ caller' = [caller EXCEPT ![c] = NoEntry]
        /\ UNCHANGED <<now, beat, waitingForAdd, shuttingDown, stopped, loop, loopNow, nextReadyAt, ids, added>>
        /\ \/ waitingForAddCh' = Append(waitingForAddCh, e) /\ Len(waitingForAddCh) < Cap
           \/ stopped /\ UNCHANGED waitingForAddCh
    BY DEF SendEntry, Unblocked, vars
  <1>2. caller \in [Callers -> Entry \cup {NoEntry}] /\ waitingForAddCh \in Seq(Entry)
    BY TypeFacts DEF DelayInv
  <1>3. e \in Entry
    BY <1>1, <1>2
  <1>4. e.id \in Nat \ {0}
    BY <1>3, EntryFields
  <1>5. caller' \in [Callers -> Entry \cup {NoEntry}]
        /\ \A x \in Callers : caller'[x] = IF x = c THEN NoEntry ELSE caller[x]
    BY <1>1, <1>2
  <1>6. \A x, y \in Callers : caller[x].id = caller[y].id /\ caller[x] # NoEntry => x = y
    BY DEF DelayInv, ThereOnce
  <1>7. \A n \in Nat \ {0} : AtCaller(n)' <=> AtCaller(n) /\ n # e.id
    <2>1. NoEntry.id = 0
      BY DEF NoEntry
    <2>. QED  BY <1>1, <1>5, <1>6, <2>1 DEF AtCaller
  <1>8. AtCaller(e.id)
    BY DEF AtCaller
  <1>9. ~InChannel(e.id) /\ ~InList(e.id) /\ ~IsAdded(e.id) /\ e.id <= ids
    BY <1>4, <1>8 DEF DelayInv, OnePlace
  <1>. HIDE DEF e
  <1>10. \A n : InList(n)' = InList(n) /\ IsAdded(n)' = IsAdded(n)
    BY <1>1 DEF InList, IsAdded
  <1>11. \A x, y \in Callers : caller'[x].id = caller'[y].id /\ caller'[x] # NoEntry => x = y
    <2>1. \A x \in Callers : caller[x] = NoEntry \/ caller[x].id # 0
      BY <1>2, EntryFields
    <2>2. NoEntry.id = 0
      BY DEF NoEntry
    <2>. QED  BY <1>5, <1>6, <2>1, <2>2
  <1>12. OnceEach(waitingForAdd)
    BY DEF DelayInv, ThereOnce
  <1>13. AddedOnTime' /\ InOrder(waitingForAdd)' /\ ReadBefore'
    BY <1>1 DEF DelayInv, AddedOnTime, InOrder, ReadBefore
  <1>14. CASE waitingForAddCh' = Append(waitingForAddCh, e) /\ Len(waitingForAddCh) < Cap
    <2>. DEFINE s == waitingForAddCh
                t == Append(waitingForAddCh, e)
    <2>1. Len(s) \in Nat
      BY <1>2
    <2>2. t \in Seq(Entry) /\ Len(t) = Len(s) + 1 /\ t[Len(s) + 1] = e
          /\ \A i \in 1..Len(s) : t[i] = s[i]
      BY <1>2, <1>3
    <2>. HIDE DEF t
    <2>3. waitingForAddCh' = t
      BY <1>14 DEF t
    <2>4. \A i \in 1..Len(t) : i \in 1..Len(s) \/ i = Len(s) + 1
      BY <2>1, <2>2
    <2>5. (Len(s) + 1) \in 1..Len(t) /\ \A i \in 1..Len(s) : i \in 1..Len(t)
      BY <2>1, <2>2
    <2>6. \A n : InChannel(n)' <=> InChannel(n) \/ n = e.id
      BY <2>2, <2>3, <2>4, <2>5 DEF InChannel
    <2>7. \A i, j \in 1..Len(t) : t[i].id = t[j].id => i = j
      <3>1. \A i \in 1..Len(s) : s[i].id # e.id
        BY <1>9 DEF InChannel
      <3>2. \A i, j \in 1..Len(s) : s[i].id = s[j].id => i = j
        BY DEF DelayInv, ThereOnce, OnceEach
      <3>. QED  BY <2>2, <2>4, <3>1, <3>2
    <2>8. LoopTypeOK'
      <3>1. Len(t) <= Cap
        BY <1>14, <2>1, <2>2, BoundsNat
      <3>. QED  BY <1>1, <1>5, <2>2, <2>3, <3>1 DEF DelayInv, LoopTypeOK, NoEntry
    <2>9. OnePlace'
      BY <1>1, <1>4, <1>7, <1>9, <1>10, <2>6 DEF DelayInv, OnePlace
    <2>10. ThereOnce'
      BY <1>1, <1>11, <1>12, <2>3, <2>7 DEF ThereOnce, OnceEach, NoEntry
    <2>11. SomePlace'
      <3>1. \A n \in 1..ids : n \in Nat \ {0}
        BY TypeFacts DEF DelayInv
      <3>. QED  BY <1>1, <1>7, <1>10, <2>6, <3>1 DEF DelayInv, SomePlace
    <2>. QED  BY <1>13, <2>8, <2>9, <2>10, <2>11 DEF DelayInv
  <1>15. CASE stopped /\ UNCHANGED waitingForAddCh
    <2>1. \A n : InChannel(n)' = InChannel(n)
      BY <1>15 DEF InChannel
    <2>2. LoopTypeOK'
      BY <1>1, <1>5, <1>15 DEF DelayInv, LoopTypeOK, NoEntry
    <2>3. OnePlace'
      BY <1>1, <1>7, <1>10, <2>1 DEF DelayInv, OnePlace
    <2>4. ThereOnce'
      BY <1>1, <1>11, <1>15 DEF DelayInv, ThereOnce, OnceEach, NoEntry
    <2>5. SomePlace'
      BY <1>1, <1>15 DEF DelayInv, SomePlace
    <2>. QED  BY <1>13, <2>2, <2>3, <2>4, <2>5 DEF DelayInv
  <1>. QED  BY <1>1, <1>14, <1>15

\* Taking the first entry off a list takes it out and keeps the others.
LEMMA HeadOff ==
  ASSUME NEW s \in Seq(Entry), s # <<>>, NEW e, e = Head(s), NEW t, t = Tail(s), OnceEach(s)
  PROVE  /\ e \in Entry /\ t \in Seq(Entry) /\ Len(t) <= Len(s)
         /\ HasId(s, e.id)
         /\ \A m : HasId(t, m) <=> HasId(s, m) /\ m # e.id
         /\ OnceEach(t)
         /\ InOrder(s) => InOrder(t)
  <1>1. Len(s) \in Nat /\ Len(s) >= 1 /\ e = s[1] /\ e \in Entry /\ 1 \in 1..Len(s)
    OBVIOUS
  <1>2. t \in Seq(Entry) /\ Len(t) = Len(s) - 1 /\ \A i \in 1..Len(t) : t[i] = s[i + 1]
    OBVIOUS
  <1>3. \A i \in 1..Len(t) : i + 1 \in 1..Len(s) /\ i + 1 # 1
    BY <1>1, <1>2
  <1>4. \A m : HasId(t, m) <=> HasId(s, m) /\ m # e.id
    <2>. TAKE m
    <2>1. ASSUME NEW i \in 1..Len(t), t[i].id = m
          PROVE  HasId(s, m) /\ m # e.id
      <3>1. s[i + 1].id = m /\ i + 1 \in 1..Len(s) /\ i + 1 # 1
        BY <1>2, <1>3, <2>1
      <3>. QED  BY <1>1, <3>1 DEF HasId, OnceEach
    <2>2. ASSUME NEW j \in 1..Len(s), s[j].id = m, m # e.id
          PROVE  \E i \in 1..Len(t) : t[i].id = m
      <3>1. j # 1
        BY <1>1, <2>2
      <3>2. j - 1 \in 1..Len(t) /\ (j - 1) + 1 = j
        BY <1>1, <1>2, <3>1
      <3>. QED  BY <1>2, <2>2, <3>2
    <2>. QED  BY <2>1, <2>2 DEF HasId
  <1>5. OnceEach(t)
    <2>1. \A i, j \in 1..Len(t) : t[i].id = t[j].id => i + 1 = j + 1
      BY <1>2, <1>3 DEF OnceEach
    <2>2. \A i, j \in 1..Len(t) : t[i].id = t[j].id => i = j
      BY <1>1, <1>2, <2>1
    <2>. QED  BY <2>2 DEF OnceEach
  <1>8. ASSUME InOrder(s) PROVE InOrder(t)
    <2>1. \A i, j \in 1..Len(t) : i < j => i + 1 < j + 1
      BY <1>1, <1>2
    <2>2. \A i, j \in 1..Len(t) : i < j => t[i].at <= t[j].at
      BY <1>2, <1>3, <1>8, <2>1 DEF InOrder
    <2>. QED  BY <2>2 DEF InOrder
  <1>6. HasId(s, e.id)
    BY <1>1 DEF HasId
  <1>7. Len(t) <= Len(s)
    BY <1>1, <1>2
  <1>. QED  BY <1>1, <1>2, <1>4, <1>5, <1>6, <1>7, <1>8

\* LoopExit discards the list, after shutdown.
LEMMA LoopExitKeeps ==
  ASSUME DelayInv, LoopExit
  PROVE  DelayInv'
  <1>1. /\ shuttingDown /\ waitingForAdd' = <<>> /\ loop' = "exited"
        /\ UNCHANGED <<now, beat, waitingForAddCh, shuttingDown, stopped, loopNow, nextReadyAt, caller, ids, added>>
    BY DEF LoopExit, vars
  <1>2. \A n : /\ AtCaller(n)' = AtCaller(n) /\ InChannel(n)' = InChannel(n)
               /\ ~InList(n)' /\ IsAdded(n)' = IsAdded(n)
    BY <1>1 DEF AtCaller, InChannel, InList, IsAdded
  <1>3. LoopTypeOK'
    BY <1>1 DEF DelayInv, LoopTypeOK, NoEntry
  <1>4. OnePlace'
    BY <1>1, <1>2 DEF DelayInv, OnePlace
  <1>5. ThereOnce'
    BY <1>1 DEF DelayInv, ThereOnce, OnceEach, NoEntry
  <1>6. SomePlace'
    BY <1>1 DEF DelayInv, SomePlace
  <1>7. AddedOnTime' /\ InOrder(waitingForAdd)' /\ ReadBefore'
    BY <1>1 DEF DelayInv, AddedOnTime, InOrder, ReadBefore
  <1>. QED  BY <1>3, <1>4, <1>5, <1>6, <1>7 DEF DelayInv

\* AddReady moves the first entry of the list to the queue.  It is due: the
\* loop has read the clock before.
LEMMA AddReadyKeeps ==
  ASSUME DelayInv, AddReady
  PROVE  DelayInv'
  <1>. DEFINE s == waitingForAdd
              e == Head(s)
              t == Tail(s)
  <1>t. LoopTypeOK
    BY DEF DelayInv
  <1>0. s \in Seq(Entry) /\ now \in Nat /\ loopNow \in Nat /\ loopNow <= now
    BY <1>t, TypeFacts, BoundsNat DEF LoopTypeOK, DelayInv, ReadBefore
  <1>1. /\ s # <<>> /\ e.at <= loopNow /\ Put(e) /\ waitingForAdd' = t
        /\ shuttingDown' = shuttingDown
        /\ UNCHANGED <<now, beat, waitingForAddCh, stopped, loop, loopNow, nextReadyAt, caller, ids>>
    BY DEF AddReady, HeadIsReady, Put, Add, AddIgnored, AddWhileProcessing, AddToQueue, vars
  <1>2. OnceEach(s)
    BY DEF DelayInv, ThereOnce
  <1>3. /\ e \in Entry /\ t \in Seq(Entry)
        /\ HasId(s, e.id)
        /\ \A m : HasId(t, m) <=> HasId(s, m) /\ m # e.id
        /\ OnceEach(t)
        /\ InOrder(s) => InOrder(t)
    <2>1. s # <<>>
      BY <1>1
    <2>. HIDE DEF s
    <2>. QED  BY <1>0, <1>2, <2>1, HeadOff
  <1>. HIDE DEF e, t
  <1>4. e.id \in Nat \ {0} /\ e.at \in Nat
    BY <1>3, EntryFields
  <1>5. \A n : InList(n)' <=> InList(n) /\ n # e.id
    BY <1>1, <1>3 DEF HasId, InList
  <1>6. ~AtCaller(e.id) /\ ~InChannel(e.id) /\ ~IsAdded(e.id) /\ e.id <= ids
    <2>1. InList(e.id)
      BY <1>3 DEF HasId, InList
    <2>. QED  BY <1>4, <2>1 DEF DelayInv, OnePlace
  <1>7. e.at <= now
    BY <1>0, <1>1, <1>4
  <1>8. /\ AddedOnTime' /\ added' \subseteq Record
        /\ \A n : IsAdded(n)' <=> IsAdded(n) \/ (~shuttingDown /\ n = e.id)
    BY <1>1, <1>3, <1>6, <1>7, <1>t, PutKeeps DEF DelayInv
  <1>9. \A n : AtCaller(n)' = AtCaller(n) /\ InChannel(n)' = InChannel(n)
    BY <1>1 DEF AtCaller, InChannel
  <1>10. LoopTypeOK'
    BY <1>1, <1>3, <1>8, <1>t DEF LoopTypeOK, NoEntry, Record
  <1>11. OnePlace'
    BY <1>1, <1>4, <1>5, <1>6, <1>8, <1>9 DEF DelayInv, OnePlace
  <1>12. ThereOnce'
    BY <1>1, <1>3 DEF DelayInv, ThereOnce, OnceEach, NoEntry
  <1>13. SomePlace'
    BY <1>1, <1>5, <1>8, <1>9 DEF DelayInv, SomePlace
  <1>14. InOrder(waitingForAdd)'
    <2>1. InOrder(t)
      BY <1>3 DEF DelayInv
    <2>. QED  BY <1>1, <2>1
  <1>15. ReadBefore'
    BY <1>1 DEF DelayInv, ReadBefore
  <1>. QED  BY <1>8, <1>10, <1>11, <1>12, <1>13, <1>14, <1>15 DEF DelayInv

\* ReceiveEntry: the head of the channel goes to the list, or to the queue.
LEMMA ReceiveKeeps ==
  ASSUME DelayInv, ReceiveEntry
  PROVE  DelayInv'
  <1>. DEFINE s == waitingForAddCh
              e == Head(s)
              t == Tail(s)
  <1>t. LoopTypeOK
    BY DEF DelayInv
  <1>0. s \in Seq(Entry) /\ waitingForAdd \in Seq(Entry) /\ now \in Nat /\ Len(s) <= Cap
    BY <1>t, TypeFacts DEF LoopTypeOK
  <1>1. /\ s # <<>> /\ waitingForAddCh' = t /\ loop' = "drain"
        /\ \/ e.at > now /\ waitingForAdd' = insert(waitingForAdd, e) /\ UNCHANGED added
           \/ e.at <= now /\ Put(e) /\ UNCHANGED waitingForAdd
        /\ shuttingDown' = shuttingDown
        /\ UNCHANGED <<now, beat, stopped, loopNow, nextReadyAt, caller, ids>>
    BY DEF ReceiveEntry, Put, Add, AddIgnored, AddWhileProcessing, AddToQueue, vars
  <1>2. OnceEach(s)
    BY DEF DelayInv, ThereOnce
  <1>3. /\ e \in Entry /\ t \in Seq(Entry) /\ Len(t) <= Len(s)
        /\ HasId(s, e.id)
        /\ \A m : HasId(t, m) <=> HasId(s, m) /\ m # e.id
        /\ OnceEach(t)
    <2>1. s # <<>>
      BY <1>1
    <2>. HIDE DEF s
    <2>. QED  BY <1>0, <1>2, <2>1, HeadOff
  <1>4. Len(t) <= Cap
    <2>1. Len(t) \in Nat /\ Len(s) \in Nat
      BY <1>0, <1>3
    <2>. QED  BY <1>0, <1>3, <2>1, BoundsNat
  <1>. HIDE DEF e, t
  <1>5. e.id \in Nat \ {0} /\ e.at \in Nat
    BY <1>3, EntryFields
  <1>6. \A n : InChannel(n)' <=> InChannel(n) /\ n # e.id
    BY <1>1, <1>3 DEF HasId, InChannel
  <1>7. ~AtCaller(e.id) /\ ~InList(e.id) /\ ~IsAdded(e.id) /\ e.id <= ids
    <2>1. InChannel(e.id)
      BY <1>3 DEF HasId, InChannel
    <2>. QED  BY <1>5, <2>1 DEF DelayInv, OnePlace
  <1>8. \A n : AtCaller(n)' = AtCaller(n)
    BY <1>1 DEF AtCaller
  <1>r. ReadBefore'
    BY <1>1 DEF DelayInv, ReadBefore
  <1>9. CASE e.at > now /\ waitingForAdd' = insert(waitingForAdd, e) /\ UNCHANGED added
    <2>1. ~HasId(waitingForAdd, e.id) /\ OnceEach(waitingForAdd) /\ InOrder(waitingForAdd)
      BY <1>7 DEF InList, HasId, DelayInv, ThereOnce
    <2>. DEFINE u == insert(waitingForAdd, e)
    <2>i. u = insert(waitingForAdd, e)
      OBVIOUS
    <2>. HIDE DEF u
    <2>2. u \in Seq(Entry)
      BY <1>0, <1>3, <2>i, <2>1, ListInsert
    <2>3. \A m : HasId(u, m) <=> m = e.id \/ HasId(waitingForAdd, m)
      BY <1>0, <1>3, <2>i, <2>1, ListInsert
    <2>4. OnceEach(u)
      BY <1>0, <1>3, <2>i, <2>1, ListInsert
    <2>s. InOrder(u)
      BY <1>0, <1>3, <2>i, <2>1, SortedInsert
    <2>5. waitingForAdd' = u
      BY <1>9 DEF u
    <2>6. \A n : (InList(n)' <=> InList(n) \/ n = e.id) /\ IsAdded(n)' = IsAdded(n)
      BY <1>9, <2>5, <2>3 DEF HasId, InList, IsAdded
    <2>7. LoopTypeOK'
      BY <1>1, <1>3, <1>4, <1>9, <1>t, <2>2, <2>5 DEF LoopTypeOK, NoEntry
    <2>8. OnePlace'
      BY <1>1, <1>5, <1>6, <1>7, <1>8, <2>6 DEF DelayInv, OnePlace
    <2>9. ThereOnce'
      BY <1>1, <1>3, <2>5, <2>4 DEF DelayInv, ThereOnce, OnceEach, NoEntry
    <2>10. SomePlace'
      BY <1>1, <1>6, <1>8, <2>6 DEF DelayInv, SomePlace
    <2>11. AddedOnTime' /\ InOrder(waitingForAdd)'
      BY <1>9, <2>5, <2>s DEF DelayInv, AddedOnTime, InOrder
    <2>. QED  BY <1>r, <2>7, <2>8, <2>9, <2>10, <2>11 DEF DelayInv
  <1>10. CASE e.at <= now /\ Put(e) /\ UNCHANGED waitingForAdd
    <2>2. /\ AddedOnTime' /\ added' \subseteq Record
          /\ \A n : IsAdded(n)' <=> IsAdded(n) \/ (~shuttingDown /\ n = e.id)
      BY <1>3, <1>7, <1>10, <1>t, PutKeeps DEF DelayInv
    <2>3. \A n : InList(n)' = InList(n)
      BY <1>10 DEF InList
    <2>4. LoopTypeOK'
      BY <1>1, <1>3, <1>4, <1>10, <1>t, <2>2 DEF LoopTypeOK, NoEntry, Record
    <2>5. OnePlace'
      BY <1>1, <1>5, <1>6, <1>7, <1>8, <2>2, <2>3 DEF DelayInv, OnePlace
    <2>6. ThereOnce'
      BY <1>1, <1>3, <1>10 DEF DelayInv, ThereOnce, OnceEach, NoEntry
    <2>7. SomePlace'
      BY <1>1, <1>6, <1>8, <2>2, <2>3 DEF DelayInv, SomePlace
    <2>8. InOrder(waitingForAdd)'
      BY <1>10 DEF DelayInv, InOrder
    <2>. QED  BY <1>r, <2>2, <2>4, <2>5, <2>6, <2>7, <2>8 DEF DelayInv
  <1>. QED  BY <1>1, <1>9, <1>10

\* The steps that move no entry keep the types.
LEMMA OtherTypes ==
  ASSUME LoopTypeOK,
         \/ UNCHANGED delayVars \/ Tick \/ CloseStopCh \/ LoopTop
         \/ SelectStop \/ SelectTimer \/ Drained \/ SelectHeartbeat
  PROVE  LoopTypeOK'
  <1>1. CASE UNCHANGED delayVars
    BY <1>1 DEF LoopTypeOK, delayVars, NoEntry
  <1>2. CASE Tick
    <2>1. now' \in 0..MaxTime
      BY <1>2, BoundsNat DEF Tick, LoopTypeOK
    <2>2. beat' \in BOOLEAN
      BY <1>2 DEF Tick, LoopTypeOK
    <2>. QED  BY <1>2, <2>1, <2>2 DEF Tick, LoopTypeOK, NoEntry
  <1>3. CASE CloseStopCh
    BY <1>3 DEF CloseStopCh, LoopTypeOK, NoEntry
  <1>4. CASE LoopTop
    BY <1>4 DEF LoopTop, LoopTypeOK, NoEntry
  <1>5. CASE SelectStop \/ SelectTimer \/ Drained
    BY <1>5 DEF SelectStop, SelectTimer, Drained, LoopTypeOK, NoEntry
  <1>6. CASE SelectHeartbeat
    BY <1>6 DEF SelectHeartbeat, LoopTypeOK, NoEntry
  <1>. QED  BY <1>1, <1>2, <1>3, <1>4, <1>5, <1>6

\* The queue's methods leave the loop and its list alone, and only ShutDown
\* writes shuttingDown.
LEMMA MethodsKeepOpen ==
  ASSUME (\E i \in Items : Add(i)) \/ (\E w \in Workers : Get(w) \/ Done(w))
  PROVE  shuttingDown' = shuttingDown
  BY DEF Add, AddIgnored, AddWhileProcessing, AddToQueue, Get, GetWait, GetShutdown, GetItem, Done, vars

\* Every step keeps the invariant.
LEMMA DelayStep == DelayInv /\ [DelayNext]_allVars => DelayInv'
  <1>. SUFFICES ASSUME DelayInv, [DelayNext]_allVars PROVE DelayInv'
    OBVIOUS
  <1>0. LoopTypeOK /\ ReadBefore /\ (stopped => shuttingDown) /\ now \in Nat /\ loopNow \in Nat
    BY TypeFacts, BoundsNat DEF DelayInv, SomePlace, LoopTypeOK
  <1>1. CASE UNCHANGED allVars
    BY <1>0, <1>1, OtherTypes, NothingMoves DEF allVars, delayVars, vars, ReadBefore
  <1>2. CASE Tick
    <2>1. ReadBefore'
      BY <1>0, <1>2 DEF Tick, ReadBefore
    <2>. QED  BY <1>0, <1>2, <2>1, OtherTypes, NothingMoves DEF Tick, vars
  <1>3. CASE ShutDownQueue
    <2>1. UNCHANGED delayVars /\ shuttingDown' = TRUE
      BY <1>3 DEF ShutDownQueue, ShutDown
    <2>. QED  BY <1>0, <2>1, OtherTypes, NothingMoves DEF delayVars, ReadBefore
  <1>4. CASE CloseStopCh
    BY <1>0, <1>4, OtherTypes, NothingMoves DEF CloseStopCh, vars, ReadBefore
  <1>5. CASE UseQueue
    <2>1. UNCHANGED delayVars /\ shuttingDown' = shuttingDown
      BY <1>5, MethodsKeepOpen DEF UseQueue
    <2>. QED  BY <1>0, <2>1, OtherTypes, NothingMoves DEF delayVars, ReadBefore
  <1>6. CASE LoopTop
    <2>1. ReadBefore'
      BY <1>0, <1>6 DEF LoopTop, ReadBefore
    <2>. QED  BY <1>0, <1>6, <2>1, OtherTypes, NothingMoves DEF LoopTop, vars
  <1>7. CASE SetTimer
    <2>1. ReadBefore'
      BY <1>0, <1>7 DEF SetTimer, ReadBefore
    <2>. QED  BY <1>0, <1>7, <2>1, SetTimerTypes, NothingMoves DEF SetTimer, vars
  <1>8. CASE SelectStop \/ SelectTimer \/ Drained \/ SelectHeartbeat
    <2>1. LoopTypeOK'
      BY <1>0, <1>8, OtherTypes
    <2>. QED  BY <1>0, <1>8, <2>1, NothingMoves
              DEF SelectStop, SelectTimer, Drained, SelectHeartbeat, vars, ReadBefore
  <1>9. CASE \E c \in Callers : \E i \in Items, d \in 0..MaxTime : AddAfter(c, i, d)
    BY <1>9, AddAfterKeeps
  <1>10. CASE \E c \in Callers : SendEntry(c) \/ Unblocked(c)
    BY <1>10, CallerKeeps
  <1>11. CASE LoopExit
    BY <1>11, LoopExitKeeps
  <1>12. CASE AddReady
    BY <1>12, AddReadyKeeps
  <1>13. CASE ReceiveEntry
    BY <1>13, ReceiveKeeps
  <1>. QED  BY <1>1, <1>2, <1>3, <1>4, <1>5, <1>6, <1>7, <1>8, <1>9, <1>10, <1>11, <1>12, <1>13
            DEF DelayNext, WaitingLoop

\* The invariant holds in every reachable state of the delaying queue.
LEMMA DelayHolds == DelaySpec => []DelayInv
  BY DelayInitInv, DelayStep, PTL DEF DelaySpec

-----------------------------------------------------------------------------
(* What the delaying queue promises.                                       *)

\* NothingLost: whatever the callers, the channel's capacity, the delays and
\* their number, an entry that AddAfter has taken on is at its caller, in the
\* channel, in the list or in the work queue until the queue shuts down; the
\* list that insert and the cut of waitingLoop make loses none.
THEOREM EntriesAreKept == DelaySpec => []NothingLost
  <1>1. DelayInv => NothingLost
    <2>1. ASSUME DelayInv
          PROVE  DOMAIN waitingForAddCh = 1..Len(waitingForAddCh) /\ DOMAIN waitingForAdd = 1..Len(waitingForAdd)
      BY <2>1, TypeFacts DEF DelayInv
    <2>. QED  BY <2>1 DEF DelayInv, SomePlace, NothingLost, AtCaller, InChannel, InList, IsAdded
  <1>. QED  BY <1>1, DelayHolds, PTL

\* AddedOnTime: no entry is added before it is due, and none twice, whether it
\* is added by AddAfter itself, on receipt or from the list.
THEOREM AddsAreOnTime == DelaySpec => []AddedOnTime
  <1>1. DelayInv => AddedOnTime
    BY DEF DelayInv
  <1>. QED  BY <1>1, DelayHolds, PTL

\* WaitingIsSorted: insert puts an entry where sort.Search says, which keeps the
\* slice sorted, which is what makes the answer of sort.Search right.
THEOREM ListStaysSorted == DelaySpec => []WaitingIsSorted
  <1>1. DelayInv => WaitingIsSorted
    <2>1. ASSUME DelayInv PROVE DOMAIN waitingForAdd = 1..Len(waitingForAdd)
      BY <2>1, TypeFacts DEF DelayInv
    <2>. QED  BY <2>1 DEF DelayInv, InOrder, WaitingIsSorted
  <1>. QED  BY <1>1, DelayHolds, PTL

\* An addition by the loop or by AddAfter is an Add.
LEMMA PutIsAdd ==
  ASSUME NEW e \in Entry, Put(e)
  PROVE  Next
  <1>1. Add(e.item) /\ e.item \in Items
    BY EntryFields DEF Put
  <1>. QED  BY <1>1 DEF Next

\* A step of the delaying queue is a step of the queue inside, or leaves it
\* as it is.
LEMMA DelayStepRefines == DelayInv /\ [DelayNext]_allVars => [Next]_vars
  <1>. SUFFICES ASSUME DelayInv, [DelayNext]_allVars PROVE [Next]_vars
    OBVIOUS
  <1>0. waitingForAddCh \in Seq(Entry) /\ waitingForAdd \in Seq(Entry) /\ now \in Nat /\ ids \in Nat
    BY TypeFacts DEF DelayInv
  <1>1. CASE UNCHANGED allVars \/ Tick \/ CloseStopCh \/ LoopExit \/ LoopTop \/ SetTimer
             \/ SelectStop \/ SelectTimer \/ Drained \/ SelectHeartbeat
    BY <1>1 DEF allVars, Tick, CloseStopCh, LoopExit, LoopTop, SetTimer,
                SelectStop, SelectTimer, Drained, SelectHeartbeat
  <1>2. ASSUME NEW c \in Callers, NEW i \in Items, NEW d \in 0..MaxTime, AddAfter(c, i, d)
        PROVE  [Next]_vars
    <2>. DEFINE e == [id |-> ids + 1, at |-> now + d, item |-> i]
    <2>1. Put(e) \/ UNCHANGED vars
      BY <1>2 DEF AddAfter
    <2>2. Put(e) => Add(i)
      BY DEF Put
    <2>. QED  BY <2>1, <2>2 DEF Next
  <1>3. ASSUME NEW c \in Callers, SendEntry(c) \/ Unblocked(c)
        PROVE  [Next]_vars
    BY <1>3 DEF SendEntry, Unblocked
  <1>4. CASE ShutDownQueue
    BY <1>4 DEF ShutDownQueue, Next
  <1>5. CASE UseQueue
    BY <1>5 DEF UseQueue, Next
  <1>6. CASE AddReady
    <2>1. Head(waitingForAdd) \in Entry /\ Put(Head(waitingForAdd))
      BY <1>0, <1>6 DEF AddReady, HeadIsReady
    <2>. QED  BY <2>1, PutIsAdd
  <1>7. CASE ReceiveEntry
    <2>1. waitingForAddCh # <<>>
      BY <1>7 DEF ReceiveEntry
    <2>2. Head(waitingForAddCh) \in Entry
      BY <1>0, <2>1
    <2>3. Put(Head(waitingForAddCh)) \/ UNCHANGED vars
      BY <1>7 DEF ReceiveEntry
    <2>. QED  BY <2>2, <2>3, PutIsAdd
  <1>. QED  BY <1>1, <1>2, <1>3, <1>4, <1>5, <1>6, <1>7 DEF DelayNext, WaitingLoop

\* The workers of a delaying queue see a work queue.
LEMMA DelayingIsWorkQueue == DelaySpec => Spec
  <1>1. DelayInit => Init
    BY DEF DelayInit
  <1>. QED  BY <1>1, DelayStepRefines, DelayHolds, PTL DEF DelaySpec, Spec

\* What holds of the work queue therefore holds of the one inside a delaying
\* queue: no lost addition, one worker per item, no lost wakeup, in spite of
\* the loop that adds items beside the workers; and the types are right.
THEOREM DelayingKeepsQueue == DelaySpec => [](IInv /\ DelayTypeOK)
  <1>1. DelayInv /\ IInv => DelayTypeOK
    BY DEF DelayInv, IInv, DelayTypeOK
  <1>. QED  BY <1>1, InvariantHolds, DelayHolds, DelayingIsWorkQueue, PTL
=============================================================================
