--------------------------- MODULE InformerProofs ---------------------------
(***************************************************************************)
(* Theorems about an informer, for every set of keys and every number of   *)
(* writes, relists and resyncs:                                            *)
(*  - its store follows the API server: the only keys whose pending deltas *)
(*    do not lead to the collection at the reflector's resource version    *)
(*    are those for which a relist or a resync crossed a pending delta;    *)
(*  - the queue holds the keys with pending deltas, each once;             *)
(*  - HasSynced waits for every object of the first list;                  *)
(*  - a deletion is reported once, and of an object that was there;        *)
(*  - without resyncs the cache is as fresh as any notification.           *)
(***************************************************************************)
EXTENDS Informer, FiniteSetTheorems, WellFoundedInduction, TLAPS

\* The part of the type invariant the argument needs.
Shape ==
    /\ items \in [Keys -> Seq(Delta)]
    /\ clientState \in [Keys -> Nat]
    /\ hist \in Seq([Keys -> Nat])
    /\ Len(hist) >= 1
    /\ resourceVersion \in 0..(Len(hist) - 1)
    /\ diverged \subseteq Keys

\* The inductive invariant: a watch event changes one key because versions of
\* the server do.
FollowInv == Shape /\ OneChangePerVersion /\ StoreFollowsServer

\* A change and a deletion marker are deltas.
LEMMA DeltasTyped ==
    ASSUME NEW v \in Nat, NEW type \in DeltaTypes
    PROVE  Change(type, v) \in Delta /\ FinalStateUnknown(v) \in Delta
  BY DEF Change, FinalStateUnknown, Delta, DeltaTypes

\* queueActionLocked leaves at least one delta, and the key ends as the delta
\* says unless it is a Sync behind a pending deletion.
LEMMA QueueAction ==
    ASSUME NEW deltas \in Seq(Delta), NEW d \in Delta
    PROVE  /\ queueActionLocked(deltas, d) \in Seq(Delta)
           /\ queueActionLocked(deltas, d) # <<>>
           /\ Outcome(Newest(queueActionLocked(deltas, d))) =
                IF d.type = "Sync" /\ EndsDeleted(deltas) THEN 0 ELSE Outcome(d)
  <1> DEFINE q == queueActionLocked(deltas, d)
  <1>1. CASE d.type = "Sync" /\ EndsDeleted(deltas)
    BY <1>1 DEF queueActionLocked, EndsDeleted, Outcome, Newest
  <1>2. CASE ~(d.type = "Sync" /\ EndsDeleted(deltas)) /\ EndsDeleted(deltas) /\ d.type = "Deleted"
    <2>1. CASE Newest(deltas).unknown
      <3>1. q = [deltas EXCEPT ![Len(deltas)] = d]
        BY <1>2, <2>1 DEF queueActionLocked, dedupDeltas
      <3>2. Len(deltas) \in Nat /\ Len(deltas) >= 1
        BY <1>2 DEF EndsDeleted
      <3>3. q \in Seq(Delta) /\ Len(q) = Len(deltas) /\ q[Len(deltas)] = d
        BY <3>1, <3>2
      <3>4. q # <<>>
        BY <3>2, <3>3
      <3> QED BY <3>3, <3>4, <1>2 DEF Newest, Outcome
    <2>2. CASE ~Newest(deltas).unknown
      BY <1>2, <2>2 DEF queueActionLocked, dedupDeltas, EndsDeleted, Outcome
    <2> QED BY <2>1, <2>2
  <1>3. CASE ~(d.type = "Sync" /\ EndsDeleted(deltas)) /\ ~(EndsDeleted(deltas) /\ d.type = "Deleted")
    <2>1. q = Append(deltas, d)
      BY <1>3 DEF queueActionLocked, dedupDeltas
    <2>2. q \in Seq(Delta) /\ Len(q) = Len(deltas) + 1 /\ q[Len(q)] = d
      BY <2>1
    <2>3. q # <<>>
      BY <2>2
    <2> QED BY <2>2, <2>3, <1>3 DEF Newest
  <1> QED BY <1>1, <1>2, <1>3

\* After queueActionLocked(k, d) the key k ends as d says, the others as before.
LEMMA EnqueueEffect ==
    ASSUME Shape, NEW k \in Keys, NEW d \in Delta, d.type # "Sync",
           Enqueue(k, d), UNCHANGED clientState
    PROVE  /\ items' \in [Keys -> Seq(Delta)]
           /\ Pending(k)' = Outcome(d)
           /\ \A j \in Keys \ {k} : Pending(j)' = Pending(j)
  <1>1. items' = [items EXCEPT ![k] = queueActionLocked(items[k], d)]
    BY DEF Enqueue
  <1>2. items[k] \in Seq(Delta)
    BY DEF Shape
  <1>3. /\ queueActionLocked(items[k], d) \in Seq(Delta)
        /\ queueActionLocked(items[k], d) # <<>>
        /\ Outcome(Newest(queueActionLocked(items[k], d))) = Outcome(d)
    BY <1>2, QueueAction
  <1>4. items'[k] = queueActionLocked(items[k], d) /\ \A j \in Keys \ {k} : items'[j] = items[j]
    BY <1>1 DEF Shape
  <1>5. items' \in [Keys -> Seq(Delta)]
    BY <1>1, <1>3 DEF Shape
  <1>6. Pending(k)' = Outcome(d)
    BY <1>3, <1>4 DEF Pending
  <1>7. \A j \in Keys \ {k} : Pending(j)' = Pending(j)
    BY <1>4 DEF Pending
  <1> QED BY <1>5, <1>6, <1>7

\* The same for EnqueueAll: where every key of the two sets ends.
LEMMA EnqueueAllEffect ==
    ASSUME Shape, NEW first \in SUBSET Keys, NEW second \in SUBSET Keys,
           NEW delta \in [Keys -> Delta],
           EnqueueAll(first, second, delta), UNCHANGED clientState
    PROVE  /\ items' \in [Keys -> Seq(Delta)]
           /\ \A j \in first \cup second :
                 Pending(j)' = IF delta[j].type = "Sync" /\ EndsDeleted(items[j])
                               THEN 0 ELSE Outcome(delta[j])
           /\ \A j \in Keys \ (first \cup second) : Pending(j)' = Pending(j)
  <1>1. items' = [k \in Keys |-> IF k \in first \cup second
                                 THEN queueActionLocked(items[k], delta[k]) ELSE items[k]]
    BY DEF EnqueueAll
  <1>2. \A j \in Keys : items[j] \in Seq(Delta) /\ delta[j] \in Delta
    BY DEF Shape
  <1>3. \A j \in Keys :
          /\ queueActionLocked(items[j], delta[j]) \in Seq(Delta)
          /\ queueActionLocked(items[j], delta[j]) # <<>>
          /\ Outcome(Newest(queueActionLocked(items[j], delta[j]))) =
               IF delta[j].type = "Sync" /\ EndsDeleted(items[j]) THEN 0 ELSE Outcome(delta[j])
    BY <1>2, QueueAction
  <1>4. items' \in [Keys -> Seq(Delta)]
    BY <1>1, <1>2, <1>3
  <1>5. ASSUME NEW j \in first \cup second
        PROVE  Pending(j)' = IF delta[j].type = "Sync" /\ EndsDeleted(items[j])
                             THEN 0 ELSE Outcome(delta[j])
    <2>1. j \in Keys /\ items'[j] = queueActionLocked(items[j], delta[j])
      BY <1>1, <1>5
    <2> QED BY <1>3, <2>1 DEF Pending
  <1>6. ASSUME NEW j \in Keys \ (first \cup second) PROVE Pending(j)' = Pending(j)
    <2>1. items'[j] = items[j]
      BY <1>1, <1>6
    <2> QED BY <2>1 DEF Pending
  <1> QED BY <1>4, <1>5, <1>6

\* The initial state: nothing is known and nothing was written.
LEMMA FollowInit == Init => FollowInv
  <1> SUFFICES ASSUME Init PROVE FollowInv
    OBVIOUS
  <1> USE DEF Init, FifoInit
  <1>1. items \in [Keys -> Seq(Delta)] /\ clientState \in [Keys -> Nat]
    OBVIOUS
  <1>2. hist \in Seq([Keys -> Nat]) /\ Len(hist) = 1 /\ hist[1] = [k \in Keys |-> 0]
    OBVIOUS
  <1>3. Shape
    BY <1>1, <1>2 DEF Shape
  <1>4. OneChangePerVersion
    BY <1>2 DEF OneChangePerVersion
  <1>5. StoreFollowsServer
    BY <1>2 DEF StoreFollowsServer, Pending, Seen
  <1> QED BY <1>3, <1>4, <1>5 DEF FollowInv

\* A write or a deletion at the server adds a version that differs in one key.
LEMMA ServerSteps ==
    ASSUME FollowInv, NEW k \in Keys, Write(k) \/ Remove(k)
    PROVE  FollowInv'
  <1> USE DEF FollowInv, Shape
  <1>1. PICK v \in Nat : hist' = Append(hist, [Server EXCEPT ![k] = v])
    <2>1. rv + 1 \in Nat
      BY DEF rv
    <2> QED BY <2>1 DEF Write, Remove
  <1>2. UNCHANGED <<items, clientState, resourceVersion, diverged>>
    BY DEF Write, Remove, fifoVars, reflectorVars
  <1>3. Server \in [Keys -> Nat]
    BY DEF Server
  <1>4. [Server EXCEPT ![k] = v] \in [Keys -> Nat]
    BY <1>1, <1>3
  <1>5. /\ hist' \in Seq([Keys -> Nat])
        /\ Len(hist') = Len(hist) + 1
        /\ \A i \in 1..Len(hist) : hist'[i] = hist[i]
        /\ hist'[Len(hist) + 1] = [Server EXCEPT ![k] = v]
    BY <1>1, <1>4
  <1>6. Shape'
    BY <1>2, <1>5
  <1>7. OneChangePerVersion'
    <2> SUFFICES ASSUME NEW r \in 1..(Len(hist') - 1), NEW i \in Keys, NEW j \in Keys,
                        hist'[r + 1][i] # hist'[r][i], hist'[r + 1][j] # hist'[r][j]
                 PROVE  i = j
      BY DEF OneChangePerVersion
    <2>1. CASE r < Len(hist)
      <3>1. r \in 1..(Len(hist) - 1) /\ r \in 1..Len(hist) /\ r + 1 \in 1..Len(hist)
        BY <1>5, <2>1
      <3>2. hist'[r] = hist[r] /\ hist'[r + 1] = hist[r + 1]
        BY <1>5, <3>1
      <3> QED BY <3>1, <3>2 DEF OneChangePerVersion
    <2>2. CASE r = Len(hist)
      <3>1. hist'[r] = Server /\ hist'[r + 1] = [Server EXCEPT ![k] = v]
        BY <1>5, <2>2 DEF Server
      <3>2. i = k /\ j = k
        BY <1>3, <3>1
      <3> QED BY <3>2
    <2> QED BY <1>5, <2>1, <2>2
  <1>8. StoreFollowsServer'
    <2>1. Seen' = Seen
      BY <1>2, <1>5 DEF Seen
    <2>2. \A j \in Keys : Pending(j)' = Pending(j)
      BY <1>2 DEF Pending
    <2> QED BY <1>2, <2>1, <2>2 DEF StoreFollowsServer
  <1> QED BY <1>6, <1>7, <1>8

\* A list leads every key to the listed version, but for the keys Replaced names.
LEMMA ListStep ==
    ASSUME FollowInv, ListAndWatch
    PROVE  FollowInv'
  <1> USE DEF FollowInv, Shape
  <1>1. PICK r \in resourceVersion..rv :
          /\ Replace(hist[r + 1])
          /\ resourceVersion' = r
          /\ diverged' = Replaced(hist[r + 1])
    BY DEF ListAndWatch
  <1>2. hist' = hist
    BY DEF ListAndWatch
  <1> DEFINE list   == hist[r + 1]
             listed == {k \in Keys : list[k] # 0}
             gone   == {k \in Keys : clientState[k] # 0} \ listed
             delta  == [k \in Keys |-> IF k \in listed THEN Change("Sync", list[k])
                                       ELSE FinalStateUnknown(clientState[k])]
  <1>3. r \in 0..(Len(hist) - 1) /\ list \in [Keys -> Nat]
    BY <1>1 DEF rv
  <1>4. delta \in [Keys -> Delta]
    <2>1. "Sync" \in DeltaTypes
      BY DEF DeltaTypes
    <2>2. \A k \in Keys : Change("Sync", list[k]) \in Delta /\ FinalStateUnknown(clientState[k]) \in Delta
      BY <1>3, <2>1, DeltasTyped
    <2> QED BY <2>2
  <1>5. EnqueueAll(listed, gone, delta) /\ UNCHANGED clientState
    BY <1>1 DEF Replace
  <1>6. listed \in SUBSET Keys /\ gone \in SUBSET Keys
    OBVIOUS
  <1>7. \A j \in Keys : /\ j \in listed => delta[j] = Change("Sync", list[j])
                        /\ j \notin listed => delta[j] = FinalStateUnknown(clientState[j])
    OBVIOUS
  <1> HIDE DEF delta
  <1>8. /\ items' \in [Keys -> Seq(Delta)]
        /\ \A j \in listed \cup gone :
              Pending(j)' = IF delta[j].type = "Sync" /\ EndsDeleted(items[j])
                            THEN 0 ELSE Outcome(delta[j])
        /\ \A j \in Keys \ (listed \cup gone) : Pending(j)' = Pending(j)
    BY <1>4, <1>5, <1>6, EnqueueAllEffect
  <1>9. diverged' \subseteq Keys
    BY <1>1 DEF Replaced
  <1>10. Shape' /\ OneChangePerVersion'
    BY <1>1, <1>2, <1>3, <1>5, <1>8, <1>9 DEF OneChangePerVersion
  <1>11. StoreFollowsServer'
    <2> SUFFICES ASSUME NEW j \in Keys, j \notin diverged' PROVE Pending(j)' = list[j]
      BY <1>1, <1>2 DEF StoreFollowsServer, Seen
    <2>1. /\ ~(list[j] = 0 /\ clientState[j] = 0 /\ Pending(j) # 0)
          /\ ~(list[j] # 0 /\ EndsDeleted(items[j]))
      BY <1>1 DEF Replaced
    <2>2. CASE j \in listed
      <3>1. delta[j] = Change("Sync", list[j]) /\ ~EndsDeleted(items[j])
        BY <1>7, <2>1, <2>2
      <3>2. Outcome(delta[j]) = list[j]
        BY <3>1 DEF Outcome, Change
      <3> QED BY <1>8, <2>2, <3>1, <3>2
    <2>3. CASE j \in gone
      <3>1. delta[j] = FinalStateUnknown(clientState[j]) /\ list[j] = 0
        BY <1>7, <2>3
      <3>2. delta[j].type # "Sync" /\ Outcome(delta[j]) = 0
        BY <3>1 DEF Outcome, FinalStateUnknown
      <3> QED BY <1>8, <2>3, <3>1, <3>2
    <2>4. CASE j \notin listed \cup gone
      BY <1>8, <2>1, <2>4
    <2> QED BY <2>2, <2>3, <2>4
  <1> QED BY <1>10, <1>11

\* What the server went through does not change.
LEMMA HistoryKept ==
    ASSUME OneChangePerVersion, hist' = hist
    PROVE  OneChangePerVersion'
    BY DEF OneChangePerVersion

\* A watch event leads its key to the next version and leaves the others, whose
\* versions do not change.
LEMMA WatchStep ==
    ASSUME FollowInv, WatchEvent
    PROVE  FollowInv'
  <1> USE DEF FollowInv, Shape
  <1> DEFINE next == hist[resourceVersion + 2]
  <1>1. PICK k \in {j \in Keys : next[j] # Seen[j]} :
          /\ \/ next[k] = 0 /\ Delete(k, Seen[k])
             \/ next[k] # 0 /\ Seen[k] = 0 /\ Set(k, "Added", next[k])
             \/ next[k] # 0 /\ Seen[k] # 0 /\ Set(k, "Updated", next[k])
          /\ diverged' = diverged \ {k}
    BY DEF WatchEvent
  <1>2. hist' = hist /\ resourceVersion' = resourceVersion + 1 /\ resourceVersion < rv
    BY DEF WatchEvent
  <1>3. resourceVersion + 1 \in 1..(Len(hist) - 1)
    BY <1>2 DEF rv
  <1>4. next \in [Keys -> Nat] /\ Seen \in [Keys -> Nat] /\ Seen' = next
    <2>1. resourceVersion + 1 \in 1..Len(hist) /\ resourceVersion + 2 \in 1..Len(hist)
      BY <1>3
    <2>2. next \in [Keys -> Nat] /\ hist[resourceVersion + 1] \in [Keys -> Nat]
      BY <2>1
    <2>3. resourceVersion' + 1 = resourceVersion + 2
      BY <1>2, <1>3
    <2> QED BY <1>2, <2>2, <2>3 DEF Seen
  <1>5. \A j \in Keys \ {k} : next[j] = Seen[j]
    <2>1. next = hist[(resourceVersion + 1) + 1] /\ Seen = hist[resourceVersion + 1]
      BY DEF Seen
    <2> QED BY <1>1, <1>3, <2>1 DEF OneChangePerVersion
  <1>6. UNCHANGED clientState
    BY <1>1 DEF Delete, Set
  <1>7. /\ items' \in [Keys -> Seq(Delta)]
        /\ Pending(k)' = next[k]
        /\ \A j \in Keys \ {k} : Pending(j)' = Pending(j)
    <2>1. CASE next[k] = 0 /\ Delete(k, Seen[k])
      <3>1. CASE clientState[k] = 0 /\ items[k] = <<>>
        <4>1. items' = items
          BY <2>1, <3>1 DEF Delete
        <4> QED BY <1>6, <2>1, <3>1, <4>1 DEF Pending
      <3>2. CASE ~(clientState[k] = 0 /\ items[k] = <<>>)
        <4>1. Enqueue(k, Change("Deleted", Seen[k]))
          BY <2>1, <3>2 DEF Delete
        <4>2. Change("Deleted", Seen[k]) \in Delta
          BY <1>4, DeltasTyped DEF DeltaTypes
        <4>3. Change("Deleted", Seen[k]).type # "Sync" /\ Outcome(Change("Deleted", Seen[k])) = 0
          BY DEF Change, Outcome
        <4> QED BY <1>6, <2>1, <4>1, <4>2, <4>3, EnqueueEffect
      <3> QED BY <3>1, <3>2
    <2>2. CASE next[k] # 0 /\ \E type \in {"Added", "Updated"} : Set(k, type, next[k])
      <3>1. PICK type \in {"Added", "Updated"} : Set(k, type, next[k])
        BY <2>2
      <3>2. Enqueue(k, Change(type, next[k]))
        BY <3>1 DEF Set
      <3>3. Change(type, next[k]) \in Delta
        BY <1>4, DeltasTyped DEF DeltaTypes
      <3>4. Change(type, next[k]).type # "Sync" /\ Outcome(Change(type, next[k])) = next[k]
        BY DEF Change, Outcome
      <3> QED BY <1>6, <3>2, <3>3, <3>4, EnqueueEffect
    <2> QED BY <1>1, <2>1, <2>2
  <1>8. Shape' /\ OneChangePerVersion'
    <2>1. OneChangePerVersion'
      BY <1>2, HistoryKept
    <2>2. (resourceVersion \in 0..(Len(hist) - 1))'
      BY <1>2, <1>3
    <2>3. (diverged \subseteq Keys)'
      BY <1>1
    <2> QED BY <1>2, <1>6, <1>7, <2>1, <2>2, <2>3
  <1>9. StoreFollowsServer'
    BY <1>1, <1>4, <1>5, <1>7 DEF StoreFollowsServer
  <1> QED BY <1>8, <1>9

\* A resync re-queues what the store has: harmless where nothing is pending,
\* where a deletion is, or where the store's version is; the rest is Resynced.
LEMMA ResyncStep ==
    ASSUME FollowInv, ResyncTick
    PROVE  FollowInv'
  <1> USE DEF FollowInv, Shape
  <1> DEFINE known == {k \in Keys : clientState[k] # 0}
             delta == [k \in Keys |-> Change("Sync", clientState[k])]
  <1>1. /\ EnqueueAll(known, {}, delta)
        /\ UNCHANGED <<clientState, hist, resourceVersion>>
        /\ diverged' = diverged \cup Resynced
    BY DEF ResyncTick, Resync
  <1>2. delta \in [Keys -> Delta]
    <2>1. \A k \in Keys : Change("Sync", clientState[k]) \in Delta
      BY DeltasTyped DEF DeltaTypes
    <2> QED BY <2>1
  <1>3. \A j \in Keys : delta[j] = Change("Sync", clientState[j])
    OBVIOUS
  <1>4. known \in SUBSET Keys /\ {} \in SUBSET Keys
    OBVIOUS
  <1> HIDE DEF delta
  <1>5. /\ items' \in [Keys -> Seq(Delta)]
        /\ \A j \in known \cup {} :
              Pending(j)' = IF delta[j].type = "Sync" /\ EndsDeleted(items[j])
                            THEN 0 ELSE Outcome(delta[j])
        /\ \A j \in Keys \ (known \cup {}) : Pending(j)' = Pending(j)
    BY <1>1, <1>2, <1>4, EnqueueAllEffect
  <1>6. Shape' /\ OneChangePerVersion'
    BY <1>1, <1>5 DEF OneChangePerVersion, Resynced
  <1>7. \A j \in Keys \ Resynced : Pending(j)' = Pending(j)
    <2> SUFFICES ASSUME NEW j \in known, j \notin Resynced PROVE Pending(j)' = Pending(j)
      BY <1>5
    <2>1. delta[j].type = "Sync" /\ Outcome(delta[j]) = clientState[j]
      <3>1. delta[j] = Change("Sync", clientState[j])
        BY <1>3
      <3> QED BY <3>1 DEF Change, Outcome
    <2>2. Pending(j)' = IF EndsDeleted(items[j]) THEN 0 ELSE clientState[j]
      BY <1>5, <2>1
    <2>3. EndsDeleted(items[j]) => Pending(j) = 0
      BY DEF EndsDeleted, Pending, Outcome
    <2>4. ~EndsDeleted(items[j]) => Pending(j) = clientState[j]
      BY DEF Resynced
    <2> QED BY <2>2, <2>3, <2>4
  <1>8. StoreFollowsServer'
    BY <1>1, <1>7 DEF StoreFollowsServer, Seen
  <1> QED BY <1>6, <1>8

\* Pop moves what was pending into the store.
LEMMA ProcessStep ==
    ASSUME FollowInv, Process
    PROVE  FollowInv'
  <1> USE DEF FollowInv, Shape
  <1> DEFINE k == Head(queue)
  <1>1. /\ clientState' = [clientState EXCEPT ![k] = Pending(k)]
        /\ items' = [items EXCEPT ![k] = <<>>]
        /\ UNCHANGED <<hist, resourceVersion, diverged>>
    BY DEF Process, Pop, reflectorVars
  <1> HIDE DEF k
  <1>2. \A j \in Keys : Pending(j) \in Nat
    <2> SUFFICES ASSUME NEW j \in Keys PROVE Pending(j) \in Nat
      OBVIOUS
    <2>1. CASE items[j] = <<>>
      BY <2>1 DEF Pending
    <2>2. CASE items[j] # <<>>
      <3>1. Newest(items[j]) \in Delta
        BY <2>2 DEF Newest
      <3> QED BY <2>2, <3>1 DEF Pending, Outcome, Delta
    <2> QED BY <2>1, <2>2
  <1>3. items' \in [Keys -> Seq(Delta)]
    <2>1. <<>> \in Seq(Delta)
      OBVIOUS
    <2> QED BY <1>1, <2>1
  <1>4. clientState' \in [Keys -> Nat]
    BY <1>1, <1>2
  <1>5. Shape' /\ OneChangePerVersion'
    BY <1>1, <1>3, <1>4 DEF OneChangePerVersion
  <1>6. \A j \in Keys : Pending(j)' = Pending(j)
    <2> SUFFICES ASSUME NEW j \in Keys PROVE Pending(j)' = Pending(j)
      OBVIOUS
    <2>1. CASE j = k
      BY <1>1, <2>1 DEF Pending
    <2>2. CASE j # k
      <3>1. items'[j] = items[j] /\ clientState'[j] = clientState[j]
        BY <1>1, <2>2
      <3> QED BY <3>1 DEF Pending
    <2> QED BY <2>1, <2>2
  <1>7. StoreFollowsServer'
    BY <1>1, <1>6 DEF StoreFollowsServer, Seen
  <1> QED BY <1>5, <1>7

\* Every step preserves the invariant; a failing watch touches nothing of it.
LEMMA FollowNext == FollowInv /\ [Next]_vars => FollowInv'
  <1> SUFFICES ASSUME FollowInv, [Next]_vars PROVE FollowInv'
    OBVIOUS
  <1>1. ASSUME NEW k \in Keys, Write(k) \/ Remove(k) PROVE FollowInv'
    BY <1>1, ServerSteps
  <1>2. CASE ListAndWatch
    BY <1>2, ListStep
  <1>3. CASE WatchEvent
    BY <1>3, WatchStep
  <1>4. CASE WatchFails \/ UNCHANGED vars
    <2>1. UNCHANGED <<items, clientState, hist, resourceVersion, diverged>>
      BY <1>4 DEF WatchFails, vars, fifoVars, reflectorVars
    <2> QED BY <2>1 DEF FollowInv, Shape, OneChangePerVersion, StoreFollowsServer, Pending, Seen
  <1>5. CASE ResyncTick
    BY <1>5, ResyncStep
  <1>6. CASE Process
    BY <1>6, ProcessStep
  <1> QED BY <1>1, <1>2, <1>3, <1>4, <1>5, <1>6 DEF Next

\* For every set of keys and all bounds, the store follows the server on every
\* key that no relist and no resync led astray.
THEOREM FollowsServer == Spec => []StoreFollowsServer
  <1>1. Init => FollowInv
    BY FollowInit
  <1>2. FollowInv /\ [Next]_vars => FollowInv'
    BY FollowNext
  <1>3. FollowInv => StoreFollowsServer
    BY DEF FollowInv
  <1> QED BY <1>1, <1>2, <1>3, PTL DEF Spec

-----------------------------------------------------------------------------
(* The queue and the items.                                                *)

\* A key is in the queue once.
Distinct(q) == \A i, j \in DOMAIN q : q[i] = q[j] => i = j
Elements(q) == {q[i] : i \in DOMAIN q}

\* Whatever order the keys of S are appended in, each is appended once.
LEMMA OrdersAreDistinct ==
    ASSUME NEW S \in SUBSET Keys, NEW s \in Orders(S)
    PROVE  s \in Seq(Keys) /\ Len(s) = Cardinality(S) /\ Distinct(s) /\ Elements(s) = S
  <1>1. IsFiniteSet(S) /\ Cardinality(S) \in Nat
    BY KeysFinite, FS_Subset, FS_CardinalityType
  <1> DEFINE n == Cardinality(S)
  <1>2. s \in [1..n -> S] /\ \A k \in S : \E i \in DOMAIN s : s[i] = k
    BY DEF Orders
  <1>3. s \in Surjection(1..n, S)
    BY <1>2 DEF Surjection
  <1>4. IsFiniteSet(1..n) /\ Cardinality(1..n) = n
    BY <1>1, FS_Interval
  <1>5. s \in Injection(1..n, S)
    BY <1>3, <1>4, FS_SurjSameCardinalityImpliesInj
  <1>6. Distinct(s)
    BY <1>2, <1>5 DEF Injection, IsInjective, Distinct
  <1>7. s \in Seq(Keys) /\ Len(s) = n
    BY <1>1, <1>2
  <1>8. Elements(s) = S
    BY <1>2 DEF Elements
  <1> QED BY <1>6, <1>7, <1>8

\* Appending distinct keys that are not in the queue keeps them distinct.
LEMMA ConcatDistinct ==
    ASSUME NEW q \in Seq(Keys), NEW s \in Seq(Keys), Distinct(q), Distinct(s),
           Elements(q) \cap Elements(s) = {}
    PROVE  /\ q \o s \in Seq(Keys) /\ Distinct(q \o s)
           /\ Elements(q \o s) = Elements(q) \cup Elements(s)
  <1>1. /\ q \o s \in Seq(Keys) /\ Len(q \o s) = Len(q) + Len(s)
        /\ DOMAIN (q \o s) = 1..(Len(q) + Len(s))
        /\ DOMAIN q = 1..Len(q) /\ DOMAIN s = 1..Len(s) /\ Len(q) \in Nat /\ Len(s) \in Nat
    OBVIOUS
  <1>2. \A i \in 1..(Len(q) + Len(s)) : (q \o s)[i] = IF i <= Len(q) THEN q[i] ELSE s[i - Len(q)]
    OBVIOUS
  <1>3. \A i \in 1..(Len(q) + Len(s)) : i > Len(q) => i - Len(q) \in 1..Len(s)
    BY <1>1
  <1>4. \A i \in 1..Len(q), j \in 1..Len(s) : q[i] # s[j]
    BY <1>1 DEF Elements
  <1>5. Distinct(q \o s)
    <2> SUFFICES ASSUME NEW i \in 1..(Len(q) + Len(s)), NEW j \in 1..(Len(q) + Len(s)),
                        (q \o s)[i] = (q \o s)[j]
                 PROVE  i = j
      BY <1>1 DEF Distinct
    <2>1. CASE i <= Len(q) /\ j <= Len(q)
      <3>1. i \in 1..Len(q) /\ j \in 1..Len(q) /\ q[i] = q[j]
        BY <1>1, <1>2, <2>1
      <3> QED BY <1>1, <3>1 DEF Distinct
    <2>2. CASE i > Len(q) /\ j > Len(q)
      <3>1. s[i - Len(q)] = s[j - Len(q)]
        BY <1>1, <1>2, <2>2
      <3>2. i - Len(q) = j - Len(q)
        BY <1>1, <1>3, <2>2, <3>1 DEF Distinct
      <3> QED BY <1>1, <3>2
    <2>3. CASE i <= Len(q) /\ j > Len(q)
      <3>1. i \in 1..Len(q) /\ j - Len(q) \in 1..Len(s) /\ q[i] = s[j - Len(q)]
        BY <1>1, <1>2, <1>3, <2>3
      <3> QED BY <1>4, <3>1
    <2>4. CASE i > Len(q) /\ j <= Len(q)
      <3>1. j \in 1..Len(q) /\ i - Len(q) \in 1..Len(s) /\ q[j] = s[i - Len(q)]
        BY <1>1, <1>2, <1>3, <2>4
      <3> QED BY <1>4, <3>1
    <2> QED BY <1>1, <2>1, <2>2, <2>3, <2>4
  <1>6. ASSUME NEW k PROVE k \in Elements(q \o s) <=> k \in Elements(q) \cup Elements(s)
    <2>1. ASSUME k \in Elements(q \o s) PROVE k \in Elements(q) \cup Elements(s)
      <3>1. PICK i \in 1..(Len(q) + Len(s)) : k = (q \o s)[i]
        BY <1>1, <2>1 DEF Elements
      <3>2. CASE i <= Len(q)
        <4>1. i \in 1..Len(q) /\ k = q[i]
          BY <1>1, <1>2, <3>1, <3>2
        <4> QED BY <1>1, <4>1 DEF Elements
      <3>3. CASE i > Len(q)
        <4>1. i - Len(q) \in 1..Len(s) /\ k = s[i - Len(q)]
          BY <1>1, <1>2, <1>3, <3>1, <3>3
        <4> QED BY <1>1, <4>1 DEF Elements
      <3> QED BY <1>1, <3>2, <3>3
    <2>2. ASSUME k \in Elements(q) PROVE k \in Elements(q \o s)
      <3>1. PICK i \in 1..Len(q) : k = q[i]
        BY <1>1, <2>2 DEF Elements
      <3>2. i \in 1..(Len(q) + Len(s)) /\ (q \o s)[i] = k
        BY <1>1, <1>2, <3>1
      <3> QED BY <1>1, <3>2 DEF Elements
    <2>3. ASSUME k \in Elements(s) PROVE k \in Elements(q \o s)
      <3>1. PICK i \in 1..Len(s) : k = s[i]
        BY <1>1, <2>3 DEF Elements
      <3>2. i + Len(q) \in 1..(Len(q) + Len(s)) /\ (q \o s)[i + Len(q)] = k
        BY <1>1, <1>2, <3>1
      <3> QED BY <1>1, <3>2 DEF Elements
    <2> QED BY <2>1, <2>2, <2>3
  <1> QED BY <1>1, <1>5, <1>6

\* Taking the head of the queue removes its key.
LEMMA TailDistinct ==
    ASSUME NEW q \in Seq(Keys), q # <<>>, Distinct(q)
    PROVE  /\ Head(q) \in Keys /\ Head(q) = q[1]
           /\ Tail(q) \in Seq(Keys) /\ Distinct(Tail(q))
           /\ Elements(Tail(q)) = Elements(q) \ {Head(q)}
  <1>1. /\ Head(q) \in Keys /\ Head(q) = q[1] /\ Tail(q) \in Seq(Keys)
        /\ DOMAIN q = 1..Len(q) /\ DOMAIN Tail(q) = 1..(Len(q) - 1)
        /\ Len(q) \in Nat /\ Len(q) >= 1
    OBVIOUS
  <1>2. \A i \in 1..(Len(q) - 1) : Tail(q)[i] = q[i + 1] /\ i + 1 \in 1..Len(q)
    BY <1>1
  <1>3. Distinct(Tail(q))
    <2> SUFFICES ASSUME NEW i \in 1..(Len(q) - 1), NEW j \in 1..(Len(q) - 1), Tail(q)[i] = Tail(q)[j]
                 PROVE  i = j
      BY <1>1 DEF Distinct
    <2>1. i + 1 = j + 1
      BY <1>1, <1>2 DEF Distinct
    <2> QED BY <2>1
  <1>4. ASSUME NEW k PROVE k \in Elements(Tail(q)) <=> k \in Elements(q) \ {Head(q)}
    <2>1. ASSUME k \in Elements(Tail(q)) PROVE k \in Elements(q) \ {Head(q)}
      <3>1. PICK i \in 1..(Len(q) - 1) : k = q[i + 1] /\ i + 1 \in 1..Len(q)
        BY <1>1, <1>2, <2>1 DEF Elements
      <3>2. k # q[1]
        <4>1. i + 1 # 1 /\ 1 \in 1..Len(q)
          BY <1>1, <3>1
        <4> QED BY <1>1, <3>1, <4>1 DEF Distinct
      <3> QED BY <1>1, <3>1, <3>2 DEF Elements
    <2>2. ASSUME k \in Elements(q), k # Head(q) PROVE k \in Elements(Tail(q))
      <3>1. PICK i \in 1..Len(q) : k = q[i]
        BY <1>1, <2>2 DEF Elements
      <3>2. i - 1 \in 1..(Len(q) - 1) /\ (i - 1) + 1 = i
        BY <1>1, <2>2, <3>1
      <3>3. Tail(q)[i - 1] = k
        BY <1>2, <3>1, <3>2
      <3> QED BY <1>1, <3>2, <3>3 DEF Elements
    <2> QED BY <2>1, <2>2
  <1> QED BY <1>1, <1>3, <1>4

\* The keys in the queue are those with deltas, each once.
QueueOK ==
    /\ queue \in Seq(Keys) /\ Distinct(queue)
    /\ Elements(queue) = {k \in Keys : items[k] # <<>>}

\* Keys are queued behind those that are queued.
Precedes(q, r) == \A i \in DOMAIN q : i \in DOMAIN r /\ r[i] = q[i]

\* The length of a concatenation.
LEMMA ConcatLength ==
    ASSUME NEW S, NEW q \in Seq(S), NEW r \in Seq(S)
    PROVE  Len(q \o r) = Len(q) + Len(r)
    OBVIOUS

\* queueActionLocked queues the key if it had no deltas, behind the others.
LEMMA QueueEnqueue ==
    ASSUME Shape, QueueOK, NEW k \in Keys, NEW d \in Delta, Enqueue(k, d)
    PROVE  QueueOK' /\ Precedes(queue, queue')
  <1>1. /\ items[k] \in Seq(Delta) /\ queue \in Seq(Keys)
        /\ items' = [items EXCEPT ![k] = queueActionLocked(items[k], d)]
        /\ queue' = IF items[k] = <<>> THEN Append(queue, k) ELSE queue
    BY DEF Enqueue, Shape, QueueOK
  <1>2. queueActionLocked(items[k], d) # <<>>
    BY <1>1, QueueAction
  <1>3. {j \in Keys : items'[j] # <<>>} = {j \in Keys : items[j] # <<>>} \cup {k}
    BY <1>1, <1>2 DEF Shape
  <1>4. CASE items[k] # <<>>
    BY <1>1, <1>3, <1>4 DEF QueueOK, Precedes
  <1>5. CASE items[k] = <<>>
    <2>1. queue' = Append(queue, k) /\ k \notin Elements(queue)
      BY <1>1, <1>5 DEF QueueOK
    <2>2. /\ queue' \in Seq(Keys) /\ DOMAIN queue' = 1..(Len(queue) + 1) /\ Len(queue) \in Nat
          /\ DOMAIN queue = 1..Len(queue)
          /\ queue'[Len(queue) + 1] = k
          /\ \A i \in 1..Len(queue) : queue'[i] = queue[i]
      BY <1>1, <2>1
    <2>3. \A i \in 1..(Len(queue) + 1) : i \in 1..Len(queue) \/ i = Len(queue) + 1
      BY <2>2
    <2>4. Distinct(queue')
      <3> SUFFICES ASSUME NEW i \in 1..(Len(queue) + 1), NEW j \in 1..(Len(queue) + 1),
                          queue'[i] = queue'[j]
                   PROVE  i = j
        BY <2>2 DEF Distinct
      <3>1. \A h \in 1..Len(queue) : queue[h] # k
        BY <2>1, <2>2 DEF Elements
      <3> QED BY <2>2, <2>3, <3>1 DEF Distinct, QueueOK
    <2>5. Elements(queue') = Elements(queue) \cup {k}
      BY <2>2, <2>3 DEF Elements
    <2>6. Precedes(queue, queue')
      BY <2>2 DEF Precedes
    <2> QED BY <1>3, <2>2, <2>4, <2>5, <2>6 DEF QueueOK
  <1> QED BY <1>4, <1>5

\* The same for two sets of keys; into an empty queue the first set goes first.
LEMMA QueueEnqueueAll ==
    ASSUME Shape, QueueOK, NEW first \in SUBSET Keys, NEW second \in SUBSET Keys,
           first \cap second = {},
           NEW delta \in [Keys -> Delta], EnqueueAll(first, second, delta)
    PROVE  /\ QueueOK' /\ Precedes(queue, queue')
           /\ (\A k \in Keys : items[k] = <<>>) =>
                 \A k \in first : \E i \in DOMAIN queue' : i =< Cardinality(first) /\ queue'[i] = k
  <1> DEFINE S == {k \in first : items[k] = <<>>}
             T == {k \in second : items[k] = <<>>}
  <1>1. items' = [k \in Keys |-> IF k \in first \cup second
                                 THEN queueActionLocked(items[k], delta[k]) ELSE items[k]]
    BY DEF EnqueueAll
  <1>2. \A k \in Keys : items[k] \in Seq(Delta) /\ delta[k] \in Delta
    BY DEF Shape
  <1>3. \A k \in Keys : queueActionLocked(items[k], delta[k]) # <<>>
    BY <1>2, QueueAction
  <1>4. {k \in Keys : items'[k] # <<>>} = {k \in Keys : items[k] # <<>>} \cup S \cup T
    BY <1>1, <1>3
  <1>5. PICK s \in Orders(S), t \in Orders(T) : queue' = queue \o s \o t
    BY DEF EnqueueAll
  <1>6. S \in SUBSET Keys /\ T \in SUBSET Keys
    OBVIOUS
  <1>7. /\ s \in Seq(Keys) /\ Len(s) = Cardinality(S) /\ Distinct(s) /\ Elements(s) = S
        /\ t \in Seq(Keys) /\ Distinct(t) /\ Elements(t) = T
    BY <1>6, OrdersAreDistinct
  <1>8. /\ Elements(queue) \cap S = {} /\ (Elements(queue) \cup S) \cap T = {}
        /\ queue \in Seq(Keys) /\ Distinct(queue)
    BY DEF QueueOK
  <1> HIDE DEF S, T
  <1>9. /\ queue \o s \in Seq(Keys) /\ Distinct(queue \o s)
        /\ Elements(queue \o s) = Elements(queue) \cup S
    BY <1>7, <1>8, ConcatDistinct
  <1>10. /\ queue' \in Seq(Keys) /\ Distinct(queue')
         /\ Elements(queue') = Elements(queue) \cup S \cup T
    BY <1>5, <1>7, <1>8, <1>9, ConcatDistinct
  <1>11. QueueOK'
    BY <1>4, <1>10 DEF QueueOK
  <1>12. /\ \A i \in 1..Len(queue) : i \in DOMAIN queue' /\ queue'[i] = queue[i]
         /\ \A i \in 1..Len(s) : i + Len(queue) \in DOMAIN queue' /\ queue'[i + Len(queue)] = s[i]
    <2>1. Len(queue) \in Nat /\ Len(s) \in Nat /\ Len(t) \in Nat
      BY <1>7, <1>8
    <2>2. /\ Len(queue \o s) = Len(queue) + Len(s)
          /\ DOMAIN queue' = 1..((Len(queue) + Len(s)) + Len(t))
      <3>1. Len(queue \o s) = Len(queue) + Len(s)
        BY <1>7, <1>8, ConcatLength
      <3>2. Len((queue \o s) \o t) = Len(queue \o s) + Len(t)
        BY <1>7, <1>9, ConcatLength
      <3>3. DOMAIN queue' = 1..Len(queue') /\ Len(queue') = Len((queue \o s) \o t)
        BY <1>5, <1>10
      <3> QED BY <3>1, <3>2, <3>3
    <2>3. /\ \A i \in 1..Len(queue) : (queue \o s)[i] = queue[i]
          /\ \A i \in 1..Len(s) : (queue \o s)[i + Len(queue)] = s[i]
      BY <1>7, <1>8
    <2>4. \A i \in 1..(Len(queue) + Len(s)) : queue'[i] = (queue \o s)[i]
      BY <1>5, <1>7, <1>9, <2>2
    <2>5. \A i \in 1..Len(queue) : i \in 1..(Len(queue) + Len(s)) /\ i \in 1..((Len(queue) + Len(s)) + Len(t))
      BY <2>1
    <2>6. \A i \in 1..Len(s) : /\ i + Len(queue) \in 1..(Len(queue) + Len(s))
                               /\ i + Len(queue) \in 1..((Len(queue) + Len(s)) + Len(t))
      BY <2>1
    <2> QED BY <2>2, <2>3, <2>4, <2>5, <2>6
  <1>13. Precedes(queue, queue')
    <2>1. DOMAIN queue = 1..Len(queue)
      BY <1>8
    <2> QED BY <1>12, <2>1 DEF Precedes
  <1>14. ASSUME \A k \in Keys : items[k] = <<>>, NEW k \in first
         PROVE  \E i \in DOMAIN queue' : i =< Cardinality(first) /\ queue'[i] = k
    <2>1. S = first
      BY <1>14 DEF S
    <2>2. Elements(queue) = {}
      BY <1>14 DEF QueueOK
    <2>3. Len(queue) = 0
      BY <1>8, <2>2 DEF Elements
    <2>4. DOMAIN s = 1..Len(s) /\ Len(s) \in Nat
      BY <1>7
    <2>5. PICK i \in 1..Len(s) : s[i] = k
      BY <1>7, <2>1, <2>4 DEF Elements
    <2>6. i + Len(queue) = i /\ i =< Cardinality(first)
      BY <1>7, <2>1, <2>3, <2>4, <2>5
    <2> QED BY <1>12, <2>5, <2>6
  <1> QED BY <1>11, <1>13, <1>14

-----------------------------------------------------------------------------
(* What the steps of the reflector put into the queue.                     *)

\* An event of the watch queues one delta, or none for a deletion of an object
\* that nothing is known of.
LEMMA WatchEffect ==
    ASSUME Shape, WatchEvent
    PROVE  /\ UNCHANGED <<clientState, notified, initialPopulationCount, unlisted, hist, resyncs>>
           /\ populated' = TRUE
           /\ resourceVersion' = resourceVersion + 1 /\ resourceVersion' \in 0..(Len(hist) - 1)
           /\ \/ UNCHANGED <<items, queue>>
              \/ \E k \in Keys, d \in Delta :
                    /\ Enqueue(k, d) /\ d.type # "Sync"
                    /\ d.type = "Deleted" => clientState[k] # 0 \/ items[k] # <<>>
                    /\ d.type = "Deleted" => d.obj = hist[resourceVersion + 1][k]
                    /\ d.type # "Deleted" => d.obj = hist[resourceVersion + 2][k] /\ d.obj # 0
  <1> USE DEF Shape
  <1> DEFINE next == hist[resourceVersion + 2]
  <1>1. /\ UNCHANGED <<unlisted, hist, resyncs>>
        /\ resourceVersion' = resourceVersion + 1 /\ resourceVersion < rv
    BY DEF WatchEvent
  <1>2. resourceVersion + 1 \in 0..(Len(hist) - 1) /\ next \in [Keys -> Nat] /\ Seen \in [Keys -> Nat]
    BY <1>1 DEF rv, Seen
  <1>3. PICK k \in {j \in Keys : next[j] # Seen[j]} :
             \/ next[k] = 0 /\ Delete(k, Seen[k])
             \/ next[k] # 0 /\ Seen[k] = 0 /\ Set(k, "Added", next[k])
             \/ next[k] # 0 /\ Seen[k] # 0 /\ Set(k, "Updated", next[k])
    BY DEF WatchEvent
  <1>4. UNCHANGED <<clientState, notified, initialPopulationCount>> /\ populated' = TRUE
    BY <1>3 DEF Delete, Set
  <1>5. CASE Delete(k, Seen[k]) /\ clientState[k] = 0 /\ items[k] = <<>>
    <2>1. UNCHANGED <<items, queue>>
      BY <1>5 DEF Delete
    <2> QED BY <1>1, <1>2, <1>4, <2>1
  <1>6. CASE Delete(k, Seen[k]) /\ ~(clientState[k] = 0 /\ items[k] = <<>>)
    <2> DEFINE d == Change("Deleted", Seen[k])
    <2>1. Enqueue(k, d)
      BY <1>6 DEF Delete
    <2>2. d \in Delta /\ d.type = "Deleted" /\ d.obj = hist[resourceVersion + 1][k]
      BY <1>2, DeltasTyped DEF DeltaTypes, Change, Seen
    <2> HIDE DEF d
    <2> QED BY <1>1, <1>2, <1>4, <1>6, <2>1, <2>2
  <1>7. ASSUME NEW type \in {"Added", "Updated"}, Set(k, type, next[k]), next[k] # 0
        PROVE  \E d \in Delta : /\ Enqueue(k, d) /\ d.type \notin {"Sync", "Deleted"}
                                /\ d.obj = next[k]
    <2> DEFINE d == Change(type, next[k])
    <2>1. Enqueue(k, d)
      BY <1>7 DEF Set
    <2>2. d \in Delta /\ d.type \notin {"Sync", "Deleted"} /\ d.obj = next[k]
      BY <1>2, DeltasTyped DEF DeltaTypes, Change
    <2> HIDE DEF d
    <2> QED BY <2>1, <2>2
  <1> QED BY <1>1, <1>2, <1>3, <1>4, <1>5, <1>6, <1>7

\* A list at version r queues a Sync for each listed object and a deletion for
\* each known one that is not listed.
Listed(r, first, second, delta) ==
    /\ r >= resourceVersion /\ resourceVersion' = r
    /\ first \cap second = {} /\ EnqueueAll(first, second, delta)
    /\ first = {k \in Keys : hist[r + 1][k] # 0}
    /\ \A k \in first : delta[k].type = "Sync" /\ delta[k].obj = hist[r + 1][k]
    /\ \A k \in second : /\ delta[k].type = "Deleted" /\ clientState[k] # 0
                         /\ delta[k].obj = clientState[k]
    /\ populated' = TRUE
    /\ initialPopulationCount' = IF populated THEN initialPopulationCount ELSE Cardinality(first)
    /\ unlisted' = IF populated THEN unlisted ELSE first
    /\ UNCHANGED <<clientState, notified, hist, resyncs>>

\* That is what ListAndWatch does, at a version it has not passed.
LEMMA ListEffect ==
    ASSUME Shape, ListAndWatch
    PROVE  \E r \in 0..(Len(hist) - 1), first \in SUBSET Keys,
                 second \in SUBSET Keys, delta \in [Keys -> Delta] : Listed(r, first, second, delta)
  <1> USE DEF Shape
  <1>1. PICK r \in resourceVersion..rv :
          /\ Replace(hist[r + 1])
          /\ resourceVersion' = r
          /\ unlisted' = IF populated THEN unlisted ELSE {k \in Keys : hist[r + 1][k] # 0}
    BY DEF ListAndWatch
  <1> DEFINE list   == hist[r + 1]
             listed == {k \in Keys : list[k] # 0}
             gone   == {k \in Keys : clientState[k] # 0} \ listed
             delta  == [k \in Keys |-> IF k \in listed THEN Change("Sync", list[k])
                                       ELSE FinalStateUnknown(clientState[k])]
  <1>2. r \in 0..(Len(hist) - 1) /\ r >= resourceVersion /\ list \in [Keys -> Nat]
    BY <1>1 DEF rv
  <1>3. delta \in [Keys -> Delta]
    <2>1. "Sync" \in DeltaTypes
      BY DEF DeltaTypes
    <2>2. \A k \in Keys : Change("Sync", list[k]) \in Delta /\ FinalStateUnknown(clientState[k]) \in Delta
      BY <1>2, <2>1, DeltasTyped
    <2> QED BY <2>2
  <1>4. /\ EnqueueAll(listed, gone, delta) /\ UNCHANGED <<clientState, notified>>
        /\ populated' = TRUE
        /\ initialPopulationCount' = IF populated THEN initialPopulationCount ELSE Cardinality(listed)
    BY <1>1 DEF Replace
  <1>5. UNCHANGED <<hist, resyncs>>
    BY DEF ListAndWatch
  <1>6. listed \in SUBSET Keys /\ gone \in SUBSET Keys /\ listed \cap gone = {}
    OBVIOUS
  <1>7. \A k \in listed : delta[k].type = "Sync" /\ delta[k].obj = list[k]
    BY DEF Change
  <1>8. \A k \in gone : /\ delta[k].type = "Deleted" /\ clientState[k] # 0
                        /\ delta[k].obj = clientState[k]
    BY DEF FinalStateUnknown
  <1>9. listed = {k \in Keys : hist[r + 1][k] # 0} /\ unlisted' = IF populated THEN unlisted ELSE listed
    BY <1>1
  <1> HIDE DEF delta, listed, gone
  <1>10. Listed(r, listed, gone, delta)
    BY <1>1, <1>2, <1>4, <1>5, <1>6, <1>7, <1>8, <1>9 DEF Listed
  <1> QED BY <1>2, <1>3, <1>6, <1>10, Zenon

\* A resync queues a Sync for each known object.
LEMMA ResyncEffect ==
    ASSUME Shape, ResyncTick
    PROVE  /\ UNCHANGED <<clientState, notified, populated, initialPopulationCount, unlisted, hist>>
           /\ resyncs' = resyncs + 1
           /\ \E first \in SUBSET Keys, delta \in [Keys -> Delta] :
                 /\ EnqueueAll(first, {}, delta)
                 /\ \A k \in first : /\ delta[k].type = "Sync" /\ clientState[k] # 0
                                     /\ delta[k].obj = clientState[k]
  <1> USE DEF Shape
  <1> DEFINE known == {k \in Keys : clientState[k] # 0}
             delta == [k \in Keys |-> Change("Sync", clientState[k])]
  <1>1. /\ EnqueueAll(known, {}, delta)
        /\ UNCHANGED <<clientState, notified, populated, initialPopulationCount, unlisted, hist>>
        /\ resyncs' = resyncs + 1
    BY DEF ResyncTick, Resync
  <1>2. \A k \in Keys : Change("Sync", clientState[k]) \in Delta
    BY DeltasTyped DEF DeltaTypes
  <1>3. delta \in [Keys -> Delta] /\ known \in SUBSET Keys
    BY <1>2
  <1>4. \A k \in known : /\ delta[k].type = "Sync" /\ clientState[k] # 0
                         /\ delta[k].obj = clientState[k]
    BY DEF Change
  <1> HIDE DEF delta, known
  <1> QED BY <1>1, <1>3, <1>4
-----------------------------------------------------------------------------
(* The queue holds the keys with pending deltas, each once.                *)

\* Every step keeps the queue and the items in agreement.
LEMMA QueueNext ==
    ASSUME FollowInv, QueueOK, [Next]_vars
    PROVE  QueueOK'
  <1>0. Shape
    BY DEF FollowInv
  <1>1. CASE UNCHANGED <<items, queue>>
    BY <1>1 DEF QueueOK, Distinct, Elements
  <1>2. ASSUME NEW k \in Keys, Write(k) \/ Remove(k) PROVE QueueOK'
    BY <1>1, <1>2 DEF Write, Remove, fifoVars
  <1>3. CASE WatchFails \/ UNCHANGED vars
    BY <1>1, <1>3 DEF WatchFails, vars, fifoVars
  <1>4. CASE ListAndWatch
    <2>1. PICK r \in 0..(Len(hist) - 1), first \in SUBSET Keys, second \in SUBSET Keys,
               delta \in [Keys -> Delta] : Listed(r, first, second, delta)
      BY <1>0, <1>4, ListEffect, Zenon
    <2>2. first \cap second = {} /\ EnqueueAll(first, second, delta)
      BY <2>1 DEF Listed
    <2> QED BY <1>0, <2>2, QueueEnqueueAll
  <1>5. CASE WatchEvent
    <2>1. UNCHANGED <<items, queue>> \/ \E k \in Keys, d \in Delta : Enqueue(k, d)
      BY <1>0, <1>5, WatchEffect
    <2> QED BY <1>0, <1>1, <2>1, QueueEnqueue
  <1>6. CASE ResyncTick
    <2>1. PICK first \in SUBSET Keys, delta \in [Keys -> Delta] : EnqueueAll(first, {}, delta)
      BY <1>0, <1>6, ResyncEffect
    <2>2. {} \in SUBSET Keys /\ first \cap {} = {}
      OBVIOUS
    <2> QED BY <1>0, <2>1, <2>2, QueueEnqueueAll
  <1>7. CASE Process
    <2>1. /\ queue # <<>> /\ queue' = Tail(queue) /\ items' = [items EXCEPT ![Head(queue)] = <<>>]
      BY <1>7 DEF Process, Pop
    <2>2. /\ Tail(queue) \in Seq(Keys) /\ Distinct(Tail(queue))
          /\ Elements(Tail(queue)) = Elements(queue) \ {Head(queue)}
      BY <2>1, TailDistinct DEF QueueOK
    <2>3. {k \in Keys : items'[k] # <<>>} = {k \in Keys : items[k] # <<>>} \ {Head(queue)}
      BY <1>0, <2>1 DEF Shape
    <2> QED BY <2>1, <2>2, <2>3 DEF QueueOK
  <1> QED BY <1>2, <1>3, <1>4, <1>5, <1>6, <1>7 DEF Next

LEMMA QueueInit == Init => QueueOK
  BY DEF Init, FifoInit, QueueOK, Distinct, Elements

\* For every set of keys and all bounds, the items and the queue hold the same
\* keys and the queue holds each of them once.
THEOREM QueueMatchesItems == Spec => []ItemsMatchQueue
  <1>1. Init => FollowInv /\ QueueOK
    BY FollowInit, QueueInit
  <1>2. FollowInv /\ QueueOK /\ [Next]_vars => FollowInv' /\ QueueOK'
    BY FollowNext, QueueNext
  <1>3. QueueOK => ItemsMatchQueue
    BY DEF QueueOK, ItemsMatchQueue, Distinct, Elements
  <1> QED BY <1>1, <1>2, <1>3, PTL DEF Spec

-----------------------------------------------------------------------------
(* HasSynced.                                                              *)

\* The keys of the first list that were not popped yet are among the first
\* initialPopulationCount of the queue, and nothing is known before that list.
SyncInv ==
    /\ populated \in BOOLEAN
    /\ initialPopulationCount \in Nat
    /\ \A k \in unlisted : \E i \in DOMAIN queue : i =< initialPopulationCount /\ queue[i] = k
    /\ ~populated => \A k \in Keys : items[k] = <<>> /\ clientState[k] = 0

\* Only a Pop takes a key of the first list out of the queue, and counts it.
LEMMA SyncNext ==
    ASSUME FollowInv, QueueOK, SyncInv, [Next]_vars
    PROVE  SyncInv'
  <1>0. Shape
    BY DEF FollowInv
  <1>1. CASE UNCHANGED <<items, queue, populated, initialPopulationCount, clientState, unlisted>>
    BY <1>1 DEF SyncInv
  <1>2. ASSUME NEW k \in Keys, Write(k) \/ Remove(k) PROVE SyncInv'
    BY <1>1, <1>2 DEF Write, Remove, fifoVars
  <1>3. CASE WatchFails \/ UNCHANGED vars
    BY <1>1, <1>3 DEF WatchFails, vars, fifoVars
  <1>4. ASSUME Precedes(queue, queue'), UNCHANGED <<initialPopulationCount, unlisted>>
        PROVE  \A k \in unlisted' : \E i \in DOMAIN queue' : i =< initialPopulationCount' /\ queue'[i] = k
    BY <1>4 DEF Precedes, SyncInv
  <1>5. CASE ListAndWatch
    <2>0. PICK r \in 0..(Len(hist) - 1), first \in SUBSET Keys, second \in SUBSET Keys,
               delta \in [Keys -> Delta] : Listed(r, first, second, delta)
      BY <1>0, <1>5, ListEffect, Zenon
    <2>1. /\ first \cap second = {} /\ EnqueueAll(first, second, delta)
          /\ populated' = TRUE
          /\ initialPopulationCount' = IF populated THEN initialPopulationCount ELSE Cardinality(first)
          /\ unlisted' = IF populated THEN unlisted ELSE first
      BY <2>0 DEF Listed
    <2>2. /\ Precedes(queue, queue')
          /\ (\A k \in Keys : items[k] = <<>>) =>
                \A k \in first : \E i \in DOMAIN queue' : i =< Cardinality(first) /\ queue'[i] = k
      BY <1>0, <2>1, QueueEnqueueAll
    <2>3. CASE populated
      BY <1>4, <2>1, <2>2, <2>3 DEF SyncInv
    <2>4. CASE ~populated
      <3>1. Cardinality(first) \in Nat
        BY KeysFinite, FS_Subset, FS_CardinalityType
      <3>2. unlisted' = first /\ initialPopulationCount' = Cardinality(first)
        BY <2>1, <2>4
      <3> QED BY <2>1, <2>2, <2>4, <3>1, <3>2 DEF SyncInv
    <2> QED BY <2>3, <2>4
  <1>6. CASE WatchEvent
    <2>1. /\ populated' = TRUE /\ UNCHANGED <<initialPopulationCount, unlisted>>
          /\ UNCHANGED queue \/ \E k \in Keys, d \in Delta : Enqueue(k, d)
      BY <1>0, <1>6, WatchEffect
    <2>2. Precedes(queue, queue)
      BY DEF Precedes
    <2>3. Precedes(queue, queue')
      BY <1>0, <2>1, <2>2, QueueEnqueue
    <2> QED BY <1>4, <2>1, <2>3 DEF SyncInv
  <1>7. CASE ResyncTick
    <2>1. /\ UNCHANGED <<clientState, populated, initialPopulationCount, unlisted>>
          /\ \E first \in SUBSET Keys, delta \in [Keys -> Delta] :
                 /\ EnqueueAll(first, {}, delta)
                 /\ \A k \in first : clientState[k] # 0
      BY <1>0, <1>7, ResyncEffect
    <2>2. PICK first \in SUBSET Keys, delta \in [Keys -> Delta] :
             /\ EnqueueAll(first, {}, delta)
             /\ \A k \in first : clientState[k] # 0
      BY <2>1
    <2>3. {} \in SUBSET Keys /\ first \cap {} = {}
      OBVIOUS
    <2>4. Precedes(queue, queue')
      BY <1>0, <2>2, <2>3, QueueEnqueueAll
    <2>5. \A k \in Keys : clientState[k] = 0 => items'[k] = items[k]
      BY <2>2 DEF EnqueueAll
    <2> QED BY <1>4, <2>1, <2>4, <2>5 DEF SyncInv
  <1>8. CASE Process
    <2>1. /\ queue # <<>> /\ queue' = Tail(queue) /\ populated' = populated
          /\ initialPopulationCount' = IF initialPopulationCount > 0 THEN initialPopulationCount - 1 ELSE 0
          /\ unlisted' = unlisted \ {Head(queue)}
      BY <1>8 DEF Process, Pop
    <2>2. queue \in Seq(Keys) /\ Len(queue) \in Nat /\ DOMAIN queue = 1..Len(queue) /\ Head(queue) = queue[1]
      BY <2>1 DEF QueueOK
    <2>3. DOMAIN queue' = 1..(Len(queue) - 1) /\ \A i \in 1..(Len(queue) - 1) : queue'[i] = queue[i + 1]
      BY <2>1, <2>2
    <2>4. ASSUME NEW k \in unlisted'
          PROVE  \E i \in DOMAIN queue' : i =< initialPopulationCount' /\ queue'[i] = k
      <3>1. PICK i \in 1..Len(queue) : i =< initialPopulationCount /\ queue[i] = k
        BY <2>1, <2>2, <2>4 DEF SyncInv
      <3>2. i # 1
        BY <2>1, <2>2, <2>4, <3>1
      <3>3. i - 1 \in 1..(Len(queue) - 1) /\ (i - 1) + 1 = i
        BY <2>2, <3>1, <3>2
      <3>4. i - 1 =< initialPopulationCount'
        BY <2>1, <3>1, <3>2 DEF SyncInv
      <3>5. queue'[i - 1] = k
        BY <2>3, <3>1, <3>3
      <3> QED BY <2>3, <3>3, <3>4, <3>5
    <2>5. populated
      <3>1. items[Head(queue)] # <<>> /\ Head(queue) \in Keys
        <4>1. 1 \in DOMAIN queue
          BY <2>1, <2>2
        <4> QED BY <2>2, <4>1 DEF QueueOK, Elements
      <3> QED BY <3>1 DEF SyncInv
    <2>6. initialPopulationCount' \in Nat
      BY <2>1 DEF SyncInv
    <2> QED BY <2>1, <2>4, <2>5, <2>6 DEF SyncInv
  <1> QED BY <1>2, <1>3, <1>5, <1>6, <1>7, <1>8 DEF Next

LEMMA SyncInit == Init => SyncInv
  <1> SUFFICES ASSUME Init PROVE SyncInv
    OBVIOUS
  <1>1. populated = FALSE /\ initialPopulationCount = 0 /\ unlisted = {}
    BY DEF Init, FifoInit
  <1>2. \A k \in Keys : items[k] = <<>> /\ clientState[k] = 0
    BY DEF Init, FifoInit
  <1> QED BY <1>1, <1>2 DEF SyncInv

\* For every set of keys and all bounds, HasSynced is true only when every
\* object of the first list was handed to the consumer.
THEOREM SyncedListIsPopped == Spec => []SyncedMeansListed
  <1>1. Init => FollowInv /\ QueueOK /\ SyncInv
    BY FollowInit, QueueInit, SyncInit
  <1>2. FollowInv /\ QueueOK /\ SyncInv /\ [Next]_vars => FollowInv' /\ QueueOK' /\ SyncInv'
    BY FollowNext, QueueNext, SyncNext
  <1>3. QueueOK /\ SyncInv => SyncedMeansListed
    <2> SUFFICES ASSUME QueueOK, SyncInv, HasSynced, NEW k \in unlisted PROVE FALSE
      BY DEF SyncedMeansListed
    <2>1. PICK i \in DOMAIN queue : i =< 0
      BY DEF SyncInv, HasSynced
    <2> QED BY <2>1 DEF QueueOK
  <1> QED BY <1>1, <1>2, <1>3, PTL DEF Spec
-----------------------------------------------------------------------------
(* Deletions.                                                              *)

\* The deltas of an object the store has at version c report no deletion
\* twice, and none of an object that is not there.
ReportedOnce(deltas, c) ==
    \A i \in DOMAIN deltas :
        deltas[i].type = "Deleted" =>
            IF i = 1 THEN c # 0 ELSE deltas[i - 1].type # "Deleted"

\* The three things queueActionLocked does with a delta.
LEMMA QueueActionCases ==
    ASSUME NEW deltas \in Seq(Delta), NEW d \in Delta
    PROVE  \/ queueActionLocked(deltas, d) = deltas /\ EndsDeleted(deltas) /\ d.type \in {"Sync", "Deleted"}
           \/ /\ queueActionLocked(deltas, d) = [deltas EXCEPT ![Len(deltas)] = d]
              /\ EndsDeleted(deltas) /\ d.type = "Deleted"
           \/ /\ queueActionLocked(deltas, d) = Append(deltas, d)
              /\ ~(EndsDeleted(deltas) /\ d.type = "Deleted")
  BY DEF queueActionLocked, dedupDeltas

\* dedupDeltas drops the second of two adjacent deletions.
LEMMA ActionReportsOnce ==
    ASSUME NEW deltas \in Seq(Delta), NEW d \in Delta, NEW c, ReportedOnce(deltas, c),
           deltas = <<>> /\ d.type = "Deleted" => c # 0
    PROVE  ReportedOnce(queueActionLocked(deltas, d), c)
  <1> DEFINE q == queueActionLocked(deltas, d)
             n == Len(deltas)
  <1>0. n \in Nat /\ DOMAIN deltas = 1..n
    OBVIOUS
  <1>1. CASE q = deltas
    BY <1>1
  <1>2. CASE q = [deltas EXCEPT ![n] = d] /\ EndsDeleted(deltas) /\ d.type = "Deleted"
    <2>1. n >= 1 /\ deltas[n].type = "Deleted"
      BY <1>0, <1>2 DEF EndsDeleted, Newest
    <2>2. DOMAIN q = 1..n /\ \A i \in 1..n : q[i].type = deltas[i].type
      BY <1>0, <1>2, <2>1
    <2>3. \A i \in 1..n : i # 1 => i - 1 \in 1..n
      BY <1>0
    <2> QED BY <1>0, <2>2, <2>3 DEF ReportedOnce
  <1>3. CASE q = Append(deltas, d) /\ ~(EndsDeleted(deltas) /\ d.type = "Deleted")
    <2>1. /\ DOMAIN q = 1..(n + 1) /\ q[n + 1] = d
          /\ \A i \in 1..n : q[i] = deltas[i]
      BY <1>0, <1>3
    <2> HIDE DEF q
    <2> SUFFICES ASSUME NEW i \in 1..(n + 1), q[i].type = "Deleted"
                 PROVE  IF i = 1 THEN c # 0 ELSE q[i - 1].type # "Deleted"
      BY <2>1 DEF ReportedOnce, q
    <2>2. CASE i \in 1..n
      <3>1. i # 1 => i - 1 \in 1..n
        BY <1>0, <2>2
      <3> QED BY <1>0, <2>1, <2>2, <3>1 DEF ReportedOnce
    <2>3. CASE i = n + 1 /\ n = 0
      <3>1. deltas = <<>> /\ i = 1
        BY <1>0, <2>3
      <3> QED BY <2>1, <2>3, <3>1
    <2>4. CASE i = n + 1 /\ n # 0
      <3>1. i # 1 /\ i - 1 = n /\ n \in 1..n /\ deltas # <<>>
        BY <1>0, <2>4
      <3>2. d.type = "Deleted"
        BY <2>1, <2>4
      <3>3. deltas[n].type # "Deleted"
        BY <1>3, <3>1, <3>2 DEF EndsDeleted, Newest
      <3> QED BY <2>1, <3>1, <3>3
    <2> QED BY <1>0, <2>2, <2>3, <2>4
  <1> QED BY <1>1, <1>2, <1>3, QueueActionCases

\* Delete and Replace queue a deletion of a known object only.
LEMMA DeletionsNext ==
    ASSUME FollowInv, DeletionsReportedOnce, [Next]_vars
    PROVE  DeletionsReportedOnce'
  <1>0. Shape /\ \A k \in Keys : items[k] \in Seq(Delta) /\ ReportedOnce(items[k], clientState[k])
    BY DEF FollowInv, Shape, DeletionsReportedOnce, ReportedOnce
  <1> SUFFICES \A k \in Keys : ReportedOnce(items'[k], clientState'[k])
    BY DEF DeletionsReportedOnce, ReportedOnce
  <1>1. CASE UNCHANGED <<items, clientState>>
    BY <1>0, <1>1
  <1>2. ASSUME NEW k \in Keys, Write(k) \/ Remove(k) PROVE UNCHANGED <<items, clientState>>
    BY <1>2 DEF Write, Remove, fifoVars
  <1>3. CASE WatchFails \/ UNCHANGED vars
    BY <1>1, <1>3 DEF WatchFails, vars, fifoVars
  <1>4. ASSUME NEW first \in SUBSET Keys, NEW second \in SUBSET Keys, NEW delta \in [Keys -> Delta],
               EnqueueAll(first, second, delta), UNCHANGED clientState,
               \A k \in first : delta[k].type = "Sync",
               \A k \in second : clientState[k] # 0
        PROVE  \A k \in Keys : ReportedOnce(items'[k], clientState'[k])
    <2> SUFFICES ASSUME NEW k \in Keys PROVE ReportedOnce(items'[k], clientState[k])
      BY <1>4
    <2>1. items'[k] = IF k \in first \cup second THEN queueActionLocked(items[k], delta[k]) ELSE items[k]
      BY <1>4 DEF EnqueueAll
    <2>2. CASE k \in first \cup second
      <3>1. delta[k].type = "Deleted" => clientState[k] # 0
        BY <1>4, <2>2
      <3>2. delta[k] \in Delta /\ items[k] \in Seq(Delta) /\ ReportedOnce(items[k], clientState[k])
        BY <1>0
      <3> QED BY <2>1, <2>2, <3>1, <3>2, ActionReportsOnce
    <2>3. CASE k \notin first \cup second
      BY <1>0, <2>1, <2>3
    <2> QED BY <2>2, <2>3
  <1>5. CASE ListAndWatch
    <2>1. PICK r \in 0..(Len(hist) - 1), first \in SUBSET Keys, second \in SUBSET Keys,
               delta \in [Keys -> Delta] : Listed(r, first, second, delta)
      BY <1>0, <1>5, ListEffect, Zenon
    <2>2. /\ EnqueueAll(first, second, delta) /\ UNCHANGED clientState
          /\ \A k \in first : delta[k].type = "Sync"
          /\ \A k \in second : clientState[k] # 0
      BY <2>1 DEF Listed
    <2> QED BY <1>4, <2>2
  <1>6. CASE ResyncTick
    <2>1. PICK first \in SUBSET Keys, delta \in [Keys -> Delta] :
             /\ EnqueueAll(first, {}, delta) /\ UNCHANGED clientState
             /\ \A k \in first : delta[k].type = "Sync"
      BY <1>0, <1>6, ResyncEffect
    <2>2. {} \in SUBSET Keys /\ \A k \in {} : clientState[k] # 0
      OBVIOUS
    <2> QED BY <1>4, <2>1, <2>2
  <1>7. CASE WatchEvent
    <2>1. /\ UNCHANGED clientState
          /\ \/ UNCHANGED items
             \/ \E k \in Keys, d \in Delta :
                   Enqueue(k, d) /\ (d.type = "Deleted" => clientState[k] # 0 \/ items[k] # <<>>)
      BY <1>0, <1>7, WatchEffect
    <2>2. ASSUME NEW k \in Keys, NEW d \in Delta, Enqueue(k, d),
                 d.type = "Deleted" => clientState[k] # 0 \/ items[k] # <<>>
          PROVE  \A j \in Keys : ReportedOnce(items'[j], clientState[j])
      <3>1. /\ items'[k] = queueActionLocked(items[k], d)
            /\ \A j \in Keys \ {k} : items'[j] = items[j]
        BY <1>0, <2>2 DEF Enqueue, Shape
      <3>2. ReportedOnce(queueActionLocked(items[k], d), clientState[k])
        BY <1>0, <2>2, ActionReportsOnce
      <3> QED BY <1>0, <3>1, <3>2
    <2> QED BY <1>1, <2>1, <2>2
  <1>8. CASE Process
    <2>1. /\ items' = [items EXCEPT ![Head(queue)] = <<>>]
          /\ clientState' = [clientState EXCEPT ![Head(queue)] = Pending(Head(queue))]
      BY <1>8 DEF Process, Pop
    <2>2. ASSUME NEW k \in Keys PROVE ReportedOnce(items'[k], clientState'[k])
      <3>1. CASE k = Head(queue)
        BY <1>0, <2>1, <3>1 DEF Shape, ReportedOnce
      <3>2. CASE k # Head(queue)
        <4>1. items'[k] = items[k] /\ clientState'[k] = clientState[k]
          BY <1>0, <2>1, <3>2 DEF Shape
        <4> QED BY <1>0, <4>1
      <3> QED BY <3>1, <3>2
    <2> QED BY <2>2
  <1> QED BY <1>1, <1>2, <1>3, <1>5, <1>6, <1>7, <1>8 DEF Next

\* For every set of keys and all bounds, a deletion is queued only of an object
\* that the store or an earlier delta has, and never twice in a row.
THEOREM DeletionsAreReportedOnce == Spec => []DeletionsReportedOnce
  <1>1. Init => FollowInv /\ DeletionsReportedOnce
    <2>1. Init => DeletionsReportedOnce
      BY DEF Init, FifoInit, DeletionsReportedOnce
    <2> QED BY <2>1, FollowInit
  <1>2. FollowInv /\ DeletionsReportedOnce /\ [Next]_vars => FollowInv' /\ DeletionsReportedOnce'
    BY FollowNext, DeletionsNext
  <1> QED BY <1>1, <1>2, PTL DEF Spec
-----------------------------------------------------------------------------
(* Freshness of the cache.                                                 *)

\* No version handed out or about to be is newer than v.
AllBelow(deltas, n, v) ==
    /\ n =< v
    /\ \A i \in DOMAIN deltas : deltas[i].type # "Deleted" => deltas[i].obj =< v

\* The server numbers the versions of an object upwards.
HistInv ==
    /\ \A r \in 1..Len(hist), k \in Keys : hist[r][k] =< r - 1
    /\ \A r \in 1..Len(hist), s \in 1..Len(hist), k \in Keys :
          r =< s /\ hist[s][k] # 0 => hist[r][k] =< hist[s][k]

\* What is known of k is not newer than any version of it that the reflector
\* has yet to see, and the newest delta of k is its newest version.
FreshKey(k) ==
    /\ notified[k] \in Nat
    /\ clientState[k] # 0 => notified[k] =< clientState[k]
    /\ AllBelow(items[k], notified[k], Len(hist) - 1)
    /\ \A s \in (resourceVersion + 1)..Len(hist) :
          hist[s][k] # 0 => AllBelow(items[k], notified[k], hist[s][k])
    /\ items[k] # <<>> /\ ~EndsDeleted(items[k]) =>
          AllBelow(items[k], notified[k], Newest(items[k]).obj)

FreshInv ==
    /\ HistInv
    /\ resyncs \in Nat
    /\ notified \in [Keys -> Nat] \/ resyncs # 0
    /\ resyncs = 0 => \A k \in Keys : FreshKey(k)

\* Every delta holds an object.
LEMMA ObjectsTyped ==
    ASSUME NEW deltas \in Seq(Delta), NEW i \in DOMAIN deltas
    PROVE  deltas[i] \in Delta /\ deltas[i].obj \in Nat
  <1>1. deltas[i] \in Delta
    OBVIOUS
  <1> QED BY <1>1 DEF Delta

\* A set of naturals with a bound has a largest element.
LEMMA Largest ==
    ASSUME NEW S \in SUBSET Nat, S # {}, NEW b \in Nat, \A x \in S : x =< b
    PROVE  \E x \in S : \A y \in S : y =< x
  <1> DEFINE T == {b - x : x \in S}
  <1>1. T \in SUBSET Nat /\ T # {}
    <2>1. \A x \in S : b - x \in Nat
      OBVIOUS
    <2> QED BY <2>1
  <1>2. PICK m \in T : \A y \in T : <<y, m>> \notin OpToRel(<, Nat)
    BY <1>1, WFMin, NatLessThanWellFounded, Zenon
  <1>3. \A y \in T : y \in Nat /\ m \in Nat /\ ~(y < m)
    BY <1>1, <1>2, Zenon DEF OpToRel
  <1>4. PICK x \in S : m = b - x
    OBVIOUS
  <1>5. ASSUME NEW y \in S PROVE y =< x
    BY <1>3, <1>4
  <1> QED BY <1>5

\* The newest version of the deltas is one of them, and none is newer.
LEMMA NewestTold ==
    ASSUME NEW deltas \in Seq(Delta), NEW n \in Nat, NEW b \in Nat, AllBelow(deltas, n, b)
    PROVE  /\ NewestVersion(Told(deltas), n) \in Nat
           /\ NewestVersion(Told(deltas), n) \in Told(deltas) \cup {n}
           /\ \A v \in Nat : AllBelow(deltas, n, v) => NewestVersion(Told(deltas), n) =< v
  <1> DEFINE S == Told(deltas) \cup {n}
  <1>1. \A i \in DOMAIN deltas : deltas[i].obj \in Nat
    BY ObjectsTyped
  <1>2. S \in SUBSET Nat /\ S # {}
    BY <1>1 DEF Told
  <1>3. \A v \in Nat : AllBelow(deltas, n, v) => \A x \in S : x =< v
    BY DEF AllBelow, Told
  <1>4. \E x \in S : \A y \in S : y =< x
    <2>1. \A x \in S : x =< b
      BY <1>3
    <2> HIDE DEF S
    <2> QED BY <1>2, <2>1, Largest
  <1>5. NewestVersion(Told(deltas), n) \in S
    BY <1>4 DEF NewestVersion
  <1> QED BY <1>2, <1>3, <1>5

\* queueActionLocked keeps a bound that the new delta respects, and a bound of
\* the old deltas that is the new delta is one of all.
LEMMA ActionBelow ==
    ASSUME NEW deltas \in Seq(Delta), NEW d \in Delta, NEW n \in Nat
    PROVE  /\ \A v \in Nat :
                 AllBelow(deltas, n, v) /\ (d.type # "Deleted" => d.obj =< v) =>
                     AllBelow(queueActionLocked(deltas, d), n, v)
           /\ (d.type # "Deleted" => AllBelow(deltas, n, d.obj)) /\ ~EndsDeleted(queueActionLocked(deltas, d)) =>
                 AllBelow(queueActionLocked(deltas, d), n, Newest(queueActionLocked(deltas, d)).obj)
  <1> DEFINE q == queueActionLocked(deltas, d)
             m == Len(deltas)
  <1>0. m \in Nat /\ DOMAIN deltas = 1..m /\ d.obj \in Nat
    BY DEF Delta
  <1>1. CASE q = deltas /\ EndsDeleted(deltas)
    BY <1>1
  <1>2. CASE q = [deltas EXCEPT ![m] = d] /\ EndsDeleted(deltas) /\ d.type = "Deleted"
    <2>1. m >= 1
      BY <1>0, <1>2 DEF EndsDeleted
    <2>2. DOMAIN q = 1..m /\ Len(q) = m /\ q[m] = d /\ \A i \in 1..m : i # m => q[i] = deltas[i]
      BY <1>0, <1>2, <2>1
    <2>3. q # <<>>
      BY QueueAction
    <2>4. EndsDeleted(q)
      BY <1>2, <2>2, <2>3 DEF EndsDeleted, Newest
    <2>5. \A v \in Nat : AllBelow(deltas, n, v) => AllBelow(q, n, v)
      BY <1>0, <1>2, <2>2 DEF AllBelow
    <2> QED BY <2>4, <2>5
  <1>3. CASE q = Append(deltas, d)
    <2>1. /\ DOMAIN q = 1..(m + 1) /\ Len(q) = m + 1 /\ q[m + 1] = d
          /\ \A i \in 1..m : q[i] = deltas[i]
          /\ q # <<>>
      BY <1>0, <1>3
    <2>2. \A i \in 1..(m + 1) : i \in 1..m \/ i = m + 1
      BY <1>0
    <2> HIDE DEF q
    <2>3. ASSUME NEW v \in Nat, AllBelow(deltas, n, v), d.type # "Deleted" => d.obj =< v
          PROVE  AllBelow(q, n, v)
      BY <1>0, <2>1, <2>2, <2>3 DEF AllBelow
    <2>4. ~EndsDeleted(q) => d.type # "Deleted"
      BY <2>1 DEF EndsDeleted, Newest
    <2>5. Newest(q).obj = d.obj /\ d.obj =< d.obj
      BY <1>0, <2>1 DEF Newest
    <2> QED BY <1>0, <2>3, <2>4, <2>5 DEF q
  <1> QED BY <1>1, <1>2, <1>3, QueueActionCases

\* A key stays fresh when the reflector moves on and the key is left alone or
\* gets a delta with the version the reflector has come to.
LEMMA FreshKeyKept ==
    ASSUME Shape, HistInv, NEW k \in Keys, FreshKey(k),
           UNCHANGED <<clientState, notified, hist>>,
           resourceVersion' \in resourceVersion..(Len(hist) - 1),
           \/ items'[k] = items[k]
           \/ \E d \in Delta :
                 /\ items'[k] = queueActionLocked(items[k], d)
                 /\ d.type # "Deleted" => d.obj = hist[resourceVersion' + 1][k] /\ d.obj # 0
    PROVE  FreshKey(k)'
  <1>0. /\ items[k] \in Seq(Delta) /\ Len(hist) \in Nat /\ resourceVersion \in Nat /\ Len(hist) - 1 \in Nat
        /\ hist \in Seq([Keys -> Nat]) /\ notified[k] \in Nat
    BY DEF Shape, FreshKey
  <1>1. (resourceVersion' + 1)..Len(hist) \subseteq (resourceVersion + 1)..Len(hist)
    BY <1>0
  <1>2. \A s \in (resourceVersion + 1)..Len(hist) : s \in 1..Len(hist) /\ hist[s][k] \in Nat
    BY <1>0
  <1>r. PICK r \in Nat : resourceVersion' = r /\ resourceVersion =< r /\ r =< Len(hist) - 1
    BY <1>0
  <1>s. /\ r + 1 \in (resourceVersion + 1)..Len(hist) /\ r + 1 \in 1..Len(hist)
        /\ (r + 1) - 1 =< Len(hist) - 1
        /\ \A s \in (r + 1)..Len(hist) : s \in 1..Len(hist) /\ r + 1 =< s
    BY <1>0, <1>r
  <1>3. CASE items'[k] = items[k]
    BY <1>1, <1>3 DEF FreshKey
  <1>4. ASSUME NEW d \in Delta, items'[k] = queueActionLocked(items[k], d),
               d.type # "Deleted" => d.obj = hist[resourceVersion' + 1][k] /\ d.obj # 0
        PROVE  FreshKey(k)'
    <2>1. resourceVersion' + 1 \in (resourceVersion + 1)..Len(hist)
      BY <1>r, <1>s
    <2>2. d.type # "Deleted" => AllBelow(items[k], notified[k], d.obj)
      BY <1>4, <2>1 DEF FreshKey
    <2>3. d.type # "Deleted" => d.obj =< Len(hist) - 1
      <3>1. resourceVersion' + 1 \in 1..Len(hist) /\ (resourceVersion' + 1) - 1 =< Len(hist) - 1
        BY <1>r, <1>s
      <3>2. hist[resourceVersion' + 1][k] =< (resourceVersion' + 1) - 1
        BY <3>1 DEF HistInv
      <3>3. hist[resourceVersion' + 1][k] \in Nat
        BY <1>2, <2>1
      <3> QED BY <1>0, <1>4, <3>1, <3>2, <3>3
    <2>4. \A s \in (resourceVersion' + 1)..Len(hist) :
             d.type # "Deleted" /\ hist[s][k] # 0 => d.obj =< hist[s][k]
      <3> SUFFICES ASSUME NEW s \in (resourceVersion' + 1)..Len(hist), d.type # "Deleted", hist[s][k] # 0
                   PROVE  d.obj =< hist[s][k]
        OBVIOUS
      <3>1. s \in 1..Len(hist) /\ resourceVersion' + 1 \in 1..Len(hist) /\ resourceVersion' + 1 =< s
        BY <1>r, <1>s
      <3> QED BY <1>4, <3>1 DEF HistInv
    <2>5. /\ \A v \in Nat :
                 AllBelow(items[k], notified[k], v) /\ (d.type # "Deleted" => d.obj =< v) =>
                     AllBelow(items'[k], notified[k], v)
          /\ ~EndsDeleted(items'[k]) => AllBelow(items'[k], notified[k], Newest(items'[k]).obj)
      BY <1>0, <1>4, <2>2, ActionBelow
    <2>6. AllBelow(items'[k], notified[k], Len(hist) - 1)
      BY <1>0, <2>3, <2>5 DEF FreshKey
    <2>7. \A s \in (resourceVersion' + 1)..Len(hist) :
             hist[s][k] # 0 => AllBelow(items'[k], notified[k], hist[s][k])
      BY <1>1, <1>2, <2>4, <2>5 DEF FreshKey
    <2> QED BY <2>5, <2>6, <2>7 DEF FreshKey
  <1> QED BY <1>3, <1>4

\* A write at the server gives the object a version above all that are known.
LEMMA FreshServerSteps ==
    ASSUME Shape, FreshInv, NEW k \in Keys, Write(k) \/ Remove(k)
    PROVE  FreshInv'
  <1> USE DEF Shape
  <1>0. Len(hist) \in Nat /\ Len(hist) - 1 \in Nat /\ Len(hist) \in 1..Len(hist) /\ Server \in [Keys -> Nat]
    BY DEF Server
  <1>1. PICK v \in {0, Len(hist)} : hist' = Append(hist, [Server EXCEPT ![k] = v])
    <2>1. rv + 1 = Len(hist)
      BY <1>0 DEF rv
    <2> QED BY <2>1 DEF Write, Remove
  <1>2. UNCHANGED <<items, clientState, notified, resourceVersion, resyncs>>
    BY DEF Write, Remove, fifoVars, reflectorVars
  <1>3. [Server EXCEPT ![k] = v] \in [Keys -> Nat]
    BY <1>0
  <1>4. /\ Len(hist') = Len(hist) + 1
        /\ \A i \in 1..Len(hist) : hist'[i] = hist[i]
        /\ hist'[Len(hist) + 1] = [Server EXCEPT ![k] = v]
    BY <1>1, <1>3
  <1>5. \A i \in 1..(Len(hist) + 1) : i \in 1..Len(hist) \/ i = Len(hist) + 1
    BY <1>0
  <1>6. \A j \in Keys : hist'[Len(hist) + 1][j] = IF j = k THEN v ELSE hist[Len(hist)][j]
    BY <1>0, <1>4 DEF Server
  <1>7. \A i \in 1..Len(hist), j \in Keys : hist[i][j] \in Nat /\ hist[i][j] =< Len(hist) - 1
    <2> SUFFICES ASSUME NEW i \in 1..Len(hist), NEW j \in Keys
                 PROVE  hist[i][j] \in Nat /\ hist[i][j] =< Len(hist) - 1
      OBVIOUS
    <2>1. hist[i][j] \in Nat /\ hist[i][j] =< i - 1
      BY DEF FreshInv, HistInv
    <2>2. \A n \in Nat : n =< i - 1 => n =< Len(hist) - 1
      BY <1>0
    <2> QED BY <2>1, <2>2
  <1>8. HistInv'
    <2>1. ASSUME NEW r \in 1..(Len(hist) + 1), NEW j \in Keys PROVE hist'[r][j] =< r - 1
      <3>1. CASE r \in 1..Len(hist)
        BY <1>4, <3>1 DEF FreshInv, HistInv
      <3>2. CASE r = Len(hist) + 1
        <4>1. hist'[r][j] = v \/ (hist'[r][j] =< Len(hist) - 1 /\ hist'[r][j] \in Nat)
          BY <1>0, <1>6, <1>7, <3>2
        <4>2. r - 1 = Len(hist)
          BY <1>0, <3>2
        <4>3. v =< Len(hist)
          BY <1>0
        <4>4. \A n \in Nat : n =< Len(hist) - 1 => n =< Len(hist)
          BY <1>0
        <4> QED BY <4>1, <4>2, <4>3, <4>4
      <3> QED BY <1>5, <3>1, <3>2
    <2>2. ASSUME NEW r \in 1..(Len(hist) + 1), NEW s \in 1..(Len(hist) + 1), NEW j \in Keys,
                 r =< s, hist'[s][j] # 0
          PROVE  hist'[r][j] =< hist'[s][j]
      <3>1. CASE s \in 1..Len(hist)
        <4>1. r \in 1..Len(hist)
          BY <1>0, <2>2, <3>1
        <4> QED BY <1>4, <2>2, <3>1, <4>1 DEF FreshInv, HistInv
      <3>2. CASE s = Len(hist) + 1 /\ r = Len(hist) + 1
        <4>1. hist'[r][j] = IF j = k THEN v ELSE hist[Len(hist)][j]
          BY <1>6, <3>2
        <4>2. v \in Nat /\ hist[Len(hist)][j] \in Nat
          <5>1. v \in Nat
            BY <1>0
          <5>2. hist[Len(hist)][j] \in Nat
            BY <1>0, <1>7
          <5> QED BY <5>1, <5>2
        <4>3. hist'[r][j] \in Nat
          BY <4>1, <4>2
        <4>4. s = r /\ \A n \in Nat : n =< n
          BY <3>2
        <4> QED BY <4>3, <4>4
      <3>3. CASE s = Len(hist) + 1 /\ r \in 1..Len(hist) /\ j = k
        <4>1. hist'[s][j] = Len(hist) /\ hist'[r][j] = hist[r][j]
          BY <1>4, <1>6, <2>2, <3>3
        <4> QED BY <1>0, <1>7, <3>3, <4>1
      <3>4. CASE s = Len(hist) + 1 /\ r \in 1..Len(hist) /\ j # k
        <4>0. r =< Len(hist)
          BY <1>0, <3>4
        <4>1. hist'[s][j] = hist[Len(hist)][j] /\ hist'[r][j] = hist[r][j] /\ r =< Len(hist)
          BY <1>4, <1>6, <3>4, <4>0
        <4> QED BY <1>0, <2>2, <3>4, <4>1 DEF FreshInv, HistInv
      <3> QED BY <1>5, <3>1, <3>2, <3>3, <3>4
    <2> QED BY <1>4, <2>1, <2>2 DEF HistInv
  <1>9. ASSUME resyncs = 0, NEW j \in Keys PROVE FreshKey(j)'
    <2>0. FreshKey(j) /\ notified[j] \in Nat
      BY <1>9 DEF FreshInv, FreshKey
    <2>1. AllBelow(items[j], notified[j], Len(hist))
      <3>1. \A i \in DOMAIN items[j] : items[j][i].obj \in Nat
        BY ObjectsTyped
      <3>2. \A n \in Nat : n =< Len(hist) - 1 => n =< Len(hist)
        BY <1>0
      <3> QED BY <2>0, <3>1, <3>2 DEF FreshKey, AllBelow
    <2>2. ASSUME NEW s \in (resourceVersion + 1)..(Len(hist) + 1), hist'[s][j] # 0
          PROVE  AllBelow(items[j], notified[j], hist'[s][j])
      <3>1. CASE s \in 1..Len(hist)
        <4>0. s \in (resourceVersion + 1)..Len(hist)
          BY <1>0, <3>1
        <4>1. s \in (resourceVersion + 1)..Len(hist) /\ hist'[s] = hist[s]
          BY <1>4, <3>1, <4>0
        <4> QED BY <2>0, <2>2, <4>1 DEF FreshKey
      <3>2. CASE s = Len(hist) + 1 /\ j = k
        <4>1. hist'[s][j] = Len(hist)
          BY <1>6, <2>2, <3>2
        <4> QED BY <2>1, <4>1
      <3>3. CASE s = Len(hist) + 1 /\ j # k
        <4>1. Len(hist) \in (resourceVersion + 1)..Len(hist) /\ hist'[s][j] = hist[Len(hist)][j]
          BY <1>0, <1>6, <3>3
        <4> QED BY <2>0, <2>2, <4>1 DEF FreshKey
      <3> QED BY <1>0, <1>5, <3>1, <3>2, <3>3
    <2>3. Len(hist') - 1 = Len(hist)
      BY <1>0, <1>4
    <2> QED BY <1>2, <1>4, <2>0, <2>1, <2>2, <2>3 DEF FreshKey
  <1> QED BY <1>2, <1>8, <1>9 DEF FreshInv

\* Processing the deltas brings the cache to the newest version handed out,
\* unless they end with a deletion.
LEMMA FreshProcess ==
    ASSUME Shape, FreshInv, resyncs = 0, Process, NEW j \in Keys
    PROVE  FreshKey(j)'
  <1> USE DEF Shape
  <1> DEFINE k == Head(queue)
  <1>1. /\ clientState' = [clientState EXCEPT ![k] = Pending(k)]
        /\ notified' = [notified EXCEPT ![k] = NewestVersion(Told(items[k]), notified[k])]
        /\ items' = [items EXCEPT ![k] = <<>>]
        /\ UNCHANGED <<hist, resourceVersion>>
    BY DEF Process, Pop, reflectorVars
  <1> HIDE DEF k
  <1>2. /\ notified \in [Keys -> Nat] /\ FreshKey(j) /\ items[j] \in Seq(Delta)
        /\ Len(hist) \in Nat /\ Len(hist) - 1 \in Nat /\ clientState[j] \in Nat
    BY DEF FreshInv
  <1>3. CASE j # k
    <2>1. clientState'[j] = clientState[j] /\ notified'[j] = notified[j] /\ items'[j] = items[j]
      BY <1>1, <1>2, <1>3
    <2> QED BY <1>1, <1>2, <2>1 DEF FreshKey
  <1>4. CASE j = k
    <2>1. /\ clientState'[j] = Pending(j) /\ items'[j] = <<>>
          /\ notified'[j] = NewestVersion(Told(items[j]), notified[j])
      BY <1>1, <1>2, <1>4
    <2>2. notified[j] \in Nat /\ AllBelow(items[j], notified[j], Len(hist) - 1)
      BY <1>2 DEF FreshKey
    <2>3. /\ notified'[j] \in Nat
          /\ \A v \in Nat : AllBelow(items[j], notified[j], v) => notified'[j] =< v
      BY <1>2, <2>1, <2>2, NewestTold
    <2>4. \A v \in Nat : AllBelow(items[j], notified[j], v) => AllBelow(<<>>, notified'[j], v)
      <3>1. \A n, v : n =< v => AllBelow(<<>>, n, v)
        BY DEF AllBelow
      <3> QED BY <2>3, <3>1
    <2>5. AllBelow(<<>>, notified'[j], Len(hist) - 1)
      BY <1>2, <2>2, <2>4
    <2>6. \A s \in (resourceVersion + 1)..Len(hist) : hist[s][j] # 0 => AllBelow(<<>>, notified'[j], hist[s][j])
      <3>1. \A s \in (resourceVersion + 1)..Len(hist) : hist[s][j] \in Nat
        OBVIOUS
      <3> QED BY <1>2, <2>4, <3>1 DEF FreshKey
    <2>7. clientState'[j] # 0 => notified'[j] =< clientState'[j]
      <3>1. CASE items[j] = <<>>
        <4>1. Pending(j) = clientState[j]
          BY <3>1 DEF Pending
        <4>2. clientState[j] # 0 => AllBelow(items[j], notified[j], clientState[j])
          BY <1>2, <3>1 DEF FreshKey, AllBelow
        <4> QED BY <1>2, <2>1, <2>3, <4>1, <4>2
      <3>2. CASE items[j] # <<>> /\ EndsDeleted(items[j])
        BY <2>1, <3>2 DEF Pending, EndsDeleted, Outcome
      <3>3. CASE items[j] # <<>> /\ ~EndsDeleted(items[j])
        <4>1. Pending(j) = Newest(items[j]).obj
          BY <3>3 DEF Pending, EndsDeleted, Outcome
        <4>2. Newest(items[j]).obj \in Nat
          <5>1. Len(items[j]) \in DOMAIN items[j]
            BY <1>2, <3>3
          <5> QED BY <1>2, <5>1, ObjectsTyped DEF Newest
        <4>3. AllBelow(items[j], notified[j], Newest(items[j]).obj)
          BY <1>2, <3>3 DEF FreshKey
        <4> QED BY <2>1, <2>3, <4>1, <4>2, <4>3
      <3> QED BY <3>1, <3>2, <3>3
    <2> QED BY <1>1, <2>1, <2>3, <2>5, <2>6, <2>7 DEF FreshKey
  <1> QED BY <1>3, <1>4

\* Every step but a resync keeps the keys fresh.
LEMMA FreshNext ==
    ASSUME FollowInv, FreshInv, [Next]_vars
    PROVE  FreshInv'
  <1>0. Shape /\ HistInv /\ resyncs \in Nat
    BY DEF FollowInv, FreshInv
  <1>1. ASSUME NEW k \in Keys, Write(k) \/ Remove(k) PROVE FreshInv'
    BY <1>0, <1>1, FreshServerSteps
  <1>2. ASSUME UNCHANGED <<clientState, notified, hist, resyncs>>,
               resourceVersion' \in resourceVersion..(Len(hist) - 1),
               \A k \in Keys :
                  \/ items'[k] = items[k]
                  \/ \E d \in Delta :
                        /\ items'[k] = queueActionLocked(items[k], d)
                        /\ d.type # "Deleted" => d.obj = hist[resourceVersion' + 1][k] /\ d.obj # 0
        PROVE  FreshInv'
    <2>1. HistInv'
      BY <1>0, <1>2 DEF HistInv
    <2>2. resyncs = 0 => \A k \in Keys : FreshKey(k)'
      BY <1>0, <1>2, FreshKeyKept DEF FreshInv
    <2> QED BY <1>2, <2>1, <2>2 DEF FreshInv
  <1>3. CASE WatchFails \/ UNCHANGED vars
    <2>1. UNCHANGED <<clientState, notified, hist, resyncs, resourceVersion, items>>
      BY <1>3 DEF WatchFails, vars, fifoVars, reflectorVars
    <2>2. resourceVersion' \in resourceVersion..(Len(hist) - 1)
      BY <1>0, <2>1 DEF Shape
    <2> QED BY <1>2, <2>1, <2>2
  <1>4. CASE WatchEvent
    <2>1. /\ UNCHANGED <<clientState, notified, hist, resyncs>>
          /\ resourceVersion' = resourceVersion + 1 /\ resourceVersion' \in 0..(Len(hist) - 1)
          /\ \/ UNCHANGED <<items, queue>>
             \/ \E k \in Keys, d \in Delta :
                   /\ Enqueue(k, d)
                   /\ d.type # "Deleted" => d.obj = hist[resourceVersion + 2][k] /\ d.obj # 0
      BY <1>0, <1>4, WatchEffect
    <2>2. resourceVersion' \in resourceVersion..(Len(hist) - 1) /\ resourceVersion' + 1 = resourceVersion + 2
      BY <1>0, <2>1 DEF Shape
    <2>3. ASSUME NEW k \in Keys, NEW d \in Delta, Enqueue(k, d)
          PROVE  items'[k] = queueActionLocked(items[k], d) /\ \A j \in Keys \ {k} : items'[j] = items[j]
      BY <1>0, <2>3 DEF Enqueue, Shape
    <2>4. \A k \in Keys :
                  \/ items'[k] = items[k]
                  \/ \E d \in Delta :
                        /\ items'[k] = queueActionLocked(items[k], d)
                        /\ d.type # "Deleted" => d.obj = hist[resourceVersion' + 1][k] /\ d.obj # 0
      BY <2>1, <2>2, <2>3
    <2> QED BY <1>2, <2>1, <2>2, <2>4
  <1>5. CASE ListAndWatch
    <2>0. PICK r \in 0..(Len(hist) - 1), first \in SUBSET Keys, second \in SUBSET Keys,
               delta \in [Keys -> Delta] : Listed(r, first, second, delta)
      BY <1>0, <1>5, ListEffect, Zenon
    <2>1. /\ r >= resourceVersion /\ resourceVersion' = r
          /\ first \cap second = {} /\ EnqueueAll(first, second, delta)
          /\ first = {k \in Keys : hist[r + 1][k] # 0}
          /\ \A k \in first : delta[k].type = "Sync" /\ delta[k].obj = hist[r + 1][k]
          /\ \A k \in second : delta[k].type = "Deleted" /\ clientState[k] # 0
          /\ UNCHANGED <<clientState, notified, hist, resyncs>>
      BY <2>0 DEF Listed
    <2>2. resourceVersion' \in resourceVersion..(Len(hist) - 1)
      BY <1>0, <2>1 DEF Shape
    <2>3. ASSUME NEW k \in first \cup second
          PROVE  /\ items'[k] = queueActionLocked(items[k], delta[k]) /\ delta[k] \in Delta
                 /\ delta[k].type # "Deleted" => delta[k].obj = hist[resourceVersion' + 1][k] /\ delta[k].obj # 0
      BY <2>1, <2>3 DEF EnqueueAll
    <2>4. \A k \in Keys \ (first \cup second) : items'[k] = items[k]
      BY <2>1 DEF EnqueueAll
    <2> QED BY <1>2, <2>1, <2>2, <2>3, <2>4
  <1>6. CASE ResyncTick
    <2>1. hist' = hist /\ resyncs' = resyncs + 1
      BY <1>0, <1>6, ResyncEffect
    <2>2. resyncs' \in Nat /\ resyncs' # 0
      BY <1>0, <2>1
    <2> QED BY <1>0, <2>1, <2>2 DEF FreshInv, HistInv
  <1>7. CASE Process
    <2>1. UNCHANGED <<hist, resyncs>>
      BY <1>7 DEF Process, reflectorVars
    <2>2. resyncs = 0 => \A k \in Keys : FreshKey(k)'
      BY <1>0, <1>7, FreshProcess
    <2>3. resyncs = 0 => notified' \in [Keys -> Nat]
      <3>1. notified' = [notified EXCEPT ![Head(queue)] = NewestVersion(Told(items[Head(queue)]), @)]
        BY <1>7 DEF Process, Pop
      <3>2. resyncs = 0 => \A k \in Keys : notified'[k] \in Nat
        BY <2>2 DEF FreshKey
      <3> QED BY <3>1, <3>2 DEF FreshInv
    <2> QED BY <1>0, <2>1, <2>2, <2>3 DEF FreshInv, HistInv
  <1> QED BY <1>1, <1>3, <1>4, <1>5, <1>6, <1>7 DEF Next

LEMMA FreshInit == Init => FreshInv
  <1> SUFFICES ASSUME Init PROVE FreshInv
    OBVIOUS
  <1>1. /\ hist = <<[k \in Keys |-> 0]>> /\ resyncs = 0 /\ resourceVersion = 0
        /\ items = [k \in Keys |-> <<>>] /\ clientState = [k \in Keys |-> 0]
        /\ notified = [k \in Keys |-> 0]
    BY DEF Init, FifoInit
  <1>2. Len(hist) = 1 /\ hist[1] = [k \in Keys |-> 0] /\ 1..Len(hist) = {1}
    BY <1>1
  <1>3. HistInv
    BY <1>2 DEF HistInv
  <1>4. \A k \in Keys : FreshKey(k)
    BY <1>1, <1>2 DEF FreshKey, AllBelow
  <1> QED BY <1>1, <1>3, <1>4 DEF FreshInv

\* For every set of keys and all bounds, as long as no resync has happened the
\* cache is at least as fresh as every notification handed out, whatever was
\* listed again and however the store lags behind the queue.
THEOREM RelistsKeepFresh == Spec => []FreshUntilResync
  <1>1. Init => FollowInv /\ FreshInv
    BY FollowInit, FreshInit
  <1>2. FollowInv /\ FreshInv /\ [Next]_vars => FollowInv' /\ FreshInv'
    BY FollowNext, FreshNext
  <1>3. FollowInv /\ FreshInv => FreshUntilResync
    BY DEF FreshInv, FreshKey, FreshUntilResync, CacheAtLeastAsFresh, FollowInv, Shape
  <1> QED BY <1>1, <1>2, <1>3, PTL DEF Spec

-----------------------------------------------------------------------------
(* Nothing but the past of the server.                                     *)

\* Versions are numbers of writes, of which there are at most MaxRV.
Bounded ==
    /\ Len(hist) - 1 =< MaxRV
    /\ hist[1] = [k \in Keys |-> 0]

\* The variables that no other part of the invariant needs.
Plain ==
    /\ watching \in BOOLEAN /\ timer \in {"none", "first", "again"}
    /\ orphans \in Nat
    /\ relists \in 0..MaxRelists /\ resyncs \in 0..MaxResyncs
    /\ unlisted \subseteq Keys
    /\ notified \in [Keys -> Nat]

PastKey(k) ==
    /\ clientState[k] \in Passed(k) /\ notified[k] \in Passed(k)
    /\ \A i \in DOMAIN items[k] : items[k][i].obj \in Passed(k)

PastInv ==
    /\ FollowInv /\ QueueOK /\ SyncInv /\ FreshInv
    /\ Bounded /\ Plain
    /\ \A k \in Keys : PastKey(k)

\* queueActionLocked keeps old objects and adds the new one at most.
LEMMA ActionObjects ==
    ASSUME NEW deltas \in Seq(Delta), NEW d \in Delta, NEW S, d.obj \in S,
           \A i \in DOMAIN deltas : deltas[i].obj \in S
    PROVE  \A i \in DOMAIN queueActionLocked(deltas, d) : queueActionLocked(deltas, d)[i].obj \in S
  <1> DEFINE q == queueActionLocked(deltas, d)
             m == Len(deltas)
  <1>0. m \in Nat /\ DOMAIN deltas = 1..m
    OBVIOUS
  <1>1. CASE q = deltas
    BY <1>1
  <1>2. CASE q = [deltas EXCEPT ![m] = d] /\ EndsDeleted(deltas)
    <2>1. m \in DOMAIN deltas
      BY <1>0, <1>2 DEF EndsDeleted
    <2>2. DOMAIN q = DOMAIN deltas /\ \A i \in DOMAIN deltas : q[i] = IF i = m THEN d ELSE deltas[i]
      BY <1>2, <2>1
    <2> QED BY <2>2
  <1>3. CASE q = Append(deltas, d)
    <2>1. DOMAIN q = 1..(m + 1) /\ q[m + 1] = d /\ \A i \in 1..m : q[i] = deltas[i]
      BY <1>0, <1>3
    <2>2. \A i \in 1..(m + 1) : i \in 1..m \/ i = m + 1
      BY <1>0
    <2> QED BY <1>0, <2>1, <2>2
  <1> QED BY <1>1, <1>2, <1>3, QueueActionCases

\* What the reflector has passed it has passed for good.
LEMMA PassedGrows ==
    ASSUME Shape, NEW k \in Keys, NEW v \in Nat, resourceVersion' = v, v >= resourceVersion,
           \A r \in 1..Len(hist) : hist'[r] = hist[r]
    PROVE  Passed(k) \subseteq Passed(k)'
  <1>1. Len(hist) \in Nat /\ resourceVersion \in 0..(Len(hist) - 1)
    BY DEF Shape
  <1>2. \A i \in 1..(resourceVersion + 1) : i \in 1..Len(hist) /\ i \in 1..(v + 1)
    BY <1>1
  <1> QED BY <1>2 DEF Passed

\* Numbers that were passed are versions of the server.
LEMMA PassedBounded ==
    ASSUME Shape, HistInv, Bounded, NEW k \in Keys
    PROVE  Passed(k) \subseteq 0..MaxRV /\ 0 \in Passed(k)
  <1>1. Len(hist) \in Nat /\ resourceVersion \in 0..(Len(hist) - 1) /\ MaxRV \in Nat
    BY BoundsAreNaturals DEF Shape
  <1>2. ASSUME NEW r \in 1..(resourceVersion + 1) PROVE hist[r][k] \in 0..MaxRV
    <2>1. r \in 1..Len(hist) /\ r - 1 =< MaxRV
      BY <1>1 DEF Bounded
    <2>2. hist[r][k] \in Nat /\ hist[r][k] =< r - 1
      BY <2>1 DEF Shape, HistInv
    <2> QED BY <1>1, <2>1, <2>2
  <1>3. 1 \in 1..(resourceVersion + 1) /\ hist[1][k] = 0
    BY <1>1 DEF Bounded
  <1> QED BY <1>2, <1>3 DEF Passed

\* A key that is left alone, or gets one delta with a version that was passed,
\* shows the past.
LEMMA PastKept ==
    ASSUME Shape, NEW k \in Keys, PastKey(k), UNCHANGED <<clientState, notified>>,
           Passed(k) \subseteq Passed(k)',
           \/ items'[k] = items[k]
           \/ \E d \in Delta : d.obj \in Passed(k)' /\ items'[k] = queueActionLocked(items[k], d)
    PROVE  PastKey(k)'
  <1>1. clientState'[k] \in Passed(k)' /\ notified'[k] \in Passed(k)'
    BY DEF PastKey
  <1>2. \A i \in DOMAIN items[k] : items[k][i].obj \in Passed(k)'
    BY DEF PastKey
  <1>3. items[k] \in Seq(Delta)
    BY DEF Shape
  <1>4. \A i \in DOMAIN items'[k] : items'[k][i].obj \in Passed(k)'
    <2>1. ASSUME NEW d \in Delta, d.obj \in Passed(k)', items'[k] = queueActionLocked(items[k], d)
          PROVE  \A i \in DOMAIN items'[k] : items'[k][i].obj \in Passed(k)'
      <3> DEFINE S == Passed(k)'
      <3>1. d.obj \in S /\ \A i \in DOMAIN items[k] : items[k][i].obj \in S
        BY <1>2, <2>1
      <3> HIDE DEF S
      <3>2. \A i \in DOMAIN queueActionLocked(items[k], d) : queueActionLocked(items[k], d)[i].obj \in S
        BY <1>3, <3>1, ActionObjects
      <3> QED BY <2>1, <3>2 DEF S
    <2> QED BY <1>2, <2>1
  <1> QED BY <1>1, <1>4 DEF PastKey

\* The server's steps and the reflector's: every delta they queue has a version
\* that was passed.
LEMMA PastQueued ==
    ASSUME PastInv, [Next]_vars, ~Process, NEW k \in Keys
    PROVE  PastKey(k)'
  <1>0. Shape /\ PastKey(k) /\ Len(hist) \in Nat /\ resourceVersion \in 0..(Len(hist) - 1)
    BY DEF PastInv, FollowInv, Shape
  <1>1. CASE UNCHANGED <<items, clientState, notified, resourceVersion>>
             /\ \A r \in 1..Len(hist) : hist'[r] = hist[r]
    <2>1. Passed(k) \subseteq Passed(k)'
      BY <1>0, <1>1, PassedGrows
    <2> QED BY <1>0, <1>1, <2>1, PastKept
  <1>2. ASSUME NEW j \in Keys, Write(j) \/ Remove(j) PROVE PastKey(k)'
    <2>1. \A r \in 1..Len(hist) : hist'[r] = hist[r]
      <3>1. PICK c : hist' = Append(hist, c)
        BY <1>2 DEF Write, Remove
      <3> QED BY <1>0, <3>1 DEF Shape
    <2>2. UNCHANGED <<items, clientState, notified, resourceVersion>>
      BY <1>2 DEF Write, Remove, fifoVars, reflectorVars
    <2> QED BY <1>1, <2>1, <2>2
  <1>3. CASE WatchFails \/ UNCHANGED vars
    <2>1. UNCHANGED <<items, clientState, notified, resourceVersion, hist>>
      BY <1>3 DEF WatchFails, vars, fifoVars, reflectorVars
    <2> QED BY <1>1, <2>1
  <1>4. CASE ListAndWatch
    <2>0. PICK r \in 0..(Len(hist) - 1), first \in SUBSET Keys, second \in SUBSET Keys,
               delta \in [Keys -> Delta] : Listed(r, first, second, delta)
      BY <1>0, <1>4, ListEffect, Zenon
    <2>1. /\ r >= resourceVersion /\ resourceVersion' = r /\ EnqueueAll(first, second, delta)
          /\ \A j \in first : delta[j].obj = hist[r + 1][j]
          /\ \A j \in second : delta[j].obj = clientState[j]
          /\ UNCHANGED <<clientState, notified, hist>>
      BY <2>0 DEF Listed
    <2>2. Passed(k) \subseteq Passed(k)'
      BY <1>0, <2>1, PassedGrows
    <2>3. hist[r + 1][k] \in Passed(k)' /\ clientState[k] \in Passed(k)'
      <3>1. r + 1 \in 1..(resourceVersion' + 1) /\ hist' = hist
        BY <1>0, <2>1
      <3> QED BY <1>0, <2>2, <3>1 DEF Passed, PastKey
    <2>4. \/ items'[k] = items[k]
          \/ delta[k] \in Delta /\ delta[k].obj \in Passed(k)' /\ items'[k] = queueActionLocked(items[k], delta[k])
      BY <2>1, <2>3 DEF EnqueueAll
    <2> QED BY <1>0, <2>1, <2>2, <2>4, PastKept
  <1>5. CASE WatchEvent
    <2>1. /\ UNCHANGED <<clientState, notified, hist>>
          /\ resourceVersion' = resourceVersion + 1
          /\ \/ UNCHANGED <<items, queue>>
             \/ \E j \in Keys, d \in Delta :
                   /\ Enqueue(j, d)
                   /\ d.type = "Deleted" => d.obj = hist[resourceVersion + 1][j]
                   /\ d.type # "Deleted" => d.obj = hist[resourceVersion + 2][j]
      BY <1>0, <1>5, WatchEffect
    <2>2. Passed(k) \subseteq Passed(k)'
      BY <1>0, <2>1, PassedGrows
    <2>3. hist[resourceVersion + 1][k] \in Passed(k)' /\ hist[resourceVersion + 2][k] \in Passed(k)'
      <3>1. /\ resourceVersion + 1 \in 1..(resourceVersion' + 1)
            /\ resourceVersion + 2 \in 1..(resourceVersion' + 1) /\ hist' = hist
        BY <1>0, <2>1
      <3> QED BY <3>1 DEF Passed
    <2>4. \/ items'[k] = items[k]
          \/ \E d \in Delta : d.obj \in Passed(k)' /\ items'[k] = queueActionLocked(items[k], d)
      BY <1>0, <2>1, <2>3 DEF Enqueue, Shape
    <2> QED BY <1>0, <2>1, <2>2, <2>4, PastKept
  <1>6. CASE ResyncTick
    <2>1. PICK first \in SUBSET Keys, delta \in [Keys -> Delta] :
             /\ EnqueueAll(first, {}, delta)
             /\ \A j \in first : delta[j].obj = clientState[j]
      BY <1>0, <1>6, ResyncEffect
    <2>2. UNCHANGED <<clientState, notified, hist, resourceVersion>>
      BY <1>6 DEF ResyncTick, Resync
    <2>3. Passed(k)' = Passed(k)
      BY <2>2 DEF Passed
    <2>4. \/ items'[k] = items[k]
          \/ delta[k] \in Delta /\ delta[k].obj \in Passed(k)' /\ items'[k] = queueActionLocked(items[k], delta[k])
      BY <1>0, <2>1, <2>3 DEF EnqueueAll, PastKey
    <2> QED BY <1>0, <2>2, <2>3, <2>4, PastKept
  <1> QED BY <1>2, <1>3, <1>4, <1>5, <1>6 DEF Next

\* Processing hands out what was queued.
LEMMA PastProcessed ==
    ASSUME PastInv, Process, NEW j \in Keys
    PROVE  PastKey(j)' /\ notified'[j] \in Nat
  <1> DEFINE k == Head(queue)
  <1>1. /\ clientState' = [clientState EXCEPT ![k] = Pending(k)]
        /\ notified' = [notified EXCEPT ![k] = NewestVersion(Told(items[k]), notified[k])]
        /\ items' = [items EXCEPT ![k] = <<>>]
        /\ UNCHANGED <<hist, resourceVersion>>
    BY DEF Process, Pop, reflectorVars
  <1> HIDE DEF k
  <1>2. /\ PastKey(j) /\ notified \in [Keys -> Nat] /\ clientState \in [Keys -> Nat]
        /\ items \in [Keys -> Seq(Delta)] /\ items[j] \in Seq(Delta) /\ Shape /\ HistInv /\ Bounded
    BY DEF PastInv, Plain, FollowInv, FreshInv, Shape
  <1>3. Passed(j)' = Passed(j) /\ 0 \in Passed(j) /\ Passed(j) \subseteq 0..MaxRV
    BY <1>1, <1>2, PassedBounded DEF Passed
  <1>4. CASE j # k
    <2>1. clientState'[j] = clientState[j] /\ notified'[j] = notified[j] /\ items'[j] = items[j]
      BY <1>1, <1>2, <1>4
    <2> QED BY <1>2, <1>3, <2>1 DEF PastKey
  <1>5. CASE j = k
    <2>1. /\ clientState'[j] = Pending(j) /\ items'[j] = <<>>
          /\ notified'[j] = NewestVersion(Told(items[j]), notified[j])
      BY <1>1, <1>2, <1>5
    <2>2. Pending(j) \in Passed(j)
      <3>1. CASE items[j] = <<>>
        BY <1>2, <3>1 DEF Pending, PastKey
      <3>2. CASE items[j] # <<>>
        <4>1. Len(items[j]) \in DOMAIN items[j]
          BY <1>2, <3>2
        <4> QED BY <1>2, <1>3, <3>2, <4>1 DEF Pending, Outcome, Newest, PastKey
      <3> QED BY <3>1, <3>2
    <2>3. AllBelow(items[j], notified[j], MaxRV)
      <3>1. \A x \in Passed(j) : x =< MaxRV
        BY <1>3, BoundsAreNaturals
      <3> QED BY <1>2, <3>1 DEF AllBelow, PastKey
    <2>4. notified'[j] \in Nat /\ notified'[j] \in Told(items[j]) \cup {notified[j]}
      BY <1>2, <2>1, <2>3, NewestTold, BoundsAreNaturals
    <2>5. notified'[j] \in Passed(j)
      BY <1>2, <2>4 DEF Told, PastKey
    <2> QED BY <1>3, <2>1, <2>2, <2>4, <2>5 DEF PastKey
  <1> QED BY <1>4, <1>5

\* The writes are bounded, and the first collection stays the empty one.
LEMMA BoundedNext ==
    ASSUME Shape, Bounded, [Next]_vars
    PROVE  Bounded'
  <1>0. Len(hist) \in Nat /\ Len(hist) >= 1 /\ MaxRV \in Nat
    BY BoundsAreNaturals DEF Shape
  <1>1. CASE hist' = hist
    BY <1>1 DEF Bounded
  <1>2. ASSUME NEW k \in Keys, Write(k) \/ Remove(k) PROVE Bounded'
    <2>1. PICK c : hist' = Append(hist, c) /\ rv < MaxRV
      BY <1>2 DEF Write, Remove
    <2>2. Len(hist') = Len(hist) + 1 /\ hist'[1] = hist[1]
      BY <1>0, <2>1 DEF Shape
    <2> QED BY <1>0, <2>1, <2>2 DEF Bounded, rv
  <1>3. CASE ListAndWatch \/ WatchEvent \/ WatchFails \/ ResyncTick \/ Process \/ UNCHANGED vars
    BY <1>1, <1>3 DEF ListAndWatch, WatchEvent, WatchFails, ResyncTick, Process, vars
  <1> QED BY <1>2, <1>3 DEF Next

LEMMA PlainNext ==
    ASSUME PastInv, [Next]_vars
    PROVE  Plain'
  <1> USE BoundsAreNaturals DEF Plain
  <1>0. Shape /\ Plain
    BY DEF PastInv, FollowInv
  <1>1. ASSUME NEW k \in Keys, Write(k) \/ Remove(k) PROVE Plain'
    BY <1>0, <1>1 DEF Write, Remove, fifoVars, reflectorVars
  <1>2. CASE ListAndWatch
    <2>1. unlisted' \subseteq Keys
      BY <1>0, <1>2 DEF ListAndWatch
    <2> QED BY <1>0, <1>2, <2>1 DEF ListAndWatch, Replace
  <1>3. CASE WatchEvent
    <2>1. UNCHANGED <<watching, timer, orphans, relists, resyncs, unlisted>>
      BY <1>3 DEF WatchEvent
    <2>2. notified' = notified
      BY <1>0, <1>3, WatchEffect
    <2> QED BY <1>0, <2>1, <2>2
  <1>4. CASE WatchFails
    <2>1. UNCHANGED <<notified, unlisted, resyncs>> /\ watching' = FALSE /\ timer' = "none"
      BY <1>4 DEF WatchFails, fifoVars
    <2>2. relists' \in 0..MaxRelists
      BY <1>0, <1>4 DEF WatchFails
    <2>3. orphans' \in Nat
      BY <1>0, <1>4 DEF WatchFails
    <2> QED BY <1>0, <2>1, <2>2, <2>3
  <1>5. CASE ResyncTick
    <2>1. UNCHANGED <<notified, unlisted, watching, orphans, relists>>
      BY <1>5 DEF ResyncTick, Resync
    <2>2. timer' \in {"none", "first", "again"}
      BY <1>0, <1>5 DEF ResyncTick
    <2>3. resyncs' \in 0..MaxResyncs
      BY <1>0, <1>5 DEF ResyncTick
    <2> QED BY <1>0, <2>1, <2>2, <2>3
  <1>6. CASE Process
    <2>1. notified' = [notified EXCEPT ![Head(queue)] = NewestVersion(Told(items[Head(queue)]), @)]
      BY <1>6 DEF Process, Pop
    <2>2. \A k \in Keys : notified'[k] \in Nat
      BY <1>6, PastProcessed
    <2>3. notified' \in [Keys -> Nat]
      BY <1>0, <2>1, <2>2
    <2>4. /\ UNCHANGED <<watching, timer, orphans, relists, resyncs>>
          /\ unlisted' \subseteq unlisted
      BY <1>6 DEF Process, reflectorVars
    <2> QED BY <1>0, <2>3, <2>4
  <1>7. CASE UNCHANGED vars
    BY <1>0, <1>7 DEF vars, fifoVars, reflectorVars
  <1> QED BY <1>1, <1>2, <1>3, <1>4, <1>5, <1>6, <1>7 DEF Next

LEMMA PastInit == Init => Bounded /\ Plain /\ \A k \in Keys : PastKey(k)
  <1> SUFFICES ASSUME Init PROVE Bounded /\ Plain /\ \A k \in Keys : PastKey(k)
    OBVIOUS
  <1> USE BoundsAreNaturals DEF Init, FifoInit
  <1>1. Len(hist) = 1 /\ hist[1] = [k \in Keys |-> 0] /\ resourceVersion = 0
    OBVIOUS
  <1>2. Bounded
    BY <1>1 DEF Bounded
  <1>3. Plain
    <2>1. notified \in [Keys -> Nat]
      OBVIOUS
    <2>2. 0 \in 0..MaxRelists /\ 0 \in 0..MaxResyncs
      OBVIOUS
    <2>3. /\ watching = FALSE /\ timer = "none" /\ orphans = 0
          /\ relists = 0 /\ resyncs = 0 /\ unlisted = {}
      OBVIOUS
    <2> HIDE DEF Init, FifoInit
    <2> QED BY <2>1, <2>2, <2>3 DEF Plain
  <1>4. \A k \in Keys : 0 \in Passed(k)
    <2>1. 1 \in 1..(resourceVersion + 1) /\ \A k \in Keys : hist[1][k] = 0
      BY <1>1
    <2> QED BY <2>1 DEF Passed
  <1>5. \A k \in Keys : clientState[k] = 0 /\ notified[k] = 0 /\ items[k] = <<>>
    OBVIOUS
  <1>6. \A k \in Keys : PastKey(k)
    BY <1>4, <1>5 DEF PastKey
  <1> QED BY <1>2, <1>3, <1>6

LEMMA PastHolds == Spec => []PastInv
  <1>1. Init => PastInv
    BY FollowInit, QueueInit, SyncInit, FreshInit, PastInit DEF PastInv
  <1>2. PastInv /\ [Next]_vars => PastInv'
    <2> SUFFICES ASSUME PastInv, [Next]_vars PROVE PastInv'
      OBVIOUS
    <2>1. FollowInv /\ QueueOK /\ SyncInv /\ FreshInv /\ Bounded /\ Shape
      BY DEF PastInv, FollowInv
    <2>2. FollowInv' /\ QueueOK' /\ SyncInv' /\ FreshInv'
      BY <2>1, FollowNext, QueueNext, SyncNext, FreshNext
    <2>3. Bounded' /\ Plain'
      BY <2>1, BoundedNext, PlainNext
    <2>4. \A k \in Keys : PastKey(k)'
      BY PastQueued, PastProcessed
    <2> QED BY <2>2, <2>3, <2>4 DEF PastInv
  <1> QED BY <1>1, <1>2, PTL DEF Spec

\* ShowsThePast: the store, the notifications and all that is pending of a key
\* are versions of it that the server had when the reflector was there, also
\* after relists from an old cache, resyncs that re-queue what the store has,
\* and deletions whose final state is unknown.
THEOREM OnlyThePast == Spec => []ShowsThePast
  <1>1. PastInv => ShowsThePast
    BY DEF PastInv, PastKey, ShowsThePast
  <1> QED BY <1>1, PastHolds, PTL

\* Type correctness; that the versions are bounded is a consequence of where they
\* come from.
THEOREM TypeCorrect == Spec => []TypeOK
  <1>1. PastInv => TypeOK
    <2> SUFFICES ASSUME PastInv PROVE TypeOK
      OBVIOUS
    <2>1. Shape /\ QueueOK /\ SyncInv /\ Plain /\ Bounded /\ HistInv
      BY DEF PastInv, FollowInv, FreshInv
    <2>2. \A k \in Keys : clientState[k] \in 0..MaxRV /\ notified[k] \in 0..MaxRV
      BY <2>1, PassedBounded DEF PastInv, PastKey
    <2>3. clientState \in [Keys -> 0..MaxRV] /\ notified \in [Keys -> 0..MaxRV]
      BY <2>1, <2>2 DEF Shape, Plain
    <2>4. hist \in Seq(Collections) /\ hist # <<>>
      <3>1. Len(hist) \in Nat /\ Len(hist) >= 1 /\ hist \in Seq([Keys -> Nat]) /\ MaxRV \in Nat
        BY <2>1, BoundsAreNaturals DEF Shape
      <3>2. ASSUME NEW r \in 1..Len(hist) PROVE hist[r] \in Collections
        <4>1. hist[r] \in [Keys -> Nat] /\ r - 1 =< MaxRV /\ r - 1 \in Nat
          BY <2>1, <3>1 DEF Bounded
        <4>2. ASSUME NEW k \in Keys PROVE hist[r][k] \in 0..MaxRV
          <5>1. hist[r][k] \in Nat /\ hist[r][k] =< r - 1
            BY <2>1, <4>1 DEF HistInv
          <5> QED BY <3>1, <4>1, <5>1
        <4> QED BY <4>1, <4>2 DEF Collections
      <3>3. PICK n \in Nat : n = Len(hist)
        BY <3>1
      <3>4. hist \in [1..n -> Collections]
        BY <3>1, <3>2, <3>3
      <3>5. hist \in Seq(Collections)
        BY <3>4
      <3> QED BY <3>1, <3>5
    <2>5. resourceVersion \in 0..rv
      BY <2>1 DEF Shape, rv
    <2>6. /\ items \in [Keys -> Seq(Delta)] /\ diverged \subseteq Keys /\ queue \in Seq(Keys)
          /\ populated \in BOOLEAN /\ initialPopulationCount \in Nat
      BY <2>1 DEF Shape, QueueOK, SyncInv
    <2> QED BY <2>1, <2>3, <2>4, <2>5, <2>6 DEF TypeOK, Plain
  <1> QED BY <1>1, PastHolds, PTL
=============================================================================
