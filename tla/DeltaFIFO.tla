----------------------------- MODULE DeltaFIFO -----------------------------
(***************************************************************************)
(* The queue between a Reflector and the store of an informer              *)
(* (pkg/client/cache/delta_fifo.go) and the Process function that empties  *)
(* it into the store (pkg/controller/framework/controller.go).             *)
(*                                                                         *)
(* An object is the resource version it was written at; 0 is "absent".     *)
(* A delta is [type, obj, unknown]; unknown marks an object wrapped in     *)
(* DeletedFinalStateUnknown.  The Go maps items and clientState are        *)
(* functions with <<>> and 0 for missing keys.                             *)
(*                                                                         *)
(* Every method that the informer calls holds f.lock for its whole body    *)
(* and Pop calls Process under it, so each is one action.  Resync holds it *)
(* for reading only, although it changes items and queue: it excludes      *)
(* every other method here, not a second Resync.  Two of them at a time    *)
(* (the goroutine of an earlier ListAndWatch and the current one) race on  *)
(* the maps; that race is left out, they are taken one after the other.    *)
(*                                                                         *)
(* The informers pass clientState as knownObjects and no compressor:       *)
(* that is the configuration modelled here.                                *)
(***************************************************************************)
EXTENDS Naturals, Sequences, FiniteSets

CONSTANT Keys
ASSUME KeysFinite == IsFiniteSet(Keys)

VARIABLES
    items,                  \* the deltas pending for each key
    queue,                  \* the keys with pending deltas, in Pop order
    populated,              \* something was inserted
    initialPopulationCount, \* keys of the first Replace not yet popped
    clientState,            \* the store: the version known of each key
    notified                \* the newest version handlers were told of

fifoVars == <<items, queue, populated, initialPopulationCount, clientState, notified>>

DeltaTypes == {"Added", "Updated", "Deleted", "Sync"}
Delta == [type : DeltaTypes, obj : Nat, unknown : BOOLEAN]

Change(type, v) == [type |-> type, obj |-> v, unknown |-> FALSE]
FinalStateUnknown(v) == [type |-> "Deleted", obj |-> v, unknown |-> TRUE]

Newest(deltas) == deltas[Len(deltas)]
EndsDeleted(deltas) == deltas # <<>> /\ Newest(deltas).type = "Deleted"

\* What the store holds for a key once the delta is processed.
Outcome(d) == IF d.type = "Deleted" THEN 0 ELSE d.obj

\* What the store will hold for k once everything pending is processed.
Pending(k) == IF items[k] = <<>> THEN clientState[k] ELSE Outcome(Newest(items[k]))

\* The ways to append the keys of S, "in no particular order".
Orders(S) ==
    {s \in [1..Cardinality(S) -> S] : \A k \in S : \E i \in DOMAIN s : s[i] = k}

HasSynced == populated /\ initialPopulationCount = 0

FifoInit ==
    /\ items = [k \in Keys |-> <<>>]
    /\ queue = <<>>
    /\ populated = FALSE
    /\ initialPopulationCount = 0
    /\ clientState = [k \in Keys |-> 0]
    /\ notified = [k \in Keys |-> 0]

-----------------------------------------------------------------------------
\* Deviation: no deduplication.
dedupNothing(deltas, d) == Append(deltas, d)

\* append, then dedupDeltas: of two adjacent deletions, keep the one that
\* knows the final state.
dedupDeltas(deltas, d) ==
    IF EndsDeleted(deltas) /\ d.type = "Deleted"
    THEN IF Newest(deltas).unknown THEN [deltas EXCEPT ![Len(deltas)] = d] ELSE deltas
    ELSE Append(deltas, d)

\* The deltas of a key after queueActionLocked: a Sync must not recreate an
\* object whose deletion is pending.
queueActionLocked(deltas, d) ==
    IF d.type = "Sync" /\ EndsDeleted(deltas) THEN deltas ELSE dedupDeltas(deltas, d)

\* queueActionLocked for one key.
Enqueue(k, d) ==
    /\ items' = [items EXCEPT ![k] = queueActionLocked(@, d)]
    /\ queue' = IF items[k] = <<>> THEN Append(queue, k) ELSE queue

\* queueActionLocked for each key of first, then for each key of second.
EnqueueAll(first, second, delta) ==
    /\ items' = [k \in Keys |-> IF k \in first \cup second
                                THEN queueActionLocked(items[k], delta[k]) ELSE items[k]]
    /\ \E s \in Orders({k \in first : items[k] = <<>>}),
          t \in Orders({k \in second : items[k] = <<>>}) : queue' = queue \o s \o t

-----------------------------------------------------------------------------
\* Add and Update.
Set(k, type, v) ==
    /\ populated' = TRUE
    /\ Enqueue(k, Change(type, v))
    /\ UNCHANGED <<initialPopulationCount, clientState, notified>>

\* Delete ignores an object that is neither known nor pending.
Delete(k, v) ==
    /\ populated' = TRUE
    /\ IF clientState[k] = 0 /\ items[k] = <<>>
       THEN UNCHANGED <<items, queue>>
       ELSE Enqueue(k, Change("Deleted", v))
    /\ UNCHANGED <<initialPopulationCount, clientState, notified>>

\* Deviation: every Replace, not only the first, sets the population count.
ReplaceCountsAgain(list) ==
    LET listed == {k \in Keys : list[k] # 0}
        gone   == {k \in Keys : clientState[k] # 0} \ listed
    IN  /\ populated' = TRUE
        /\ initialPopulationCount' = Cardinality(listed)
        /\ EnqueueAll(listed, gone,
               [k \in Keys |-> IF k \in listed THEN Change("Sync", list[k])
                                               ELSE FinalStateUnknown(clientState[k])])
        /\ UNCHANGED <<clientState, notified>>

\* Deviation: Replace does not detect deletions.
ReplaceKeepsGone(list) ==
    LET listed == {k \in Keys : list[k] # 0}
    IN  /\ populated' = TRUE
        /\ initialPopulationCount' =
               IF populated THEN initialPopulationCount ELSE Cardinality(listed)
        /\ EnqueueAll(listed, {}, [k \in Keys |-> Change("Sync", list[k])])
        /\ UNCHANGED <<clientState, notified>>

\* A Sync for every listed object, then a deletion for every known object
\* that is not listed.
Replace(list) ==
    LET listed == {k \in Keys : list[k] # 0}
        gone   == {k \in Keys : clientState[k] # 0} \ listed
    IN  /\ populated' = TRUE
        /\ initialPopulationCount' =
               IF populated THEN initialPopulationCount ELSE Cardinality(listed)
        /\ EnqueueAll(listed, gone,
               [k \in Keys |-> IF k \in listed THEN Change("Sync", list[k])
                                               ELSE FinalStateUnknown(clientState[k])])
        /\ UNCHANGED <<clientState, notified>>

\* A Sync of the known version of every known object.
Resync ==
    /\ EnqueueAll({k \in Keys : clientState[k] # 0}, {},
                  [k \in Keys |-> Change("Sync", clientState[k])])
    /\ UNCHANGED <<populated, initialPopulationCount, clientState, notified>>

\* The newest of the versions in S and v.
NewestVersion(S, v) == CHOOSE x \in S \cup {v} : \A y \in S \cup {v} : y <= x

\* The versions that processing the deltas hands to OnAdd or OnUpdate.
Told(deltas) ==
    {deltas[i].obj : i \in {j \in DOMAIN deltas : deltas[j].type # "Deleted"}}

\* Deviation: Process applies the deltas from the newest to the oldest.
PopNewestFirst ==
    /\ queue # <<>>
    /\ LET k == Head(queue)
       IN  /\ clientState' = [clientState EXCEPT ![k] = Outcome(items[k][1])]
           /\ notified' = [notified EXCEPT ![k] = NewestVersion(Told(items[k]), @)]
           /\ items' = [items EXCEPT ![k] = <<>>]
    /\ queue' = Tail(queue)
    /\ initialPopulationCount' =
           IF initialPopulationCount > 0 THEN initialPopulationCount - 1 ELSE 0
    /\ UNCHANGED populated

\* Pop with Process: the deltas are applied to the store from the oldest to
\* the newest and the handlers are told of each of them.
Pop ==
    /\ queue # <<>>
    /\ LET k == Head(queue)
       IN  /\ clientState' = [clientState EXCEPT ![k] = Pending(k)]
           /\ notified' = [notified EXCEPT ![k] = NewestVersion(Told(items[k]), @)]
           /\ items' = [items EXCEPT ![k] = <<>>]
    /\ queue' = Tail(queue)
    /\ initialPopulationCount' =
           IF initialPopulationCount > 0 THEN initialPopulationCount - 1 ELSE 0
    /\ UNCHANGED populated

-----------------------------------------------------------------------------
\* "We depend on the property that items in the set are in the queue and
\* vice versa, and that all Deltas in this map have at least one Delta"
\* (comment of type DeltaFIFO); a key is queued once.
ItemsMatchQueue ==
    /\ {queue[i] : i \in DOMAIN queue} = {k \in Keys : items[k] # <<>>}
    /\ \A i, j \in DOMAIN queue : queue[i] = queue[j] => i = j

\* A deletion is reported once, and only of an object the store or an earlier
\* delta has: "Don't provide a second report of the same deletion" (Delete).
DeletionsReportedOnce ==
    \A k \in Keys : \A i \in DOMAIN items[k] :
        items[k][i].type = "Deleted" =>
            IF i = 1 THEN clientState[k] # 0 ELSE items[k][i - 1].type # "Deleted"

\* The cache is at least as fresh as any notification handed out, unless the
\* object was deleted meanwhile (comment of type SharedInformer).
CacheAtLeastAsFresh ==
    \A k \in Keys : clientState[k] # 0 => clientState[k] >= notified[k]

=============================================================================
