-------------------------- MODULE ReplicaSetProofs --------------------------
(***************************************************************************)
(* Why expectations are enough: for every set of pods, every burst and any *)
(* number of changes, failures and restarts, the controller never has more *)
(* pods than were asked for and never counts a pod it has deleted, unless  *)
(* its expectations were lost.                                             *)
(***************************************************************************)
EXTENDS ReplicaSet, FiniteSetTheorems, TLAPS

\* Creations of which the handler has not been told.
Unseen ==
    {p \in Pods : \/ podStore[p] = "none" /\ pods[p] # "none"
                  \/ event.kind = "add" /\ event.pod = p}

\* Pods the controller has deleted and the store still shows.
Unnoticed == {p \in deleted : podStore[p] = "live"}

\* What a worker has in hand, where it is.
WorkerInv ==
    /\ worker.creates # 0 => worker.pc = "act" /\ worker.deletes = {}
    /\ worker.deletes # {} => worker.pc = "act"
    /\ worker.pc = "act" => exp.exists
    /\ ~exp.exists => exp.add = 0 /\ exp.del = 0
    /\ event.kind # "none" => event.pod \in Pods
    /\ event.kind = "delete" => podStore[event.pod] # "live"
    /\ event.kind = "add" => podStore[event.pod] # "none"
    /\ \A p \in Pods : podStore[p] \in {"dying", "done"} => pods[p] # "live"

\* Sizes the controller may have read are sizes that were asked for.
PeakInv ==
    /\ spec # Absent => spec <= peak
    /\ rsStore.spec # Absent => rsStore.spec <= peak
    /\ worker.pc = "list" => worker.spec <= peak

\* The controller may act: its expectations are met, or have expired.
MayAct == exp.expired \/ (worker.pc = "list" /\ worker.needsSync)

\* An expected creation stands for each one that is unseen or to come.
CreationInv ==
    /\ Cardinality(Unseen) + worker.creates <= exp.add
    /\ MayAct => Unseen = {} /\ worker.creates = 0
    /\ Cardinality(Active(pods)) + worker.creates <= peak

\* An expected deletion stands for each one that is unnoticed or to come.
DeletionInv ==
    /\ \A p \in deleted : pods[p] # "live" /\ podStore[p] # "none"
    /\ \A p \in worker.deletes : p \notin deleted /\ (podStore[p] = "none" => pods[p] = "none")
    /\ \A p \in deleted \cup worker.deletes : podStore[p] = "live" => p \in uids
    /\ Unnoticed # {} \/ worker.deletes # {} => exp.exists /\ Cardinality(uids) <= exp.del
    /\ MayAct => Unnoticed = {} /\ worker.deletes = {}

\* A process that left calls behind has left its successor blind.
SightedInv == ~blind => CreationInv /\ DeletionInv /\ late = NoCalls

IInv == TypeOK /\ WorkerInv /\ PeakInv /\ SightedInv
-----------------------------------------------------------------------------
(* Types.                                                                  *)

WorkerType ==
    [pc : {"idle", "list", "act", "status"}, spec : Nat, status : Nat,
     needsSync : BOOLEAN, active : Nat, creates : Nat, deletes : SUBSET Pods]
ExpType == [exists : BOOLEAN, add : Int, del : Int, expired : BOOLEAN]

\* Subsets of the pods can be counted.
LEMMA Countable ==
    ASSUME NEW S \in SUBSET Pods
    PROVE  IsFiniteSet(S) /\ Cardinality(S) \in Nat /\ (Cardinality(S) = 0 <=> S = {})
  BY ConstantsAssumption, FS_Subset, FS_CardinalityType, FS_EmptySet

\* A subset has no more elements.
LEMMA Fewer ==
    ASSUME NEW S \in SUBSET Pods, NEW T \in SUBSET S
    PROVE  Cardinality(T) <= Cardinality(S)
  BY Countable, FS_Subset

LEMMA BurstType ==
    ASSUME NEW n \in Nat
    PROVE  Burst(n) \in Nat /\ Burst(n) <= n
  BY ConstantsAssumption DEF Burst

\* What Acted leaves of the worker.
LEMMA ActedIs ==
    ASSUME NEW w \in WorkerType
    PROVE  /\ Acted(w) \in WorkerType
           /\ Acted(w).creates = w.creates /\ Acted(w).deletes = w.deletes
           /\ Acted(w).pc = IF w.creates = 0 /\ w.deletes = {} THEN "status" ELSE w.pc
  BY DEF Acted, WorkerType

\* The two ways a worker gets on with its work.
LEMMA Created ==
    ASSUME worker \in WorkerType, worker.pc = "act", worker.creates > 0,
           worker' = Acted([worker EXCEPT !.creates = @ - 1])
    PROVE  /\ worker' \in WorkerType /\ worker'.pc \in {"act", "status"}
           /\ worker'.creates = worker.creates - 1 /\ worker'.deletes = worker.deletes
           /\ worker'.pc = "status" => worker'.creates = 0 /\ worker'.deletes = {}
  <1> DEFINE w == [worker EXCEPT !.creates = @ - 1]
  <1>1. /\ w \in WorkerType /\ w.pc = "act" /\ w.creates = worker.creates - 1
        /\ w.deletes = worker.deletes
    BY DEF WorkerType
  <1>2. worker' = Acted(w)
    OBVIOUS
  <1> HIDE DEF w
  <1> QED BY <1>1, <1>2, ActedIs

LEMMA DeletedOne ==
    ASSUME worker \in WorkerType, worker.pc = "act", NEW p \in worker.deletes,
           worker' = Acted([worker EXCEPT !.deletes = @ \ {p}])
    PROVE  /\ worker' \in WorkerType /\ worker'.pc \in {"act", "status"}
           /\ worker'.creates = worker.creates /\ worker'.deletes = worker.deletes \ {p}
           /\ worker'.pc = "status" => worker'.creates = 0 /\ worker'.deletes = {}
  <1> DEFINE w == [worker EXCEPT !.deletes = @ \ {p}]
  <1>1. /\ w \in WorkerType /\ w.pc = "act" /\ w.creates = worker.creates
        /\ w.deletes = worker.deletes \ {p}
    BY DEF WorkerType
  <1>2. worker' = Acted(w)
    OBVIOUS
  <1> HIDE DEF w
  <1> QED BY <1>1, <1>2, ActedIs

LEMMA IdleIs ==
    /\ Idle \in WorkerType /\ Idle.pc = "idle" /\ Idle.creates = 0 /\ Idle.deletes = {}
    /\ ~Idle.needsSync
  BY DEF Idle, WorkerType

\* What the methods of the expectations do.
LEMMA ExpectationSteps ==
    ASSUME exp \in ExpType, uids \subseteq Pods
    PROVE  /\ CreationObserved =>
                /\ exp' \in ExpType /\ UNCHANGED uids
                /\ exp'.exists = exp.exists /\ exp'.del = exp.del /\ exp'.expired = exp.expired
                /\ exp'.add = IF exp.exists THEN exp.add - 1 ELSE exp.add
           /\ \A p : DeletionObserved(p) =>
                /\ exp' \in ExpType /\ uids' = uids \ {p}
                /\ exp'.exists = exp.exists /\ exp'.add = exp.add /\ exp'.expired = exp.expired
                /\ exp'.del = IF exp.exists /\ p \in uids THEN exp.del - 1 ELSE exp.del
           /\ Expire =>
                /\ exp' \in ExpType /\ UNCHANGED uids
                /\ exp'.exists /\ exp.exists /\ exp'.add = exp.add /\ exp'.del = exp.del
           /\ DeleteExpectations =>
                /\ exp' \in ExpType /\ uids' = {}
                /\ ~exp'.exists /\ exp'.add = 0 /\ exp'.del = 0 /\ ~exp'.expired
           /\ \A n \in Nat : ExpectCreations(n) =>
                /\ exp' \in ExpType /\ UNCHANGED uids
                /\ exp'.exists /\ exp'.add = n /\ exp'.del = 0 /\ ~exp'.expired
           /\ \A D \in SUBSET Pods : ExpectDeletions(D) =>
                /\ exp' \in ExpType /\ uids' = D
                /\ exp'.exists /\ exp'.add = 0 /\ exp'.del = Cardinality(D) /\ ~exp'.expired
  <1>1. CreationObserved =>
                /\ exp' \in ExpType /\ UNCHANGED uids
                /\ exp'.exists = exp.exists /\ exp'.del = exp.del /\ exp'.expired = exp.expired
                /\ exp'.add = IF exp.exists THEN exp.add - 1 ELSE exp.add
    BY DEF CreationObserved, ExpType
  <1>2. ASSUME NEW p, DeletionObserved(p)
        PROVE   /\ exp' \in ExpType /\ uids' = uids \ {p}
                /\ exp'.exists = exp.exists /\ exp'.add = exp.add /\ exp'.expired = exp.expired
                /\ exp'.del = IF exp.exists /\ p \in uids THEN exp.del - 1 ELSE exp.del
    BY <1>2 DEF DeletionObserved, ExpType
  <1>3. Expire =>
                /\ exp' \in ExpType /\ UNCHANGED uids
                /\ exp'.exists /\ exp.exists /\ exp'.add = exp.add /\ exp'.del = exp.del
    BY DEF Expire, ExpType
  <1>4. DeleteExpectations =>
                /\ exp' \in ExpType /\ uids' = {}
                /\ ~exp'.exists /\ exp'.add = 0 /\ exp'.del = 0 /\ ~exp'.expired
    BY DEF DeleteExpectations, NoExpectations, ExpType
  <1>5. \A n \in Nat : ExpectCreations(n) =>
                /\ exp' \in ExpType /\ UNCHANGED uids
                /\ exp'.exists /\ exp'.add = n /\ exp'.del = 0 /\ ~exp'.expired
    BY DEF ExpectCreations, SetExpectations, ExpType
  <1>6. \A D \in SUBSET Pods : ExpectDeletions(D) =>
                /\ exp' \in ExpType /\ uids' = D
                /\ exp'.exists /\ exp'.add = 0 /\ exp'.del = Cardinality(D) /\ ~exp'.expired
    BY Countable DEF ExpectDeletions, SetExpectations, ExpType
  <1> QED BY <1>1, <1>2, <1>3, <1>4, <1>5, <1>6
\* What SyncStart reads and what SyncList decides.
LEMMA SyncStartIs ==
    ASSUME TypeOK, SyncStart
    PROVE  /\ worker' \in WorkerType /\ worker'.pc = "list" /\ worker.pc = "idle"
           /\ worker'.creates = 0 /\ worker'.deletes = {}
           /\ worker'.spec = rsStore.spec /\ rsStore.spec \in Nat /\ rsStore.spec # Absent
           /\ worker'.needsSync = SatisfiedExpectations
  <1>1. /\ worker' = [Idle EXCEPT !.pc = "list", !.spec = rsStore.spec, !.status = rsStore.status,
                                  !.needsSync = SatisfiedExpectations]
        /\ worker.pc = "idle" /\ rsStore.spec # Absent
    BY DEF SyncStart
  <1>2. rsStore.spec \in Nat /\ rsStore.status \in Nat
    BY <1>1, ConstantsAssumption DEF TypeOK
  <1>3. SatisfiedExpectations \in BOOLEAN
    BY DEF SatisfiedExpectations, Fulfilled
  <1> QED BY <1>1, <1>2, <1>3 DEF Idle, WorkerType

LEMMA SyncListIs ==
    ASSUME TypeOK, SyncList
    PROVE  /\ worker.pc = "list" /\ worker' \in WorkerType /\ exp' \in ExpType /\ uids' \subseteq Pods
           /\ \/ /\ worker.needsSync /\ worker'.pc = "act" /\ worker'.deletes = {}
                 /\ worker'.creates + Cardinality(Active(podStore)) <= worker.spec
                 /\ UNCHANGED uids
                 /\ exp'.exists /\ exp'.add = worker'.creates /\ exp'.del = 0 /\ ~exp'.expired
              \/ /\ worker.needsSync /\ worker'.pc = "act" /\ worker'.creates = 0
                 /\ worker'.deletes \subseteq Active(podStore)
                 /\ uids' = worker'.deletes
                 /\ exp'.exists /\ exp'.add = 0 /\ exp'.del = Cardinality(worker'.deletes)
                 /\ ~exp'.expired
              \/ /\ worker'.pc = "status" /\ worker'.creates = 0 /\ worker'.deletes = {}
                 /\ UNCHANGED <<exp, uids>>
  <1> DEFINE n == Cardinality(Active(podStore))
             listed == [Idle EXCEPT !.status = worker.status, !.active = n]
  <1>0. /\ worker \in WorkerType /\ exp \in ExpType /\ uids \subseteq Pods
        /\ Active(podStore) \in SUBSET Pods
    BY DEF TypeOK, WorkerType, ExpectationsTypeOK, ExpType, Active
  <1>1. n \in Nat
    BY <1>0, Countable
  <1>2. worker.pc = "list" /\ worker.spec \in Nat /\ worker.status \in Nat
    BY <1>0 DEF SyncList, WorkerType
  <1>3. listed \in WorkerType /\ listed.creates = 0 /\ listed.deletes = {}
    BY <1>1, <1>2 DEF Idle, WorkerType
  <1> HIDE DEF listed
  <1>4. CASE /\ worker.needsSync /\ n < worker.spec
             /\ ExpectCreations(Burst(worker.spec - n))
             /\ worker' = [listed EXCEPT !.pc = "act", !.creates = Burst(worker.spec - n)]
    <2>1. /\ Burst(worker.spec - n) \in Nat /\ Burst(worker.spec - n) <= worker.spec - n
      <3>1. worker.spec - n \in Nat
        BY <1>1, <1>2, <1>4
      <3> QED BY <3>1, BurstType
    <2>2. /\ exp' \in ExpType /\ UNCHANGED uids
          /\ exp'.exists /\ exp'.add = Burst(worker.spec - n) /\ exp'.del = 0 /\ ~exp'.expired
      BY <1>0, <1>4, <2>1, ExpectationSteps
    <2>3. /\ worker' \in WorkerType /\ worker'.pc = "act" /\ worker'.deletes = {}
          /\ worker'.creates = Burst(worker.spec - n)
      BY <1>3, <1>4, <2>1 DEF WorkerType
    <2>4. Burst(worker.spec - n) + n <= worker.spec
      BY <1>1, <1>2, <2>1
    <2> QED BY <1>0, <1>2, <1>4, <2>2, <2>3, <2>4
  <1>5. ASSUME NEW D \in SUBSET Active(podStore), worker.needsSync, ExpectDeletions(D),
               worker' = [listed EXCEPT !.pc = "act", !.deletes = D]
        PROVE  /\ worker' \in WorkerType /\ exp' \in ExpType
               /\ worker'.pc = "act" /\ worker'.creates = 0 /\ worker'.deletes = D /\ uids' = D
               /\ exp'.exists /\ exp'.add = 0 /\ exp'.del = Cardinality(D) /\ ~exp'.expired
    <2>1. D \in SUBSET Pods
      BY <1>0
    <2>2. worker' \in WorkerType /\ worker'.pc = "act" /\ worker'.creates = 0 /\ worker'.deletes = D
      BY <1>3, <1>5, <2>1 DEF WorkerType
    <2> QED BY <1>0, <1>5, <2>1, <2>2, ExpectationSteps
  <1>6. CASE worker' = [listed EXCEPT !.pc = "status"] /\ UNCHANGED expVars
    <2>1. /\ worker' \in WorkerType /\ worker'.pc = "status" /\ worker'.creates = 0
          /\ worker'.deletes = {}
      BY <1>3, <1>6 DEF WorkerType
    <2> QED BY <1>0, <1>2, <1>6, <2>1 DEF expVars
  <1>7. \/ /\ worker.needsSync /\ n < worker.spec
           /\ ExpectCreations(Burst(worker.spec - n))
           /\ worker' = [listed EXCEPT !.pc = "act", !.creates = Burst(worker.spec - n)]
        \/ /\ worker.needsSync
           /\ \E D \in SUBSET Active(podStore) :
                 ExpectDeletions(D) /\ worker' = [listed EXCEPT !.pc = "act", !.deletes = D]
        \/ worker' = [listed EXCEPT !.pc = "status"] /\ UNCHANGED expVars
    BY DEF SyncList, listed
  <1>8. CASE worker.needsSync /\ \E D \in SUBSET Active(podStore) :
                 ExpectDeletions(D) /\ worker' = [listed EXCEPT !.pc = "act", !.deletes = D]
    <2>1. PICK D \in SUBSET Active(podStore) :
                 ExpectDeletions(D) /\ worker' = [listed EXCEPT !.pc = "act", !.deletes = D]
      BY <1>8
    <2> QED BY <1>0, <1>2, <1>5, <1>8, <2>1
  <1> QED BY <1>4, <1>6, <1>7, <1>8

\* The initial state.
LEMMA InitHolds == Init => IInv
  <1> SUFFICES ASSUME Init PROVE IInv
    OBVIOUS
  <1> USE DEF Init
  <1>1. worker \in WorkerType /\ worker.pc = "idle" /\ worker.creates = 0 /\ worker.deletes = {}
    BY IdleIs
  <1>2. exp \in ExpType /\ ~exp.exists /\ exp.add = 0 /\ exp.del = 0 /\ ~exp.expired /\ uids = {}
    BY DEF ExpectationsInit, NoExpectations, ExpType
  <1>3. event \in [pod : Pods \cup {NoPod}, kind : {"none", "add", "update", "delete"}] /\ event.kind = "none"
    BY DEF NoEvent
  <1>4. rsStore \in [spec : Replicas \cup {Absent}, status : Nat] /\ rsStore.spec = Absent
    OBVIOUS
  <1>5. TypeOK
    <2>1. pods \in [Pods -> States] /\ podStore \in [Pods -> States]
      BY DEF States
    <2>2. changes \in 0..MaxChanges /\ failures \in 0..MaxFailures
      BY ConstantsAssumption
    <2> QED BY <2>1, <2>2, <1>1, <1>2, <1>3, <1>4, ConstantsAssumption
            DEF TypeOK, ExpectationsTypeOK, WorkerType, ExpType, NoCalls
  <1>6. WorkerInv
    BY <1>1, <1>2, <1>3 DEF WorkerInv
  <1>7. PeakInv
    BY <1>1, <1>4 DEF PeakInv
  <1>8. Unseen = {} /\ Active(pods) = {} /\ Unnoticed = {} /\ deleted = {}
    BY <1>3 DEF Unseen, Active, Unnoticed
  <1>9. CreationInv
    <2>1. Cardinality(Unseen) = 0 /\ Cardinality(Active(pods)) = 0 /\ peak = 0
      BY <1>8, FS_EmptySet
    <2> QED BY <1>1, <1>2, <1>8, <2>1 DEF CreationInv
  <1>10. DeletionInv
    BY <1>1, <1>2, <1>8 DEF DeletionInv
  <1> QED BY <1>5, <1>6, <1>7, <1>9, <1>10 DEF IInv, SightedInv

-----------------------------------------------------------------------------
\* Every step keeps the types.
LEMMA TypeStays == TypeOK /\ [Next]_vars => TypeOK'
  <1> SUFFICES ASSUME TypeOK, [Next]_vars PROVE TypeOK'
    OBVIOUS
  <1>0. /\ worker \in WorkerType /\ exp \in ExpType /\ uids \subseteq Pods
        /\ pods \in [Pods -> States] /\ podStore \in [Pods -> States]
        /\ spec \in Replicas \cup {Absent} /\ status \in Nat
        /\ rsStore \in [spec : Replicas \cup {Absent}, status : Nat]
        /\ event \in [pod : Pods \cup {NoPod}, kind : {"none", "add", "update", "delete"}]
        /\ queued \in BOOLEAN /\ changes \in 0..MaxChanges /\ failures \in 0..MaxFailures
        /\ peak \in Nat /\ deleted \subseteq Pods /\ blind \in BOOLEAN
        /\ late \in [creates : Nat, deletes : SUBSET Pods]
        /\ MaxChanges \in Nat /\ MaxFailures \in Nat
    BY ConstantsAssumption DEF TypeOK, WorkerType, ExpectationsTypeOK, ExpType
  <1>f. Fail => failures' \in 0..MaxFailures
    BY <1>0 DEF Fail
  <1>c. Change => changes' \in 0..MaxChanges
    BY <1>0 DEF Change
  <1>n. /\ NoEvent \in [pod : Pods \cup {NoPod}, kind : {"none", "add", "update", "delete"}]
        /\ Idle \in WorkerType
        /\ [spec |-> spec, status |-> status] \in [spec : Replicas \cup {Absent}, status : Nat]
        /\ \A p \in Pods, s \in States : [pods EXCEPT ![p] = s] \in [Pods -> States]
        /\ \A p \in Pods, s \in States : [podStore EXCEPT ![p] = s] \in [Pods -> States]
        /\ "none" \in States /\ "live" \in States /\ "done" \in States /\ "dying" \in States
        /\ \A p \in Pods, k \in {"add", "update", "delete"} :
              [pod |-> p, kind |-> k] \in [pod : Pods \cup {NoPod}, kind : {"none", "add", "update", "delete"}]
    BY <1>0, IdleIs DEF NoEvent, States
  <1>t. ASSUME (worker \in WorkerType)', (exp \in ExpType)', (uids \subseteq Pods)',
               (pods \in [Pods -> States])', (podStore \in [Pods -> States])',
               (spec \in Replicas \cup {Absent})', (status \in Nat)',
               (rsStore \in [spec : Replicas \cup {Absent}, status : Nat])',
               (event \in [pod : Pods \cup {NoPod}, kind : {"none", "add", "update", "delete"}])',
               (queued \in BOOLEAN)', (changes \in 0..MaxChanges)', (failures \in 0..MaxFailures)',
               (peak \in Nat)', (deleted \subseteq Pods)', (blind \in BOOLEAN)',
               (late \in [creates : Nat, deletes : SUBSET Pods])'
        PROVE  TypeOK'
    BY <1>t DEF TypeOK, WorkerType, ExpectationsTypeOK, ExpType
  <1>1. ASSUME NEW n \in Replicas \cup {Absent}, SetSpec(n) PROVE TypeOK'
    <2>1. peak' \in Nat
      BY <1>0, <1>1, ConstantsAssumption DEF SetSpec
    <2> QED BY <1>0, <1>1, <1>c, <2>1
            DEF SetSpec, expVars, TypeOK, WorkerType, ExpectationsTypeOK, ExpType
  <1>2. ASSUME NEW p \in Pods, DeleteByUser(p) \/ Finish(p) \/ Removed(p) PROVE TypeOK'
    BY <1>0, <1>2, <1>c, <1>n
       DEF DeleteByUser, Finish, Removed, expVars, TypeOK, WorkerType, ExpectationsTypeOK, ExpType
  <1>3. ASSUME NEW p \in Pods, PodDelta(p) PROVE TypeOK'
    BY <1>0, <1>3, <1>n
       DEF PodDelta, serverVars, expVars, TypeOK, WorkerType, ExpectationsTypeOK, ExpType
  <1>4. CASE addPod \/ updatePod \/ deletePod
    <2>1. exp' \in ExpType /\ uids' \subseteq Pods
      BY <1>0, <1>4, ExpectationSteps DEF addPod, updatePod, deletePod, expVars
    <2>2. /\ event' = NoEvent /\ queued' \in BOOLEAN
          /\ UNCHANGED <<pods, spec, status, podStore, rsStore, worker, changes, failures, peak, deleted, blind>>
      BY <1>0, <1>4 DEF addPod, updatePod, deletePod, serverVars
    <2>5. UNCHANGED late
      BY <1>4 DEF addPod, updatePod, deletePod
    <2>3. (event \in [pod : Pods \cup {NoPod}, kind : {"none", "add", "update", "delete"}])'
      BY <1>n, <2>2
    <2>4. (queued \in BOOLEAN)'
      BY <2>2
    <2> QED BY <1>0, <1>t, <2>1, <2>2, <2>3, <2>4, <2>5
  <1>5. CASE ReplicaSetDelta \/ Resync
    <2>1. rsStore' \in [spec : Replicas \cup {Absent}, status : Nat] /\ queued' = TRUE
      BY <1>0, <1>5, <1>n DEF ReplicaSetDelta, Resync
    <2> QED BY <1>0, <1>5, <2>1
            DEF ReplicaSetDelta, Resync, serverVars, expVars, TypeOK, WorkerType, ExpectationsTypeOK, ExpType
  <1>6. CASE Timeout
    <2>1. exp' \in ExpType /\ uids' \subseteq Pods
      BY <1>0, <1>6, ExpectationSteps DEF Timeout
    <2> QED BY <1>0, <1>6, <1>f, <1>t, <2>1 DEF Timeout, serverVars
  <1>7. CASE SyncAbsent
    <2>1. exp' \in ExpType /\ uids' \subseteq Pods
      BY <1>0, <1>7, ExpectationSteps DEF SyncAbsent
    <2>2. blind' \in BOOLEAN
      BY <1>0, <1>7 DEF SyncAbsent, Fulfilled
    <2> QED BY <1>0, <1>7, <2>1, <2>2
            DEF SyncAbsent, serverVars, TypeOK, WorkerType, ExpectationsTypeOK, ExpType
  <1>8. CASE SyncStart
    <2>1. worker' \in WorkerType
      BY <1>8, SyncStartIs
    <2> QED BY <1>0, <1>8, <2>1
            DEF SyncStart, serverVars, expVars, TypeOK, WorkerType, ExpectationsTypeOK, ExpType
  <1>9. CASE SyncList
    <2>1. worker' \in WorkerType /\ exp' \in ExpType /\ uids' \subseteq Pods
      BY <1>9, SyncListIs
    <2> QED BY <1>0, <1>9, <2>1
            DEF SyncList, serverVars, TypeOK, WorkerType, ExpectationsTypeOK, ExpType
  <1>10. ASSUME NEW p \in Pods, CreatePod(p) PROVE TypeOK'
    <2>1. worker' \in WorkerType
      BY <1>0, <1>10, Created DEF CreatePod
    <2> QED BY <1>0, <1>10, <1>n, <2>1
            DEF CreatePod, TypeOK, WorkerType, ExpectationsTypeOK, ExpType
  <1>11. CASE CreateFails
    <2>1. worker' \in WorkerType
      BY <1>0, <1>11, Created DEF CreateFails
    <2>2. exp' \in ExpType /\ uids' \subseteq Pods
      BY <1>0, <1>11, ExpectationSteps DEF CreateFails
    <2>3. pods' \in [Pods -> States] /\ failures' \in 0..MaxFailures /\ blind' \in BOOLEAN
      <3>1. /\ pods' = pods \/ \E p \in Pods : pods' = [pods EXCEPT ![p] = "live"]
            /\ failures' = failures \/ Fail
            /\ blind' = blind \/ blind' = TRUE
        BY <1>11 DEF CreateFails
      <3>2. pods' \in [Pods -> States]
        BY <1>0, <1>n, <3>1
      <3>3. blind' \in BOOLEAN
        BY <1>0, <3>1
      <3> QED BY <1>0, <1>f, <3>1, <3>2, <3>3
    <2> QED BY <1>0, <1>11, <2>1, <2>2, <2>3
            DEF CreateFails, TypeOK, WorkerType, ExpectationsTypeOK, ExpType
  <1>12. ASSUME NEW p \in Pods, DeletePod(p) PROVE TypeOK'
    <2>1. worker' \in WorkerType
      BY <1>0, <1>12, DeletedOne DEF DeletePod
    <2> QED BY <1>0, <1>12, <1>n, <1>t, <2>1 DEF DeletePod, expVars
  <1>13. ASSUME NEW p \in Pods, DeleteFails(p) PROVE TypeOK'
    <2>1. worker' \in WorkerType
      BY <1>0, <1>13, DeletedOne DEF DeleteFails
    <2>2. exp' \in ExpType /\ uids' \subseteq Pods
      BY <1>0, <1>13, ExpectationSteps DEF DeleteFails
    <2>3. /\ pods' \in [Pods -> States] /\ failures' \in 0..MaxFailures /\ blind' \in BOOLEAN
          /\ deleted' \subseteq Pods
      <3>1. /\ pods' = pods \/ pods' = [pods EXCEPT ![p] = "dying"]
            /\ failures' = failures \/ Fail
            /\ blind' = blind \/ blind' = TRUE
            /\ deleted' = deleted \/ deleted' = deleted \cup {p}
        BY <1>13 DEF DeleteFails
      <3>2. pods' \in [Pods -> States]
        BY <1>0, <1>n, <3>1
      <3>3. blind' \in BOOLEAN
        BY <1>0, <3>1
      <3> QED BY <1>0, <1>f, <3>1, <3>2, <3>3
    <2> QED BY <1>0, <1>13, <2>1, <2>2, <2>3
            DEF DeleteFails, TypeOK, WorkerType, ExpectationsTypeOK, ExpType
  <1>14. CASE UpdateStatus
    <2>1. status' \in Nat /\ queued' \in BOOLEAN /\ failures' \in 0..MaxFailures
      <3>1. worker.active \in Nat
        BY <1>0 DEF WorkerType
      <3> QED BY <1>0, <1>14, <1>f, <3>1 DEF UpdateStatus
    <2> QED BY <1>0, <1>14, <1>n, <2>1
            DEF UpdateStatus, expVars, TypeOK, WorkerType, ExpectationsTypeOK, ExpType
  <1>15. CASE Restart
    <2>1. exp' \in ExpType /\ uids' \subseteq Pods
      BY <1>0, <1>15, ExpectationSteps DEF Restart
    <2>2. late' \in [creates : Nat, deletes : SUBSET Pods]
      BY <1>0, <1>15 DEF Restart, WorkerType
    <2>3. podStore' \in [Pods -> States] /\ deleted' \subseteq Pods
      BY <1>0, <1>15 DEF Restart
    <2>4. (rsStore \in [spec : Replicas \cup {Absent}, status : Nat])'
      BY <1>0, <1>15, <1>n DEF Restart
    <2>5. queued' \in BOOLEAN /\ blind' \in BOOLEAN
      BY <1>0, <1>15 DEF Restart
    <2>6. event' = NoEvent /\ worker' = Idle /\ Fail /\ UNCHANGED <<pods, spec, status, changes, peak>>
      BY <1>15 DEF Restart, serverVars
    <2> QED BY <1>0, <1>f, <1>n, <1>t, <2>1, <2>2, <2>3, <2>4, <2>5, <2>6
  <1>17. CASE LateLost
    <2>1. late' \in [creates : Nat, deletes : SUBSET Pods]
      BY <1>17 DEF LateLost, NoCalls
    <2> QED BY <1>0, <1>17, <2>1
            DEF LateLost, serverVars, expVars, TypeOK, WorkerType, ExpectationsTypeOK, ExpType
  <1>18. ASSUME NEW p \in Pods, LateCreate(p) \/ LateDelete(p) PROVE TypeOK'
    <2>1. late' \in [creates : Nat, deletes : SUBSET Pods]
      BY <1>0, <1>18 DEF LateCreate, LateDelete
    <2>2. pods' \in [Pods -> States] /\ uids' \subseteq Pods /\ exp' = exp
      BY <1>0, <1>18, <1>n DEF LateCreate, LateDelete, expVars
    <2> QED BY <1>0, <1>18, <2>1, <2>2
            DEF LateCreate, LateDelete, TypeOK, WorkerType, ExpectationsTypeOK, ExpType
  <1>16. CASE UNCHANGED vars
    BY <1>0, <1>16 DEF vars, serverVars, expVars, TypeOK, WorkerType, ExpectationsTypeOK, ExpType
  <1> QED BY <1>1, <1>2, <1>3, <1>4, <1>5, <1>6, <1>7, <1>8, <1>9, <1>10, <1>11, <1>12, <1>13,
             <1>14, <1>15, <1>16, <1>17, <1>18 DEF Next, Informers, Worker, Late
-----------------------------------------------------------------------------
\* What the type invariant says, with the types named.
LEMMA Typed ==
    ASSUME TypeOK
    PROVE  /\ worker \in WorkerType /\ exp \in ExpType /\ uids \subseteq Pods
           /\ pods \in [Pods -> States] /\ podStore \in [Pods -> States]
           /\ event.kind \in {"none", "add", "update", "delete"} /\ peak \in Nat /\ deleted \subseteq Pods
           /\ worker.creates \in Nat /\ worker.spec \in Nat /\ worker.deletes \subseteq Pods
           /\ exp.add \in Int /\ exp.del \in Int
           /\ spec \in Replicas \cup {Absent} /\ rsStore.spec \in Replicas \cup {Absent}
  BY DEF TypeOK, WorkerType, ExpectationsTypeOK, ExpType

\* Every step keeps what the worker has in hand and the order of the events.
LEMMA WorkerStays == TypeOK /\ WorkerInv /\ [Next]_vars => WorkerInv'
  <1> SUFFICES ASSUME TypeOK, WorkerInv, [Next]_vars PROVE WorkerInv'
    OBVIOUS
  <1>0. /\ worker \in WorkerType /\ exp \in ExpType /\ uids \subseteq Pods
        /\ pods \in [Pods -> States] /\ podStore \in [Pods -> States]
        /\ worker.creates \in Nat
    BY Typed
  <1>w. ASSUME UNCHANGED <<worker, exp>>
        PROVE  /\ worker'.creates # 0 => worker'.pc = "act" /\ worker'.deletes = {}
               /\ worker'.deletes # {} => worker'.pc = "act"
               /\ worker'.pc = "act" => exp'.exists
               /\ ~exp'.exists => exp'.add = 0 /\ exp'.del = 0
    BY <1>w DEF WorkerInv
  <1>e. ASSUME UNCHANGED <<event, podStore>>
        PROVE  /\ event'.kind # "none" => event'.pod \in Pods
               /\ event'.kind = "delete" => podStore'[event'.pod] # "live"
               /\ event'.kind = "add" => podStore'[event'.pod] # "none"
    BY <1>e DEF WorkerInv
  <1>1. ASSUME NEW n \in Replicas \cup {Absent}, SetSpec(n) PROVE WorkerInv'
    BY <1>1 DEF SetSpec, expVars, WorkerInv
  <1>2. ASSUME NEW p \in Pods, DeleteByUser(p) \/ Finish(p) \/ Removed(p) PROVE WorkerInv'
    <2>1. \A q \in Pods : pods'[q] = "live" => pods[q] = "live"
      BY <1>0, <1>2 DEF DeleteByUser, Finish, Removed
    <2>2. UNCHANGED <<worker, exp, event, podStore>>
      BY <1>2 DEF DeleteByUser, Finish, Removed, expVars
    <2> QED BY <1>w, <1>e, <2>1, <2>2 DEF WorkerInv
  <1>3. ASSUME NEW p \in Pods, PodDelta(p) PROVE WorkerInv'
    <2>1. UNCHANGED <<worker, exp, pods>>
      BY <1>3 DEF PodDelta, expVars, serverVars
    <2>2. /\ event'.pod = p /\ event'.kind \in {"add", "update", "delete"}
          /\ event'.kind = "delete" => podStore'[p] # "live"
          /\ event'.kind = "add" => podStore'[p] # "none"
      BY <1>0, <1>3 DEF PodDelta
    <2>3. \A q \in Pods : podStore'[q] \in {"dying", "done"} =>
                            podStore[q] \in {"dying", "done"} \/ pods[q] # "live"
      BY <1>0, <1>3 DEF PodDelta
    <2>4. \A q \in Pods : podStore'[q] \in {"dying", "done"} => pods'[q] # "live"
      BY <2>1, <2>3 DEF WorkerInv
    <2> QED BY <1>w, <2>1, <2>2, <2>4 DEF WorkerInv
  <1>4. CASE addPod \/ updatePod \/ deletePod
    <2>1. /\ exp'.exists = exp.exists /\ (~exp.exists => exp'.add = exp.add /\ exp'.del = exp.del)
      BY <1>0, <1>4, ExpectationSteps DEF addPod, updatePod, deletePod, expVars
    <2>2. UNCHANGED <<worker, podStore, pods>> /\ event'.kind = "none"
      BY <1>4 DEF addPod, updatePod, deletePod, serverVars, NoEvent
    <2> QED BY <2>1, <2>2 DEF WorkerInv
  <1>5. CASE ReplicaSetDelta \/ Resync \/ UNCHANGED vars
    <2>1. UNCHANGED <<worker, exp, event, podStore, pods>>
      BY <1>5 DEF ReplicaSetDelta, Resync, serverVars, expVars, vars
    <2> QED BY <2>1 DEF WorkerInv
  <1>6. CASE Timeout
    <2>1. exp'.exists /\ UNCHANGED <<worker, event, podStore, pods>>
      BY <1>0, <1>6, ExpectationSteps DEF Timeout, serverVars
    <2> QED BY <2>1 DEF WorkerInv
  <1>7. CASE SyncAbsent
    <2>1. exp'.add = 0 /\ exp'.del = 0 /\ UNCHANGED <<worker, event, podStore, pods>> /\ worker.pc = "idle"
      BY <1>0, <1>7, ExpectationSteps DEF SyncAbsent, serverVars
    <2> QED BY <2>1 DEF WorkerInv
  <1>8. CASE SyncStart
    <2>1. worker'.pc = "list" /\ worker'.creates = 0 /\ worker'.deletes = {}
      BY <1>8, SyncStartIs
    <2>2. UNCHANGED <<exp, event, podStore, pods>>
      BY <1>8 DEF SyncStart, serverVars, expVars
    <2> QED BY <2>1, <2>2 DEF WorkerInv
  <1>9. CASE SyncList
    <2>1. UNCHANGED <<event, podStore, pods>>
      BY <1>9 DEF SyncList, serverVars
    <2>2. \/ worker'.pc = "act" /\ worker'.deletes = {} /\ exp'.exists
          \/ worker'.pc = "act" /\ worker'.creates = 0 /\ exp'.exists
          \/ worker'.pc = "status" /\ worker'.creates = 0 /\ worker'.deletes = {} /\ exp' = exp
      BY <1>9, SyncListIs
    <2> QED BY <1>e, <2>1, <2>2 DEF WorkerInv
  <1>10. ASSUME NEW p \in Pods, CreatePod(p) PROVE WorkerInv'
    <2>1. /\ worker'.pc \in {"act", "status"} /\ worker'.deletes = {}
          /\ worker'.pc = "status" => worker'.creates = 0
      BY <1>0, <1>10, Created DEF CreatePod, WorkerInv
    <2>2. UNCHANGED <<exp, event, podStore>> /\ exp.exists
      BY <1>10 DEF CreatePod, WorkerInv
    <2>3. \A q \in Pods : podStore'[q] \in {"dying", "done"} => pods'[q] # "live"
      BY <1>0, <1>10 DEF CreatePod, Fresh, WorkerInv
    <2> QED BY <1>e, <2>1, <2>2, <2>3 DEF WorkerInv
  <1>11. CASE CreateFails
    <2>1. /\ worker'.pc \in {"act", "status"} /\ worker'.deletes = {}
          /\ worker'.pc = "status" => worker'.creates = 0
      BY <1>0, <1>11, Created DEF CreateFails, WorkerInv
    <2>2. UNCHANGED <<event, podStore>> /\ exp'.exists
      BY <1>0, <1>11, ExpectationSteps DEF CreateFails, WorkerInv
    <2>3. \A q \in Pods : podStore'[q] \in {"dying", "done"} => pods'[q] # "live"
      BY <1>0, <1>11 DEF CreateFails, Fresh, WorkerInv
    <2> QED BY <1>e, <2>1, <2>2, <2>3 DEF WorkerInv
  <1>12. ASSUME NEW p \in Pods, DeletePod(p) \/ DeleteFails(p) PROVE WorkerInv'
    <2>1. /\ worker'.pc \in {"act", "status"} /\ worker'.creates = 0
          /\ worker'.pc = "status" => worker'.deletes = {}
      <3>1. worker.creates = 0
        BY <1>12 DEF DeletePod, DeleteFails, WorkerInv
      <3> QED BY <1>0, <1>12, <3>1, DeletedOne DEF DeletePod, DeleteFails
    <2>2. UNCHANGED <<event, podStore>> /\ exp'.exists
      BY <1>0, <1>12, ExpectationSteps DEF DeletePod, DeleteFails, expVars, WorkerInv
    <2>3. \A q \in Pods : pods'[q] = "live" => pods[q] = "live"
      BY <1>0, <1>12 DEF DeletePod, DeleteFails
    <2> QED BY <1>e, <2>1, <2>2, <2>3 DEF WorkerInv
  <1>13. CASE UpdateStatus
    <2>1. worker'.pc = "idle" /\ worker'.creates = 0 /\ worker'.deletes = {}
      BY <1>13, IdleIs DEF UpdateStatus
    <2>2. UNCHANGED <<exp, event, podStore, pods>>
      BY <1>13 DEF UpdateStatus, expVars
    <2> QED BY <2>1, <2>2 DEF WorkerInv
  <1>14. CASE Restart
    <2>1. worker'.pc = "idle" /\ worker'.creates = 0 /\ worker'.deletes = {} /\ event'.kind = "none"
      BY <1>14, IdleIs DEF Restart, NoEvent
    <2>2. exp'.add = 0 /\ exp'.del = 0 /\ pods' = pods
      BY <1>0, <1>14, ExpectationSteps DEF Restart, serverVars
    <2>3. \A q \in Pods : podStore'[q] \in {podStore[q], pods[q]}
      BY <1>14 DEF Restart
    <2>4. \A q \in Pods : podStore'[q] \in {"dying", "done"} => pods'[q] # "live"
      BY <2>2, <2>3 DEF WorkerInv
    <2> QED BY <2>1, <2>2, <2>4 DEF WorkerInv
  <1>15. CASE LateLost
    <2>1. UNCHANGED <<worker, exp, event, podStore, pods>>
      BY <1>15 DEF LateLost, serverVars, expVars
    <2> QED BY <2>1 DEF WorkerInv
  <1>16. ASSUME NEW p \in Pods, LateCreate(p) \/ LateDelete(p) PROVE WorkerInv'
    <2>1. UNCHANGED <<worker, exp, event, podStore>>
      BY <1>16 DEF LateCreate, LateDelete, expVars
    <2>2. \A q \in Pods : podStore'[q] \in {"dying", "done"} => pods'[q] # "live"
      BY <1>0, <1>16 DEF LateCreate, LateDelete, Fresh, WorkerInv
    <2> QED BY <1>w, <1>e, <2>1, <2>2 DEF WorkerInv
  <1> QED BY <1>1, <1>2, <1>3, <1>4, <1>5, <1>6, <1>7, <1>8, <1>9, <1>10, <1>11, <1>12, <1>13,
             <1>14, <1>15, <1>16 DEF Next, Informers, Worker, Late

\* Only users change the size, and the controller reads what they have written.
LEMMA PeakStays == TypeOK /\ PeakInv /\ [Next]_vars => PeakInv' /\ peak' >= peak
  <1> SUFFICES ASSUME TypeOK, PeakInv, [Next]_vars PROVE PeakInv' /\ peak' >= peak
    OBVIOUS
  <1>0. /\ worker \in WorkerType /\ peak \in Nat /\ worker.spec \in Nat
        /\ spec \in Replicas \cup {Absent} /\ rsStore.spec \in Replicas \cup {Absent}
        /\ Replicas \subseteq Nat
    BY Typed, ConstantsAssumption
  <1>1. ASSUME NEW n \in Replicas \cup {Absent}, SetSpec(n) PROVE PeakInv' /\ peak' >= peak
    <2>1. /\ spec' = n /\ peak' = IF n # Absent /\ n > peak THEN n ELSE peak
          /\ UNCHANGED <<rsStore, worker>>
      BY <1>1 DEF SetSpec
    <2>2. peak' >= peak /\ peak' \in Nat /\ (n # Absent => n <= peak')
      BY <1>0, <2>1
    <2>3. \A x \in Nat : x <= peak => x <= peak'
      BY <1>0, <2>2
    <2> QED BY <1>0, <2>1, <2>2, <2>3 DEF PeakInv
  <1>2. CASE UNCHANGED <<spec, rsStore, worker, peak>>
    BY <1>0, <1>2 DEF PeakInv
  <1>3. CASE UNCHANGED <<spec, rsStore, peak>> /\ worker'.pc # "list"
    BY <1>0, <1>3 DEF PeakInv
  <1>4. ASSUME NEW p \in Pods, DeleteByUser(p) \/ Finish(p) \/ Removed(p) \/ PodDelta(p) PROVE PeakInv' /\ peak' >= peak
    BY <1>2, <1>4 DEF DeleteByUser, Finish, Removed, PodDelta, serverVars
  <1>5. CASE addPod \/ updatePod \/ deletePod \/ Resync \/ Timeout \/ SyncAbsent \/ UNCHANGED vars
    BY <1>2, <1>5 DEF addPod, updatePod, deletePod, Resync, Timeout, SyncAbsent, serverVars, vars
  <1>6. CASE ReplicaSetDelta
    <2>1. rsStore'.spec = spec /\ UNCHANGED <<spec, peak, worker>>
      BY <1>6 DEF ReplicaSetDelta, serverVars
    <2> QED BY <1>0, <2>1 DEF PeakInv
  <1>7. CASE SyncStart
    <2>1. worker'.spec = rsStore.spec /\ rsStore.spec # Absent
      BY <1>7, SyncStartIs
    <2>2. UNCHANGED <<spec, peak, rsStore>>
      BY <1>7 DEF SyncStart, serverVars
    <2> QED BY <1>0, <2>1, <2>2 DEF PeakInv
  <1>8. CASE SyncList
    <2>1. worker'.pc # "list"
      BY <1>8, SyncListIs
    <2> QED BY <1>3, <1>8, <2>1 DEF SyncList, serverVars
  <1>9. ASSUME NEW p \in Pods, CreatePod(p) \/ DeletePod(p) \/ DeleteFails(p) PROVE PeakInv' /\ peak' >= peak
    <2>1. worker'.pc # "list"
      BY <1>0, <1>9, Created, DeletedOne DEF CreatePod, DeletePod, DeleteFails
    <2> QED BY <1>3, <1>9, <2>1 DEF CreatePod, DeletePod, DeleteFails
  <1>10. CASE CreateFails
    <2>1. worker'.pc # "list"
      BY <1>0, <1>10, Created DEF CreateFails
    <2> QED BY <1>3, <1>10, <2>1 DEF CreateFails
  <1>11. CASE UpdateStatus
    <2>1. worker'.pc # "list"
      BY <1>11, IdleIs DEF UpdateStatus
    <2> QED BY <1>3, <1>11, <2>1 DEF UpdateStatus
  <1>12. CASE Restart
    <2>1. worker'.pc # "list" /\ rsStore'.spec \in {rsStore.spec, spec} /\ UNCHANGED <<spec, peak>>
      BY <1>12, IdleIs DEF Restart, serverVars
    <2> QED BY <1>0, <2>1 DEF PeakInv
  <1>13. CASE Late
    BY <1>2, <1>13 DEF Late, LateLost, LateCreate, LateDelete, serverVars
  <1> QED BY <1>1, <1>4, <1>5, <1>6, <1>7, <1>8, <1>9, <1>10, <1>11, <1>12, <1>13
          DEF Next, Informers, Worker
-----------------------------------------------------------------------------
(* Creations.                                                              *)

\* A step that shows no new pod and expects no less.
LEMMA CreationKept ==
    ASSUME TypeOK, TypeOK', CreationInv,
           Unseen' \subseteq Unseen, Active(pods)' \subseteq Active(pods),
           worker'.creates = worker.creates, exp'.add >= exp.add, peak' >= peak,
           MayAct' => MayAct
    PROVE  CreationInv'
  <1>0. worker.creates \in Nat /\ exp.add \in Int /\ exp'.add \in Int /\ peak \in Nat /\ peak' \in Nat
    BY Typed DEF TypeOK, ExpectationsTypeOK
  <1>1. Unseen \in SUBSET Pods /\ Active(pods) \in SUBSET Pods
    BY DEF Unseen, Active
  <1>2. /\ Cardinality(Unseen') <= Cardinality(Unseen)
        /\ Cardinality(Active(pods)') <= Cardinality(Active(pods))
    BY <1>1, Fewer
  <1>3. /\ Cardinality(Unseen) \in Nat /\ Cardinality(Active(pods)) \in Nat
        /\ Cardinality(Unseen') \in Nat /\ Cardinality(Active(pods)') \in Nat
    <2>1. Unseen' \in SUBSET Pods /\ Active(pods)' \in SUBSET Pods
      BY <1>1
    <2> QED BY <1>1, <2>1, Countable
  <1>4. Cardinality(Unseen') + worker'.creates <= exp'.add
    BY <1>0, <1>2, <1>3 DEF CreationInv
  <1>5. Cardinality(Active(pods)') + worker'.creates <= peak'
    BY <1>0, <1>2, <1>3 DEF CreationInv
  <1> QED BY <1>4, <1>5 DEF CreationInv

\* Met expectations, and expired ones, mean that every creation was seen.
LEMMA MetCreations ==
    ASSUME TypeOK, WorkerInv, CreationInv, worker.pc # "act",
           Fulfilled \/ exp.expired \/ ~exp.exists
    PROVE  Unseen = {} /\ worker.creates = 0
  <1>0. worker.creates = 0 /\ exp.add \in Int
    BY Typed DEF WorkerInv
  <1>1. Unseen \in SUBSET Pods
    BY DEF Unseen
  <1>2. CASE exp.expired
    BY <1>0, <1>2 DEF CreationInv, MayAct
  <1>3. CASE Fulfilled \/ ~exp.exists
    <2>1. exp.add <= 0
      BY <1>0, <1>3 DEF Fulfilled, WorkerInv
    <2>2. Cardinality(Unseen) = 0
      <3>1. Cardinality(Unseen) \in Nat
        BY <1>1, Countable
      <3> QED BY <1>0, <2>1, <3>1 DEF CreationInv
    <2> QED BY <1>0, <1>1, <2>2, Countable
  <1> QED BY <1>2, <1>3

\* A step after which every creation was seen and none is to come.
LEMMA CreationReset ==
    ASSUME TypeOK, TypeOK', CreationInv, Unseen' = {},
           Active(pods)' \subseteq Active(pods), peak' >= peak, worker'.creates = 0,
           exp'.add >= 0
    PROVE  CreationInv'
  <1>0. peak \in Nat /\ peak' \in Nat /\ worker.creates \in Nat
    BY Typed DEF TypeOK
  <1>1. Active(pods) \in SUBSET Pods
    BY DEF Active
  <1>2. Active(pods)' \in SUBSET Pods
    BY <1>1
  <1>3. /\ Cardinality(Active(pods)) \in Nat /\ Cardinality(Active(pods)') \in Nat
        /\ Cardinality(Active(pods)') <= Cardinality(Active(pods))
    BY <1>1, <1>2, Countable, Fewer
  <1>4. Cardinality(Unseen') = 0
    BY FS_EmptySet
  <1>5. Cardinality(Active(pods)') + worker'.creates <= peak'
    BY <1>0, <1>3 DEF CreationInv
  <1>6. Cardinality(Unseen') + worker'.creates <= exp'.add
    BY <1>4, Typed DEF TypeOK, ExpectationsTypeOK
  <1> QED BY <1>5, <1>6 DEF CreationInv

\* When every creation was seen the store shows at least the pods there are.
LEMMA StoreShowsAll ==
    ASSUME TypeOK, WorkerInv, Unseen = {}
    PROVE  Active(pods) \subseteq Active(podStore)
  <1>1. ASSUME NEW p \in Pods, pods[p] = "live" PROVE podStore[p] = "live"
    <2>1. podStore[p] \in States /\ podStore[p] # "none"
      BY <1>1, Typed DEF Unseen
    <2>2. podStore[p] \notin {"dying", "done"}
      BY <1>1 DEF WorkerInv
    <2> QED BY <2>1, <2>2 DEF States
  <1> QED BY <1>1 DEF Active

\* Every step keeps the count of the expected creations, or is blind.
LEMMA CreationStays ==
    ASSUME TypeOK, TypeOK', WorkerInv, PeakInv, CreationInv, peak' >= peak, [Next]_vars, ~blind',
           late = NoCalls
    PROVE  CreationInv'
  <1>0. /\ worker \in WorkerType /\ exp \in ExpType /\ uids \subseteq Pods
        /\ pods \in [Pods -> States] /\ podStore \in [Pods -> States]
        /\ worker.creates \in Nat /\ exp.add \in Int /\ peak \in Nat
        /\ worker.spec \in Nat /\ event.kind \in {"none", "add", "update", "delete"}
    BY Typed
  <1>k. ASSUME Unseen' \subseteq Unseen, Active(pods)' \subseteq Active(pods),
               worker'.creates = worker.creates, exp'.add = exp.add, MayAct' => MayAct
        PROVE  CreationInv'
    <2>1. exp'.add >= exp.add
      BY <1>0, <1>k
    <2> QED BY <1>k, <2>1, CreationKept
  <1>u. UNCHANGED <<pods, podStore, event>> => Unseen' = Unseen /\ Active(pods)' = Active(pods)
    BY DEF Unseen, Active
  <1>1. ASSUME NEW n \in Replicas \cup {Absent}, SetSpec(n) PROVE CreationInv'
    <2>1. UNCHANGED <<pods, podStore, event, worker, exp>>
      BY <1>1 DEF SetSpec, expVars
    <2> QED BY <1>k, <1>u, <2>1 DEF MayAct
  <1>2. ASSUME NEW p \in Pods, DeleteByUser(p) \/ Finish(p) \/ Removed(p) PROVE CreationInv'
    <2>1. UNCHANGED <<podStore, event, worker, exp>>
      BY <1>2 DEF DeleteByUser, Finish, Removed, expVars
    <2>2. \A q \in Pods : /\ pods'[q] # "none" => pods[q] # "none"
                          /\ pods'[q] = "live" => pods[q] = "live"
      BY <1>0, <1>2 DEF DeleteByUser, Finish, Removed
    <2>3. Unseen' \subseteq Unseen /\ Active(pods)' \subseteq Active(pods)
      BY <2>1, <2>2 DEF Unseen, Active
    <2> QED BY <1>k, <2>1, <2>3 DEF MayAct
  <1>3. ASSUME NEW p \in Pods, PodDelta(p) PROVE CreationInv'
    <2>1. UNCHANGED <<pods, worker, exp>>
      BY <1>3 DEF PodDelta, serverVars, expVars
    <2>2. /\ event'.kind = "add" => event'.pod = p /\ podStore[p] = "none" /\ pods[p] # "none"
          /\ \A q \in Pods : podStore'[q] = "none" /\ pods[q] # "none" => podStore[q] = "none"
      BY <1>0, <1>3 DEF PodDelta
    <2>3. Unseen' \subseteq Unseen /\ Active(pods)' \subseteq Active(pods)
      BY <2>1, <2>2 DEF Unseen, Active
    <2> QED BY <1>k, <2>1, <2>3 DEF MayAct
  <1>4. CASE addPod
    <2>1. UNCHANGED <<pods, podStore, worker>> /\ event'.kind = "none" /\ event.kind = "add"
      BY <1>4 DEF addPod, serverVars, NoEvent
    <2>2. event.pod \in Pods /\ podStore[event.pod] # "none"
      BY <2>1 DEF WorkerInv
    <2>3. Unseen' = Unseen \ {event.pod} /\ event.pod \in Unseen /\ Active(pods)' = Active(pods)
      BY <2>1, <2>2 DEF Unseen, Active
    <2>4. CASE UNCHANGED exp
      BY <1>k, <2>1, <2>3, <2>4 DEF MayAct
    <2>5. CASE CreationObserved
      <3>0. Unseen \in SUBSET Pods
        BY DEF Unseen
      <3>1. /\ Cardinality(Unseen') = Cardinality(Unseen) - 1 /\ Cardinality(Unseen) \in Nat
            /\ Cardinality(Unseen') \in Nat
        BY <2>3, <3>0, Countable, FS_RemoveElement
      <3>2. exp.exists
        <4>1. exp.add # 0
          BY <1>0, <3>1 DEF CreationInv
        <4> QED BY <4>1 DEF WorkerInv
      <3>3. exp'.add = exp.add - 1 /\ exp'.expired = exp.expired
        BY <1>0, <2>5, <3>2, ExpectationSteps
      <3>4. Cardinality(Unseen') + worker'.creates <= exp'.add
        BY <1>0, <2>1, <3>1, <3>3 DEF CreationInv
      <3>5. MayAct' => Unseen' = {} /\ worker'.creates = 0
        BY <2>1, <2>3, <3>3 DEF CreationInv, MayAct
      <3>6. Cardinality(Active(pods)') + worker'.creates <= peak'
        <4>1. Cardinality(Active(pods)) \in Nat /\ peak' \in Nat
          BY Countable DEF Active, TypeOK
        <4> QED BY <1>0, <2>1, <2>3, <4>1 DEF CreationInv
      <3> QED BY <3>4, <3>5, <3>6 DEF CreationInv
    <2> QED BY <1>4, <2>4, <2>5 DEF addPod, expVars
  <1>5. CASE deletePod
    <2>1. UNCHANGED <<pods, podStore, worker>> /\ event'.kind = "none"
      BY <1>5 DEF deletePod, serverVars, NoEvent
    <2>2. exp'.add = exp.add /\ exp'.expired = exp.expired
      BY <1>0, <1>5, ExpectationSteps DEF deletePod, expVars
    <2>3. Unseen' \subseteq Unseen /\ Active(pods)' \subseteq Active(pods)
      BY <2>1 DEF Unseen, Active
    <2> QED BY <1>k, <2>1, <2>2, <2>3 DEF MayAct
  <1>6. CASE ReplicaSetDelta \/ Resync \/ UNCHANGED vars
    <2>1. UNCHANGED <<pods, podStore, event, worker, exp>>
      BY <1>6 DEF ReplicaSetDelta, Resync, serverVars, expVars, vars
    <2> QED BY <1>k, <1>u, <2>1 DEF MayAct
  <1>7. CASE Timeout
    <2>1. CaughtUp /\ UNCHANGED <<pods, podStore, event, worker>>
      BY <1>7 DEF Timeout, serverVars
    <2>2. exp'.add = exp.add
      BY <1>0, <1>7, ExpectationSteps DEF Timeout
    <2>3. Unseen = {} /\ worker.creates = 0
      BY <2>1 DEF CaughtUp, NoEvent, Unseen, WorkerInv
    <2>4. exp'.add >= 0
      <3>1. Cardinality(Unseen) = 0
        BY <2>3, FS_EmptySet
      <3> QED BY <1>0, <2>2, <2>3, <3>1 DEF CreationInv
    <2> QED BY <1>u, <2>1, <2>3, <2>4, CreationReset
  <1>8. CASE SyncAbsent
    <2>1. Fulfilled /\ worker.pc = "idle" /\ UNCHANGED <<pods, podStore, event, worker>>
      BY <1>8 DEF SyncAbsent, serverVars
    <2>2. Unseen = {} /\ worker.creates = 0
      BY <2>1, MetCreations
    <2>3. exp'.add = 0
      BY <1>0, <1>8, ExpectationSteps DEF SyncAbsent
    <2>4. exp'.add >= 0
      BY <2>3
    <2> QED BY <1>u, <2>1, <2>2, <2>4, CreationReset
  <1>9. CASE SyncStart
    <2>1. /\ worker.pc = "idle" /\ worker'.creates = 0 /\ worker'.needsSync = SatisfiedExpectations
      BY <1>9, SyncStartIs
    <2>2. UNCHANGED <<pods, podStore, event, exp>> /\ worker.creates = 0
      BY <1>9, <2>1 DEF SyncStart, serverVars, expVars, WorkerInv
    <2>3. CASE Fulfilled \/ exp.expired \/ ~exp.exists
      <3>1. Unseen = {}
        BY <2>1, <2>3, MetCreations
      <3>2. exp'.add >= 0
        <4>1. Cardinality(Unseen) = 0
          BY <3>1, FS_EmptySet
        <4> QED BY <1>0, <2>2, <4>1 DEF CreationInv
      <3> QED BY <1>u, <2>1, <2>2, <3>1, <3>2, CreationReset
    <2>4. CASE ~(Fulfilled \/ exp.expired \/ ~exp.exists)
      <3>1. ~MayAct'
        BY <2>1, <2>2, <2>4 DEF MayAct, SatisfiedExpectations
      <3> QED BY <1>k, <1>u, <2>1, <2>2, <3>1
    <2> QED BY <2>3, <2>4
  <1>10. CASE SyncList
    <2>1. UNCHANGED <<pods, podStore, event>> /\ worker.pc = "list"
      BY <1>10 DEF SyncList, serverVars
    <2>2. worker.creates = 0
      BY <2>1 DEF WorkerInv
    <2>3. CASE worker'.pc = "status" /\ worker'.creates = 0 /\ UNCHANGED exp
      BY <1>k, <1>u, <2>1, <2>2, <2>3 DEF MayAct
    <2>4. CASE /\ worker.needsSync /\ worker'.pc = "act" /\ worker'.creates = 0
               /\ exp'.add = 0
      <3>1. Unseen = {}
        BY <2>1, <2>4 DEF CreationInv, MayAct
      <3>2. exp'.add >= 0
        BY <2>4
      <3> QED BY <1>u, <2>1, <2>4, <3>1, <3>2, CreationReset
    <2>5. CASE /\ worker.needsSync /\ worker'.pc = "act"
               /\ worker'.creates + Cardinality(Active(podStore)) <= worker.spec
               /\ exp'.add = worker'.creates /\ ~exp'.expired
      <3>1. Unseen = {}
        BY <2>1, <2>5 DEF CreationInv, MayAct
      <3>2. Cardinality(Active(pods)) <= Cardinality(Active(podStore))
        <4>1. Active(podStore) \in SUBSET Pods
          BY DEF Active
        <4> QED BY <3>1, <4>1, StoreShowsAll, Fewer
      <3>3. /\ Cardinality(Active(pods)) \in Nat /\ Cardinality(Active(podStore)) \in Nat
            /\ worker'.creates \in Nat /\ peak' \in Nat
        <4>1. Active(pods) \in SUBSET Pods /\ Active(podStore) \in SUBSET Pods
          BY DEF Active
        <4> QED BY <4>1, Countable DEF TypeOK
      <3>4. worker.spec <= peak'
        BY <1>0, <2>1, <3>3 DEF PeakInv
      <3>5. Cardinality(Active(pods)') + worker'.creates <= peak'
        <4>1. Cardinality(Active(pods)) + worker'.creates <= peak'
          BY <1>0, <2>5, <3>2, <3>3, <3>4
        <4> QED BY <1>u, <2>1, <4>1
      <3>6. Cardinality(Unseen') = 0
        BY <1>u, <2>1, <3>1, FS_EmptySet
      <3>7. Cardinality(Unseen') + worker'.creates <= exp'.add
        BY <2>5, <3>3, <3>6
      <3> QED BY <2>5, <3>5, <3>7 DEF CreationInv, MayAct
    <2> QED BY <1>10, <2>3, <2>4, <2>5, SyncListIs
  <1>11. ASSUME NEW p \in Pods, CreatePod(p) PROVE CreationInv'
    <2>1. /\ worker'.creates = worker.creates - 1 /\ worker'.pc \in {"act", "status"}
          /\ UNCHANGED <<podStore, event, exp>> /\ worker.pc = "act" /\ worker.creates > 0
      BY <1>0, <1>11, Created DEF CreatePod
    <2>2. /\ pods[p] = "none" /\ podStore[p] = "none" /\ event.pod # p
          /\ pods' = [pods EXCEPT ![p] = "live"]
      BY <1>11 DEF CreatePod, Fresh
    <2>3. /\ Unseen' = Unseen \cup {p} /\ p \notin Unseen
          /\ Active(pods)' = Active(pods) \cup {p} /\ p \notin Active(pods)
      BY <1>0, <2>1, <2>2 DEF Unseen, Active
    <2>4. /\ Cardinality(Unseen') = Cardinality(Unseen) + 1
          /\ Cardinality(Active(pods)') = Cardinality(Active(pods)) + 1
          /\ Cardinality(Unseen) \in Nat /\ Cardinality(Active(pods)) \in Nat
      <3>1. Unseen \in SUBSET Pods /\ Active(pods) \in SUBSET Pods
        BY DEF Unseen, Active
      <3>2. IsFiniteSet(Unseen) /\ IsFiniteSet(Active(pods)) /\ Cardinality(Unseen) \in Nat /\ Cardinality(Active(pods)) \in Nat
        BY <3>1, Countable
      <3> QED BY <2>3, <3>2, FS_AddElement
    <2>5. ~MayAct
      BY <1>0, <2>1 DEF CreationInv
    <2>6. ~MayAct'
      BY <2>1, <2>5 DEF MayAct
    <2>7. peak' \in Nat
      BY DEF TypeOK
    <2>8. Cardinality(Unseen') + worker'.creates <= exp'.add
      BY <1>0, <2>1, <2>4 DEF CreationInv
    <2>9. Cardinality(Active(pods)') + worker'.creates <= peak'
      BY <1>0, <2>1, <2>4, <2>7 DEF CreationInv
    <2> QED BY <2>6, <2>8, <2>9 DEF CreationInv
  <1>12. CASE CreateFails
    <2>1. /\ worker'.creates = worker.creates - 1 /\ worker'.pc \in {"act", "status"}
          /\ UNCHANGED <<podStore, event>> /\ worker.pc = "act" /\ worker.creates > 0
      BY <1>0, <1>12, Created DEF CreateFails
    <2>2. pods' = pods
      BY <1>12 DEF CreateFails
    <2>3. exp'.add = exp.add - 1 /\ exp'.expired = exp.expired
      <3>1. exp.exists
        BY <2>1 DEF WorkerInv
      <3> QED BY <1>0, <1>12, <3>1, ExpectationSteps DEF CreateFails
    <2>4. Unseen' = Unseen /\ Active(pods)' = Active(pods)
      BY <1>u, <2>1, <2>2
    <2>5. ~MayAct
      BY <1>0, <2>1 DEF CreationInv
    <2>6. ~MayAct'
      BY <2>1, <2>3, <2>5 DEF MayAct
    <2>7. peak' \in Nat /\ Cardinality(Unseen) \in Nat /\ Cardinality(Active(pods)) \in Nat
      BY Countable DEF TypeOK, Unseen, Active
    <2>8. Cardinality(Unseen') + worker'.creates <= exp'.add
      BY <1>0, <2>1, <2>3, <2>4, <2>7 DEF CreationInv
    <2>9. Cardinality(Active(pods)') + worker'.creates <= peak'
      BY <1>0, <2>1, <2>4, <2>7 DEF CreationInv
    <2> QED BY <2>6, <2>8, <2>9 DEF CreationInv
  <1>13. ASSUME NEW p \in Pods, DeletePod(p) \/ DeleteFails(p) PROVE CreationInv'
    <2>1. /\ worker'.creates = worker.creates /\ worker'.pc \in {"act", "status"}
          /\ UNCHANGED <<podStore, event>>
      BY <1>0, <1>13, DeletedOne DEF DeletePod, DeleteFails
    <2>2. exp'.add = exp.add /\ exp'.expired = exp.expired
      BY <1>0, <1>13, ExpectationSteps DEF DeletePod, DeleteFails, expVars
    <2>3. \A q \in Pods : /\ pods'[q] # "none" => pods[q] # "none"
                          /\ pods'[q] = "live" => pods[q] = "live"
      BY <1>0, <1>13 DEF DeletePod, DeleteFails
    <2>4. Unseen' \subseteq Unseen /\ Active(pods)' \subseteq Active(pods)
      BY <2>1, <2>3 DEF Unseen, Active
    <2> QED BY <1>k, <2>1, <2>2, <2>4 DEF MayAct
  <1>14. CASE UpdateStatus
    <2>1. worker'.pc = "idle" /\ worker'.creates = 0 /\ worker.pc = "status"
      BY <1>14, IdleIs DEF UpdateStatus
    <2>2. UNCHANGED <<exp, event, podStore, pods>> /\ worker.creates = 0
      BY <1>14, <2>1 DEF UpdateStatus, expVars, WorkerInv
    <2> QED BY <1>k, <1>u, <2>1, <2>2 DEF MayAct
  <1>15. CASE Restart
    <2>1. /\ podStore' = pods /\ pods' = pods /\ event'.kind = "none" /\ worker'.creates = 0
      BY <1>15, IdleIs DEF Restart, NoEvent, serverVars
    <2>2. exp'.add = 0
      BY <1>0, <1>15, ExpectationSteps DEF Restart
    <2>3. exp'.add >= 0
      BY <2>2
    <2>4. Unseen' = {} /\ Active(pods)' \subseteq Active(pods)
      BY <2>1 DEF Unseen, Active
    <2> QED BY <2>1, <2>3, <2>4, CreationReset
  <1>16. CASE updatePod
    <2>1. UNCHANGED <<pods, podStore, worker, exp>> /\ event'.kind = "none"
      BY <1>16 DEF updatePod, serverVars, expVars, NoEvent
    <2>2. Unseen' \subseteq Unseen /\ Active(pods)' \subseteq Active(pods)
      BY <2>1 DEF Unseen, Active
    <2> QED BY <1>k, <2>1, <2>2 DEF MayAct
  <1>17. ~Late
    BY DEF Late, LateLost, LateCreate, LateDelete, NoCalls
  <1> QED BY <1>1, <1>2, <1>3, <1>4, <1>5, <1>6, <1>7, <1>8, <1>9, <1>10, <1>11, <1>12, <1>13,
             <1>14, <1>15, <1>16, <1>17 DEF Next, Informers, Worker
-----------------------------------------------------------------------------
(* Deletions.                                                              *)

\* A step that deletes nothing and forgets no deletion that is awaited.
LEMMA DeletionKept ==
    ASSUME TypeOK, TypeOK', DeletionInv,
           deleted' \subseteq deleted, worker'.deletes \subseteq worker.deletes,
           \A p \in deleted' : pods'[p] # "live" /\ podStore'[p] # "none",
           \A p \in worker'.deletes : podStore'[p] = "none" => pods'[p] = "none",
           \A p \in deleted' \cup worker'.deletes : podStore'[p] = "live" => podStore[p] = "live" /\ p \in uids',
           exp.exists => exp'.exists,
           Cardinality(uids) <= exp.del => Cardinality(uids') <= exp'.del,
           MayAct' => MayAct
    PROVE  DeletionInv'
  <1>1. Unnoticed' \subseteq Unnoticed
    BY DEF Unnoticed
  <1>2. \A p \in worker'.deletes : p \notin deleted'
    BY DEF DeletionInv
  <1>3. Unnoticed' # {} \/ worker'.deletes # {} => exp'.exists /\ Cardinality(uids') <= exp'.del
    BY <1>1 DEF DeletionInv
  <1>4. MayAct' => Unnoticed' = {} /\ worker'.deletes = {}
    BY <1>1 DEF DeletionInv
  <1> QED BY <1>2, <1>3, <1>4 DEF DeletionInv

\* Met expectations, and expired ones, mean that every deletion was noticed.
LEMMA MetDeletions ==
    ASSUME TypeOK, WorkerInv, DeletionInv, worker.pc # "act",
           Fulfilled \/ exp.expired \/ ~exp.exists
    PROVE  Unnoticed = {} /\ worker.deletes = {}
  <1>0. worker.deletes = {} /\ exp.del \in Int /\ uids \in SUBSET Pods
    BY Typed DEF WorkerInv
  <1>1. CASE exp.expired
    BY <1>1 DEF DeletionInv, MayAct
  <1>2. CASE ~exp.exists
    BY <1>0, <1>2 DEF DeletionInv
  <1>3. CASE Fulfilled /\ Unnoticed # {}
    <2>1. Cardinality(uids) <= 0
      <3>1. Cardinality(uids) <= exp.del /\ exp.del <= 0
        BY <1>3 DEF DeletionInv, Fulfilled
      <3>2. Cardinality(uids) \in Nat
        BY <1>0, Countable
      <3> QED BY <1>0, <3>1, <3>2
    <2>2. uids = {}
      <3>1. Cardinality(uids) \in Nat
        BY <1>0, Countable
      <3>2. Cardinality(uids) = 0
        BY <2>1, <3>1
      <3> QED BY <1>0, <3>2, Countable
    <2> QED BY <1>3, <2>2 DEF DeletionInv, Unnoticed
  <1> QED BY <1>0, <1>1, <1>2, <1>3

\* A step after which no deletion is awaited.
LEMMA DeletionReset ==
    ASSUME worker'.deletes = {},
           \A p \in deleted' : pods'[p] # "live" /\ podStore'[p] \notin {"none", "live"}
    PROVE  DeletionInv'
  <1>1. Unnoticed' = {}
    BY DEF Unnoticed
  <1> QED BY <1>1 DEF DeletionInv

\* Every step keeps the count of the expected deletions, or is blind.
LEMMA DeletionStays ==
    ASSUME TypeOK, TypeOK', WorkerInv, DeletionInv, [Next]_vars, ~blind', late = NoCalls
    PROVE  DeletionInv'
  <1>0. /\ worker \in WorkerType /\ exp \in ExpType /\ uids \in SUBSET Pods
        /\ pods \in [Pods -> States] /\ podStore \in [Pods -> States]
        /\ deleted \subseteq Pods /\ worker.deletes \subseteq Pods /\ exp.del \in Int
        /\ Cardinality(uids) \in Nat
    BY Typed, Countable
  <1>k. ASSUME UNCHANGED <<pods, podStore, deleted, uids, exp>>,
               worker'.deletes = worker.deletes, MayAct' => MayAct
        PROVE  DeletionInv'
    BY <1>k, DeletionKept DEF DeletionInv
  <1>o. ASSUME NEW p, DeletionObserved(p)
        PROVE  /\ exp'.exists = exp.exists /\ uids' = uids \ {p} /\ exp'.expired = exp.expired
               /\ exp.exists /\ Cardinality(uids) <= exp.del => Cardinality(uids') <= exp'.del
    <2>1. /\ exp'.exists = exp.exists /\ uids' = uids \ {p} /\ exp'.expired = exp.expired
          /\ exp'.del = IF exp.exists /\ p \in uids THEN exp.del - 1 ELSE exp.del
      BY <1>0, <1>o, ExpectationSteps
    <2>2. CASE p \in uids
      <3>1. Cardinality(uids') = Cardinality(uids) - 1
        BY <1>0, <2>1, <2>2, Countable, FS_RemoveElement
      <3> QED BY <1>0, <2>1, <2>2, <3>1
    <2>3. CASE p \notin uids
      <3>1. uids' = uids
        BY <2>1, <2>3
      <3> QED BY <2>1, <2>3, <3>1
    <2> QED BY <2>1, <2>2, <2>3
  <1>1. ASSUME NEW n \in Replicas \cup {Absent}, SetSpec(n) PROVE DeletionInv'
    <2>1. UNCHANGED <<pods, podStore, deleted, worker, exp, uids>>
      BY <1>1 DEF SetSpec, expVars
    <2> QED BY <1>k, <2>1 DEF MayAct
  <1>2. ASSUME NEW p \in Pods, DeleteByUser(p) \/ Finish(p) \/ Removed(p) PROVE DeletionInv'
    <2>1. UNCHANGED <<podStore, deleted, worker, exp, uids>>
      BY <1>2 DEF DeleteByUser, Finish, Removed, expVars
    <2>2. \A q \in Pods : /\ pods[q] = "none" => pods'[q] = "none"
                          /\ pods'[q] = "live" => pods[q] = "live"
      BY <1>0, <1>2 DEF DeleteByUser, Finish, Removed
    <2>3. \A q \in deleted' : pods'[q] # "live" /\ podStore'[q] # "none"
      BY <1>0, <2>1, <2>2 DEF DeletionInv
    <2>4. \A q \in worker'.deletes : podStore'[q] = "none" => pods'[q] = "none"
      BY <1>0, <2>1, <2>2 DEF DeletionInv
    <2>5. \A q \in deleted' \cup worker'.deletes : podStore'[q] = "live" => podStore[q] = "live" /\ q \in uids'
      BY <2>1 DEF DeletionInv
    <2> QED BY <2>1, <2>3, <2>4, <2>5, DeletionKept DEF MayAct
  <1>3. ASSUME NEW p \in Pods, PodDelta(p) PROVE DeletionInv'
    <2>1. UNCHANGED <<pods, worker, exp, uids>>
      BY <1>3 DEF PodDelta, serverVars, expVars
    <2>2. deleted' = {q \in deleted : podStore'[q] = "live" \/ pods[q] # "none"}
      BY <1>3 DEF PodDelta
    <2>3. \A q \in Pods : /\ podStore'[q] = "none" => podStore[q] = "none" \/ pods[q] = "none"
                          /\ podStore'[q] = "live" => podStore[q] = "live" \/ (podStore[q] = "none" /\ pods[q] # "none")
      BY <1>0, <1>3 DEF PodDelta
    <2>4. \A q \in deleted' : pods'[q] # "live" /\ podStore'[q] # "none"
      BY <1>0, <2>1, <2>2, <2>3 DEF DeletionInv
    <2>5. \A q \in worker'.deletes : podStore'[q] = "none" => pods'[q] = "none"
      BY <1>0, <2>1, <2>3 DEF DeletionInv
    <2>6. \A q \in deleted' \cup worker'.deletes : podStore'[q] = "live" => podStore[q] = "live" /\ q \in uids'
      BY <1>0, <2>1, <2>2, <2>3 DEF DeletionInv
    <2>7. deleted' \subseteq deleted
      BY <2>2
    <2> QED BY <2>1, <2>4, <2>5, <2>6, <2>7, DeletionKept DEF MayAct
  <1>4. CASE addPod
    <2>1. UNCHANGED <<pods, podStore, worker, deleted>>
      BY <1>4 DEF addPod, serverVars
    <2>2. /\ UNCHANGED uids /\ exp'.exists = exp.exists /\ exp'.del = exp.del
          /\ exp'.expired = exp.expired
      BY <1>0, <1>4, ExpectationSteps DEF addPod, expVars
    <2> QED BY <2>1, <2>2, DeletionKept DEF DeletionInv, MayAct
  <1>5. CASE deletePod
    <2>1. UNCHANGED <<pods, podStore, worker, deleted>> /\ event.kind = "delete"
      BY <1>5 DEF deletePod, serverVars
    <2>2. CASE UNCHANGED <<exp, uids>>
      BY <1>k, <2>1, <2>2 DEF MayAct
    <2>3. CASE DeletionObserved(event.pod)
      <3>1. /\ exp'.exists = exp.exists /\ uids' = uids \ {event.pod} /\ exp'.expired = exp.expired
            /\ exp.exists /\ Cardinality(uids) <= exp.del => Cardinality(uids') <= exp'.del
        BY <1>o, <2>3
      <3>2. podStore[event.pod] # "live"
        BY <2>1 DEF WorkerInv
      <3>3. \A q \in deleted \cup worker.deletes : podStore[q] = "live" => q \in uids'
        BY <3>1, <3>2 DEF DeletionInv
      <3>4. Unnoticed' = Unnoticed /\ (MayAct' <=> MayAct)
        BY <2>1, <3>1 DEF Unnoticed, MayAct
      <3> QED BY <2>1, <3>1, <3>3, <3>4 DEF DeletionInv
    <2> QED BY <1>5, <2>2, <2>3 DEF deletePod, expVars
  <1>6. CASE ReplicaSetDelta \/ Resync \/ UNCHANGED vars
    <2>1. UNCHANGED <<pods, podStore, deleted, worker, exp, uids>>
      BY <1>6 DEF ReplicaSetDelta, Resync, serverVars, expVars, vars
    <2> QED BY <1>k, <2>1 DEF MayAct
  <1>7. CASE Timeout
    <2>1. CaughtUp /\ UNCHANGED <<pods, podStore, worker, deleted>>
      BY <1>7 DEF Timeout, serverVars
    <2>2. worker'.deletes = {}
      BY <2>1 DEF CaughtUp, WorkerInv
    <2>3. \A p \in deleted' : pods'[p] # "live" /\ podStore'[p] \notin {"none", "live"}
      BY <2>1 DEF CaughtUp, DeletionInv
    <2> QED BY <2>2, <2>3, DeletionReset
  <1>8. CASE SyncAbsent
    <2>1. Fulfilled /\ worker.pc = "idle" /\ UNCHANGED <<pods, podStore, worker, deleted>>
      BY <1>8 DEF SyncAbsent, serverVars
    <2>2. Unnoticed = {} /\ worker.deletes = {}
      BY <2>1, MetDeletions
    <2>3. \A p \in deleted' : pods'[p] # "live" /\ podStore'[p] \notin {"none", "live"}
      BY <2>1, <2>2 DEF Unnoticed, DeletionInv
    <2> QED BY <2>1, <2>2, <2>3, DeletionReset
  <1>9. CASE SyncStart
    <2>1. worker.pc = "idle" /\ worker'.deletes = {} /\ worker'.needsSync = SatisfiedExpectations
      BY <1>9, SyncStartIs
    <2>2. UNCHANGED <<pods, podStore, deleted, exp, uids>> /\ worker.deletes = {}
      BY <1>9, <2>1 DEF SyncStart, serverVars, expVars, WorkerInv
    <2>3. CASE Fulfilled \/ exp.expired \/ ~exp.exists
      <3>1. Unnoticed = {}
        BY <2>1, <2>3, MetDeletions
      <3>2. \A p \in deleted' : pods'[p] # "live" /\ podStore'[p] \notin {"none", "live"}
        BY <2>2, <3>1 DEF Unnoticed, DeletionInv
      <3> QED BY <2>1, <3>2, DeletionReset
    <2>4. CASE ~(Fulfilled \/ exp.expired \/ ~exp.exists)
      <3>1. ~MayAct'
        BY <2>1, <2>2, <2>4 DEF MayAct, SatisfiedExpectations
      <3> QED BY <1>k, <2>1, <2>2, <3>1
    <2> QED BY <2>3, <2>4
  <1>10. CASE SyncList
    <2>1. UNCHANGED <<pods, podStore, deleted>> /\ worker.pc = "list" /\ worker.deletes = {}
      BY <1>10 DEF SyncList, serverVars, WorkerInv
    <2>2. CASE worker'.pc = "status" /\ worker'.deletes = {} /\ UNCHANGED <<exp, uids>>
      BY <1>k, <2>1, <2>2 DEF MayAct
    <2>3. ASSUME worker.needsSync
          PROVE  \A p \in deleted : pods[p] # "live" /\ podStore[p] \notin {"none", "live"}
      BY <2>1, <2>3 DEF MayAct, DeletionInv, Unnoticed
    <2>4. CASE worker.needsSync /\ worker'.deletes = {}
      BY <2>1, <2>3, <2>4, DeletionReset
    <2>5. CASE /\ worker.needsSync /\ worker'.pc = "act"
               /\ worker'.deletes \subseteq Active(podStore)
               /\ uids' = worker'.deletes
               /\ exp'.exists /\ exp'.del = Cardinality(worker'.deletes) /\ ~exp'.expired
      <3>1. \A p \in worker'.deletes : podStore[p] = "live" /\ p \notin deleted
        BY <2>3, <2>5 DEF Active
      <3>2. Unnoticed' = {} /\ ~MayAct'
        BY <2>1, <2>3, <2>5 DEF Unnoticed, MayAct
      <3>3. Cardinality(uids') <= exp'.del
        <4>1. uids' \in SUBSET Pods
          BY DEF TypeOK, ExpectationsTypeOK
        <4>2. Cardinality(uids') \in Nat
          BY <4>1, Countable
        <4> QED BY <2>5, <4>2
      <3> QED BY <2>1, <2>3, <2>5, <3>1, <3>2, <3>3 DEF DeletionInv
    <2> QED BY <1>10, <2>2, <2>4, <2>5, SyncListIs
  <1>11. ASSUME worker.pc = "act", worker.creates > 0, worker.creates \in Nat,
                UNCHANGED <<podStore, deleted>>, worker'.deletes = worker.deletes, worker'.pc # "list",
                exp'.exists = exp.exists, exp'.del = exp.del, exp'.expired = exp.expired,
                uids' \subseteq uids,
                \A q \in Pods : pods'[q] # pods[q] \/ q \in uids \ uids' => podStore[q] = "none"
         PROVE  DeletionInv'
    <2>1. worker.deletes = {}
      BY <1>11 DEF WorkerInv
    <2>2. \A q \in deleted : podStore[q] # "none" /\ pods'[q] = pods[q]
      BY <1>0, <1>11 DEF DeletionInv
    <2>3. \A q \in deleted : pods'[q] # "live" /\ podStore'[q] # "none"
      BY <1>11, <2>2 DEF DeletionInv
    <2>4. \A q \in deleted : podStore'[q] = "live" => podStore[q] = "live" /\ q \in uids'
      BY <1>0, <1>11, <2>2 DEF DeletionInv
    <2>5. Cardinality(uids') <= Cardinality(uids) /\ Cardinality(uids') \in Nat
      BY <1>0, <1>11, Fewer, Countable
    <2>6. Cardinality(uids) <= exp.del => Cardinality(uids') <= exp'.del
      BY <1>0, <1>11, <2>5
    <2>7. MayAct' => MayAct
      BY <1>11 DEF MayAct
    <2> QED BY <1>11, <2>1, <2>3, <2>4, <2>6, <2>7, DeletionKept
  <1>12. ASSUME NEW p \in Pods, CreatePod(p) PROVE DeletionInv'
    <2>1. worker'.deletes = worker.deletes /\ worker'.pc # "list"
      BY <1>0, <1>12, Created DEF CreatePod
    <2>2. /\ worker.pc = "act" /\ worker.creates > 0 /\ worker.creates \in Nat
          /\ UNCHANGED <<podStore, deleted, exp>> /\ uids' = uids \ {p}
      BY <1>12, Typed DEF CreatePod
    <2>3. \A q \in Pods : pods'[q] # pods[q] \/ q \in uids \ uids' => podStore[q] = "none"
      BY <1>0, <1>12 DEF CreatePod, Fresh
    <2> QED BY <1>11, <2>1, <2>2, <2>3
  <1>13. CASE CreateFails
    <2>1. worker'.deletes = worker.deletes /\ worker'.pc # "list"
      BY <1>0, <1>13, Created DEF CreateFails
    <2>2. /\ worker.pc = "act" /\ worker.creates > 0 /\ worker.creates \in Nat
          /\ UNCHANGED <<podStore, deleted>> /\ pods' = pods
      BY <1>13, Typed DEF CreateFails
    <2>3. exp'.exists = exp.exists /\ exp'.del = exp.del /\ exp'.expired = exp.expired /\ uids' = uids
      BY <1>0, <1>13, ExpectationSteps DEF CreateFails
    <2> QED BY <1>11, <2>1, <2>2, <2>3
  <1>14. ASSUME NEW p \in Pods, DeletePod(p) PROVE DeletionInv'
    <2>1. /\ worker.pc = "act" /\ p \in worker.deletes /\ pods[p] # "none"
          /\ pods' = [pods EXCEPT ![p] = "dying"] /\ deleted' = deleted \cup {p}
          /\ UNCHANGED <<podStore, exp, uids>>
      BY <1>14 DEF DeletePod, expVars
    <2>2. worker'.deletes = worker.deletes \ {p} /\ worker'.pc # "list"
      BY <1>0, <1>14, DeletedOne DEF DeletePod
    <2>3. \A q \in Pods : /\ pods'[q] = "live" => pods[q] = "live"
                          /\ pods[q] = "none" => pods'[q] = "none"
      BY <1>0, <2>1
    <2>4. podStore[p] # "none" /\ pods'[p] # "live"
      BY <1>0, <2>1 DEF DeletionInv
    <2>5. \A q \in deleted' : pods'[q] # "live" /\ podStore'[q] # "none"
      BY <1>0, <2>1, <2>3, <2>4 DEF DeletionInv
    <2>6. \A q \in worker'.deletes : q \notin deleted' /\ (podStore'[q] = "none" => pods'[q] = "none")
      BY <1>0, <2>1, <2>2, <2>3 DEF DeletionInv
    <2>7. \A q \in deleted' \cup worker'.deletes : podStore'[q] = "live" => q \in uids'
      BY <2>1, <2>2 DEF DeletionInv
    <2>8. exp'.exists /\ Cardinality(uids') <= exp'.del
      BY <2>1 DEF DeletionInv
    <2>9. ~MayAct'
      BY <2>1, <2>2 DEF MayAct, DeletionInv
    <2> QED BY <2>5, <2>6, <2>7, <2>8, <2>9 DEF DeletionInv
  <1>15. ASSUME NEW p \in Pods, DeleteFails(p) PROVE DeletionInv'
    <2>1. /\ worker.pc = "act" /\ p \in worker.deletes /\ UNCHANGED <<pods, podStore, deleted>>
      BY <1>15 DEF DeleteFails
    <2>2. worker'.deletes = worker.deletes \ {p} /\ worker'.pc # "list"
      BY <1>0, <1>15, DeletedOne DEF DeleteFails
    <2>3. /\ exp'.exists = exp.exists /\ uids' = uids \ {p} /\ exp'.expired = exp.expired
          /\ exp.exists /\ Cardinality(uids) <= exp.del => Cardinality(uids') <= exp'.del
      BY <1>o, <1>15 DEF DeleteFails
    <2>4. p \notin deleted /\ exp.exists /\ Cardinality(uids) <= exp.del /\ ~MayAct
      BY <2>1 DEF DeletionInv
    <2>5. \A q \in deleted' \cup worker'.deletes : podStore'[q] = "live" => q \in uids'
      BY <2>1, <2>2, <2>3, <2>4 DEF DeletionInv
    <2>6. ~MayAct'
      BY <2>2, <2>3, <2>4 DEF MayAct
    <2> QED BY <2>1, <2>2, <2>3, <2>4, <2>5, <2>6 DEF DeletionInv
  <1>16. CASE UpdateStatus
    <2>1. worker'.pc = "idle" /\ worker'.deletes = {} /\ worker.pc = "status"
      BY <1>16, IdleIs DEF UpdateStatus
    <2>2. UNCHANGED <<pods, podStore, deleted, exp, uids>> /\ worker.deletes = {}
      BY <1>16, <2>1 DEF UpdateStatus, expVars, WorkerInv
    <2> QED BY <1>k, <2>1, <2>2 DEF MayAct
  <1>17. CASE Restart
    <2>1. /\ podStore' = pods /\ pods' = pods /\ worker'.deletes = {}
          /\ deleted' = {p \in deleted : podStore'[p] = "live" \/ pods[p] # "none"}
      BY <1>17, IdleIs DEF Restart, serverVars
    <2>2. \A p \in deleted' : pods'[p] # "live" /\ podStore'[p] \notin {"none", "live"}
      BY <2>1 DEF DeletionInv
    <2> QED BY <2>1, <2>2, DeletionReset
  <1>18. CASE updatePod
    <2>1. UNCHANGED <<pods, podStore, deleted, worker, exp, uids>>
      BY <1>18 DEF updatePod, serverVars, expVars
    <2> QED BY <1>k, <2>1 DEF MayAct
  <1>19. ~Late
    BY DEF Late, LateLost, LateCreate, LateDelete, NoCalls
  <1> QED BY <1>1, <1>2, <1>3, <1>4, <1>5, <1>6, <1>7, <1>8, <1>9, <1>10, <1>12, <1>13,
             <1>14, <1>15, <1>16, <1>17, <1>18, <1>19 DEF Next, Informers, Worker

-----------------------------------------------------------------------------
\* A controller that is blind stays so.
LEMMA BlindStays == [Next]_vars /\ ~blind' => ~blind
  BY DEF Next, Informers, Worker, vars, SetSpec, DeleteByUser, Finish, Removed, PodDelta, addPod,
         updatePod, deletePod, Late, LateLost, LateCreate, LateDelete,
         ReplicaSetDelta, Resync, Timeout, SyncAbsent, SyncStart, SyncList, CreatePod, CreateFails,
         DeletePod, DeleteFails, UpdateStatus, Restart

\* Calls are left behind only by a process that was making them.
LEMMA NoneLeft ==
    ASSUME TypeOK, WorkerInv, [Next]_vars, ~blind', late = NoCalls
    PROVE  late' = NoCalls
  <1>0. worker.creates \in Nat /\ worker.deletes \subseteq Pods
    BY Typed
  <1>1. CASE Restart
    <2>1. worker.pc # "act"
      BY <1>1 DEF Restart
    <2>2. worker.creates = 0 /\ worker.deletes = {}
      BY <2>1 DEF WorkerInv
    <2>3. late' = [creates |-> late.creates + 0, deletes |-> late.deletes \cup {}]
      BY <1>1, <2>2 DEF Restart
    <2>4. late.creates = 0 /\ late.deletes = {}
      BY DEF NoCalls
    <2>5. late.creates + 0 = 0 /\ late.deletes \cup {} = {}
      BY <2>4
    <2> QED BY <2>3, <2>5 DEF NoCalls
  <1>2. ~Late
    BY DEF Late, LateLost, LateCreate, LateDelete, NoCalls
  <1>3. CASE ~Restart
    <2>1. UNCHANGED late
      BY <1>2, <1>3 DEF Next, Informers, Worker, vars, SetSpec, DeleteByUser, Finish, Removed,
         PodDelta, addPod, updatePod, deletePod, ReplicaSetDelta, Resync, Timeout, SyncAbsent,
         SyncStart, SyncList, CreatePod, CreateFails, DeletePod, DeleteFails, UpdateStatus
    <2> QED BY <2>1
  <1> QED BY <1>1, <1>3

LEMMA InvStays == IInv /\ [Next]_vars => IInv'
  <1> SUFFICES ASSUME IInv, [Next]_vars PROVE IInv'
    OBVIOUS
  <1>1. TypeOK' /\ WorkerInv' /\ PeakInv' /\ peak' >= peak
    BY TypeStays, WorkerStays, PeakStays DEF IInv
  <1>2. ASSUME ~blind' PROVE CreationInv' /\ DeletionInv' /\ late' = NoCalls
    <2>1. CreationInv /\ DeletionInv /\ late = NoCalls
      BY <1>2, BlindStays DEF IInv, SightedInv
    <2> QED BY <1>1, <1>2, <2>1, CreationStays, DeletionStays, NoneLeft DEF IInv
  <1>3. NoCalls' = NoCalls
    BY DEF NoCalls
  <1> QED BY <1>1, <1>2, <1>3 DEF IInv, SightedInv

LEMMA InvAlways == Spec => []IInv
  BY InitHolds, InvStays, PTL DEF Spec

\* For every set of pods and all bounds: the variables have their types.
THEOREM TypeCorrect == Spec => []TypeOK
  <1>1. IInv => TypeOK
    BY DEF IInv
  <1> QED BY <1>1, InvAlways, PTL

\* For every set of pods, every burst and all bounds: manageReplicas, counting
\* pods in a store that lags behind, never has more of them created than were
\* ever asked for.
THEOREM NeverMoreThanAsked == Spec => []NeverTooMany
  <1>1. IInv => NeverTooMany
    <2> SUFFICES ASSUME IInv, ~blind PROVE Cardinality(Active(pods)) <= peak
      BY DEF NeverTooMany
    <2>1. /\ Cardinality(Active(pods)) + worker.creates <= peak /\ worker.creates \in Nat
          /\ peak \in Nat
      BY Typed DEF IInv, SightedInv, CreationInv
    <2>2. Cardinality(Active(pods)) \in Nat
      BY Countable DEF Active
    <2> QED BY <2>1, <2>2
  <1> QED BY <1>1, InvAlways, PTL

\* For every set of pods, every burst and all bounds: when manageReplicas may
\* act, the store shows none of the pods it has deleted, so that none is
\* counted, or chosen, a second time.
THEOREM DeletionsAreNoticed == Spec => []NeverDeletedTwice
  <1>1. IInv => NeverDeletedTwice
    <2> SUFFICES ASSUME IInv, ~blind, worker.pc = "list", worker.needsSync
                 PROVE  deleted \cap Active(podStore) = {}
      BY DEF NeverDeletedTwice
    <2>1. Unnoticed = {}
      BY DEF IInv, SightedInv, DeletionInv, MayAct
    <2> QED BY <2>1 DEF Unnoticed, Active
  <1> QED BY <1>1, InvAlways, PTL
=============================================================================
