-------------------------- MODULE PodWorkersProofs --------------------------
(***************************************************************************)
(* For every set of pods and workers and every number of requests: a pod   *)
(* is synced by one goroutine at a time, and no send made under podLock    *)
(* blocks.  Both follow from the inductive invariant IInv of PodWorkers.   *)
(***************************************************************************)
EXTENDS PodWorkers, TLAPS

LEMMA InitHolds == Init => IInv
  <1> SUFFICES ASSUME Init PROVE IInv
    OBVIOUS
  <1> USE DEF Init
  <1>1. NoUpdate \in Updates
    BY BoundsAreNaturals DEF NoUpdate, Updates
  <1>2. TypeOK
    BY <1>1, BoundsAreNaturals DEF TypeOK, Places
  <1>3. Located /\ ChannelsOpen /\ UndeliveredHasChannel
    BY DEF Located, ChannelsOpen, UndeliveredHasChannel
  <1>4. \A w \in Workers : ~Active(w) /\ pc[w] \notin Processing
    BY DEF Active, Processing
  <1>5. ActiveIsMarked /\ OneActivePerPod /\ ProcessingHasEmptyChannel
    BY <1>4 DEF ActiveIsMarked, OneActivePerPod, ProcessingHasEmptyChannel
  <1>6. Numbered
    BY <1>4 DEF Numbered
  <1> QED BY <1>2, <1>3, <1>5, <1>6 DEF IInv

\* What the two properties say in terms of the invariant.
LEMMA InvImplies == IInv => OneSyncPerPod /\ SendsNeverBlock
  <1> SUFFICES ASSUME IInv PROVE OneSyncPerPod /\ SendsNeverBlock
    OBVIOUS
  <1> USE DEF IInv
  <1>1. OneSyncPerPod
    BY DEF OneSyncPerPod, OneActivePerPod, Active
  <1>2. ASSUME NEW u \in UIDs, ~isWorking[u], podUpdates[u] # None
        PROVE  buf[podUpdates[u]] = NoUpdate /\ ~closed[podUpdates[u]]
    <2>1. podUpdates[u] \in Workers /\ pod[podUpdates[u]] = u /\ ~closed[podUpdates[u]]
      BY <1>2 DEF TypeOK, ChannelsOpen
    <2> QED BY <1>2, <2>1 DEF ActiveIsMarked, Active
  <1>3. ASSUME NEW w \in Workers, pc[w] = "check", lastUndelivered[pod[w]] # NoUpdate
        PROVE  /\ podUpdates[pod[w]] # None
               /\ buf[podUpdates[pod[w]]] = NoUpdate
               /\ ~closed[podUpdates[pod[w]]]
    <2>1. pod[w] \in UIDs
      BY <1>3 DEF Located
    <2>2. podUpdates[pod[w]] # None
      BY <1>3, <2>1 DEF UndeliveredHasChannel
    <2> DEFINE v == podUpdates[pod[w]]
    <2>3. v \in Workers /\ pod[v] = pod[w] /\ ~closed[v]
      BY <2>1, <2>2 DEF TypeOK, ChannelsOpen
    <2>4. pc[w] \in Processing
      BY <1>3 DEF Processing
    <2>5. buf[v] = NoUpdate
      <3> SUFFICES ASSUME buf[v] # NoUpdate PROVE FALSE
        OBVIOUS
      <3>1. v = w
        BY <2>3, <2>4 DEF OneActivePerPod, Active
      <3> QED BY <2>4, <3>1 DEF ProcessingHasEmptyChannel
    <2> QED BY <2>2, <2>3, <2>5
  <1> QED BY <1>1, <1>2, <1>3 DEF SendsNeverBlock

\* The typing of what the handlers of syncLoop and killPodNow change.
KubeletTypeOK ==
    /\ workQueue \subseteq UIDs /\ pods \subseteq UIDs /\ terminated \subseteq UIDs
    /\ toSync \subseteq UIDs
    /\ waiting \subseteq 1..MaxCalls

\* A handler that touches no worker.
LEMMA QuietStep ==
    ASSUME IInv, KubeletTypeOK',
           UNCHANGED <<podUpdates, isWorking, lastUndelivered, pc, pod, buf, closed, cur,
                       calls, timeouts, synced>>
    PROVE  IInv'
  <1> USE DEF IInv
  <1>1. TypeOK'
    BY DEF TypeOK, KubeletTypeOK
  <1> QED BY <1>1 DEF Located, ChannelsOpen, ActiveIsMarked, OneActivePerPod,
              ProcessingHasEmptyChannel, UndeliveredHasChannel, Numbered, Active

\* UpdatePod sends to an idle pod, whose workers are all inactive, or leaves
\* the update with the active one.
LEMMA UpdatePodStep ==
    ASSUME IInv, NEW u \in UIDs, NEW kill \in BOOLEAN, UpdatePod(u, kill),
           KubeletTypeOK'
    PROVE  IInv'
  <1> USE DEF IInv
  <1> DEFINE x == [n |-> calls + 1, kill |-> kill]
  <1>1. /\ calls < MaxCalls /\ calls' = calls + 1
        /\ UNCHANGED <<cur, timeouts, synced>>
    BY DEF UpdatePod
  <1>2. PICK w \in Workers : Channel(u, w) /\ (Send(u, w, x) \/ Keep(u, x))
    BY DEF UpdatePod
  <1>3. x \in Updates /\ x # NoUpdate /\ x.n \in 1..MaxCalls
    BY <1>1, BoundsAreNaturals DEF TypeOK, Updates, NoUpdate
  <1> HIDE DEF x
  <1>4. /\ podUpdates' = [podUpdates EXCEPT ![u] = w]
        /\ pc' \in [Workers -> Places] /\ pod' \in [Workers -> UIDs \cup {None}]
        /\ closed' \in [Workers -> BOOLEAN]
        /\ pod'[w] = u /\ pc'[w] # "free" /\ ~closed'[w]
        /\ \A v \in Workers \ {w} : pc'[v] = pc[v] /\ pod'[v] = pod[v] /\ closed'[v] = closed[v]
        /\ pc'[w] \in Processing <=> pc[w] \in Processing
        /\ pod[w] = u \/ (pc[w] = "free" /\ podUpdates[u] = None)
    <2>1. CASE podUpdates[u] = w /\ UNCHANGED <<podUpdates, pc, pod, closed>>
      <3>1. w # None
        BY NoneIsNoWorker
      <3>2. pod[w] = u /\ pc[w] # "free" /\ ~closed[w]
        BY <2>1, <3>1 DEF ChannelsOpen
      <3>3. podUpdates = [podUpdates EXCEPT ![u] = w]
        BY <2>1 DEF TypeOK
      <3> QED BY <2>1, <3>2, <3>3 DEF TypeOK
    <2>2. CASE /\ podUpdates[u] = None
               /\ pc[w] = "free"
               /\ podUpdates' = [podUpdates EXCEPT ![u] = w]
               /\ pc' = [pc EXCEPT ![w] = "receive"]
               /\ pod' = [pod EXCEPT ![w] = u]
               /\ closed' = [closed EXCEPT ![w] = FALSE]
      BY <2>2 DEF TypeOK, Places, Processing
    <2> QED BY <1>2, <2>1, <2>2 DEF Channel
  <1>5. \A v \in Workers : pc'[v] \in Processing <=> pc[v] \in Processing
    BY <1>4
  <1>6. podUpdates' \in [UIDs -> Workers \cup {None}]
    BY <1>4 DEF TypeOK
  <1>7. ChannelsOpen'
    <2> SUFFICES ASSUME NEW t \in UIDs, podUpdates'[t] # None
                 PROVE  /\ pod'[podUpdates'[t]] = t
                        /\ pc'[podUpdates'[t]] # "free"
                        /\ ~closed'[podUpdates'[t]]
      BY DEF ChannelsOpen
    <2>1. CASE t = u
      BY <1>4, <2>1 DEF TypeOK
    <2>2. CASE t # u
      <3>1. podUpdates'[t] = podUpdates[t]
        BY <1>4, <2>2 DEF TypeOK
      <3>2. /\ podUpdates[t] \in Workers /\ pod[podUpdates[t]] = t
            /\ pc[podUpdates[t]] # "free" /\ ~closed[podUpdates[t]]
        BY <3>1 DEF TypeOK, ChannelsOpen
      <3>3. podUpdates[t] # w
        BY <1>4, <2>2, <3>2
      <3> QED BY <1>4, <3>1, <3>2, <3>3
    <2> QED BY <2>1, <2>2
  <1>8. CASE Send(u, w, x)
    <2>1. /\ ~isWorking[u] /\ buf[w] = NoUpdate
          /\ isWorking' = [isWorking EXCEPT ![u] = TRUE]
          /\ buf' = [buf EXCEPT ![w] = x]
          /\ UNCHANGED lastUndelivered
      BY <1>8 DEF Send
    <2>2. isWorking' \in [UIDs -> BOOLEAN] /\ buf' \in [Workers -> Updates]
      BY <1>3, <2>1 DEF TypeOK
    <2>3. TypeOK'
      <3>1. calls' \in 0..MaxCalls
        BY <1>1, BoundsAreNaturals DEF TypeOK
      <3> QED BY <1>1, <1>4, <1>6, <2>1, <2>2, <3>1 DEF TypeOK, KubeletTypeOK
    <2>4. buf'[w] = x /\ \A v \in Workers \ {w} : buf'[v] = buf[v]
      BY <2>1 DEF TypeOK
    <2>5. Located'
      BY <1>4, <2>4 DEF Located
    <2>6. \A v \in Workers : Active(v) => pod[v] # u
      BY <2>1 DEF ActiveIsMarked
    <2>7. pc[w] \notin Processing
      BY <1>4, <2>6 DEF Active, Processing
    <2>8. \A v \in Workers : Active(v)' => v = w \/ (Active(v) /\ pod'[v] = pod[v] /\ pod[v] # u)
      BY <1>4, <1>5, <2>4, <2>6 DEF Active
    <2>9. ActiveIsMarked'
      <3> SUFFICES ASSUME NEW v \in Workers, Active(v)' PROVE isWorking'[pod'[v]]
        BY DEF ActiveIsMarked
      <3>1. CASE v = w
        BY <1>4, <2>1, <3>1 DEF TypeOK
      <3>2. CASE Active(v) /\ pod'[v] = pod[v] /\ pod[v] # u
        <4>1. isWorking[pod[v]]
          BY <3>2 DEF ActiveIsMarked
        <4> QED BY <2>1, <3>2, <4>1 DEF TypeOK
      <3> QED BY <2>8, <3>1, <3>2
    <2>10. OneActivePerPod'
      <3> SUFFICES ASSUME NEW v \in Workers, NEW t \in Workers,
                          Active(v)', Active(t)', pod'[v] = pod'[t]
                   PROVE  v = t
        BY DEF OneActivePerPod
      <3> QED BY <1>4, <2>8 DEF OneActivePerPod
    <2>11. ProcessingHasEmptyChannel'
      BY <1>5, <2>4, <2>7 DEF ProcessingHasEmptyChannel
    <2>12. UndeliveredHasChannel'
      BY <1>4, <2>1 DEF UndeliveredHasChannel, TypeOK
    <2>13. Numbered'
      BY <1>1, <1>3, <1>5, <2>1, <2>4 DEF Numbered
    <2> QED BY <1>7, <2>3, <2>5, <2>9, <2>10, <2>11, <2>12, <2>13
  <1>9. CASE Keep(u, x)
    <2>1. /\ isWorking[u]
          /\ lastUndelivered' \in {lastUndelivered, [lastUndelivered EXCEPT ![u] = x]}
          /\ UNCHANGED <<isWorking, buf>>
      BY <1>9 DEF Keep
    <2>2. TypeOK'
      <3>1. calls' \in 0..MaxCalls
        BY <1>1, BoundsAreNaturals DEF TypeOK
      <3>2. lastUndelivered' \in [UIDs -> Updates]
        BY <1>3, <2>1 DEF TypeOK
      <3> QED BY <1>1, <1>4, <1>6, <2>1, <3>1, <3>2 DEF TypeOK, KubeletTypeOK
    <2>3. Located'
      BY <1>4, <2>1 DEF Located
    <2>4. pc[w] = "free" => ~Active(w)
      BY DEF Located, Active, Processing
    <2>5. \A v \in Workers : Active(v)' => Active(v) /\ pod'[v] = pod[v]
      BY <1>4, <1>5, <2>1, <2>4 DEF Active
    <2>6. ActiveIsMarked' /\ OneActivePerPod'
      BY <2>1, <2>5 DEF ActiveIsMarked, OneActivePerPod
    <2>7. ProcessingHasEmptyChannel'
      BY <1>5, <2>1 DEF ProcessingHasEmptyChannel
    <2>8. UndeliveredHasChannel'
      <3> SUFFICES ASSUME NEW t \in UIDs, lastUndelivered'[t] # NoUpdate
                   PROVE  podUpdates'[t] # None /\ isWorking'[t]
        BY DEF UndeliveredHasChannel
      <3>1. CASE t = u
        BY <1>4, <2>1, <3>1, NoneIsNoWorker DEF TypeOK
      <3>2. CASE t # u
        BY <1>4, <2>1, <3>2 DEF UndeliveredHasChannel, TypeOK
      <3> QED BY <3>1, <3>2
    <2>9. Numbered'
      <3>1. \A t \in UIDs : lastUndelivered'[t] \in {lastUndelivered[t], x}
        BY <2>1 DEF TypeOK
      <3> QED BY <1>1, <1>3, <1>5, <2>1, <3>1 DEF Numbered
    <2> QED BY <1>7, <2>2, <2>3, <2>6, <2>7, <2>8, <2>9
  <1> QED BY <1>2, <1>8, <1>9

\* Forgetting pods closes their channels and no others.
LEMMA ForgetStep ==
    ASSUME IInv, NEW S \in SUBSET UIDs, Forget(S), KubeletTypeOK',
           UNCHANGED <<pc, pod, buf, cur, callerVars, synced>>
    PROVE  IInv'
  <1> USE DEF IInv
  <1>1. /\ closed' = [w \in Workers |-> closed[w] \/ \E u \in S : podUpdates[u] = w]
        /\ podUpdates' = [u \in UIDs |-> IF u \in S THEN None ELSE podUpdates[u]]
        /\ lastUndelivered' = [u \in UIDs |-> IF u \in S THEN NoUpdate ELSE lastUndelivered[u]]
        /\ UNCHANGED <<isWorking, pc, pod, buf, cur, calls, waiting, timeouts, synced>>
    BY DEF Forget, callerVars
  <1>2. NoUpdate \in Updates
    BY BoundsAreNaturals DEF NoUpdate, Updates
  <1>3. TypeOK'
    <2>1. closed' \in [Workers -> BOOLEAN]
      BY <1>1 DEF TypeOK
    <2>2. podUpdates' \in [UIDs -> Workers \cup {None}] /\ lastUndelivered' \in [UIDs -> Updates]
      BY <1>1, <1>2 DEF TypeOK
    <2> QED BY <1>1, <2>1, <2>2 DEF TypeOK, KubeletTypeOK
  <1>4. Located' /\ ActiveIsMarked' /\ OneActivePerPod' /\ ProcessingHasEmptyChannel'
    BY <1>1 DEF Located, ActiveIsMarked, OneActivePerPod, ProcessingHasEmptyChannel, Active
  <1>5. ChannelsOpen'
    <2> SUFFICES ASSUME NEW t \in UIDs, podUpdates'[t] # None
                 PROVE  /\ pod'[podUpdates'[t]] = t
                        /\ pc'[podUpdates'[t]] # "free"
                        /\ ~closed'[podUpdates'[t]]
      BY DEF ChannelsOpen
    <2>1. t \notin S /\ podUpdates'[t] = podUpdates[t] /\ podUpdates[t] \in Workers
      BY <1>1 DEF TypeOK
    <2>2. pod[podUpdates[t]] = t /\ pc[podUpdates[t]] # "free" /\ ~closed[podUpdates[t]]
      BY <2>1 DEF ChannelsOpen
    <2>3. \A u \in S : podUpdates[u] # podUpdates[t]
      BY <2>1, <2>2 DEF ChannelsOpen
    <2> QED BY <1>1, <2>1, <2>2, <2>3
  <1>6. UndeliveredHasChannel'
    BY <1>1 DEF UndeliveredHasChannel
  <1>7. Numbered'
    BY <1>1 DEF Numbered
  <1> QED BY <1>3, <1>4, <1>5, <1>6, <1>7

\* A caller that gives up touches no worker.
LEMMA TimeoutStep ==
    ASSUME IInv, NEW n, KillTimesOut(n)
    PROVE  IInv'
  <1> USE DEF IInv
  <1>1. /\ timeouts < MaxTimeouts /\ timeouts' = timeouts + 1 /\ waiting' = waiting \ {n}
        /\ UNCHANGED <<podUpdates, isWorking, lastUndelivered, workQueue, pods, terminated,
                       toSync, pc, pod, buf, closed, cur, calls, synced>>
    BY DEF KillTimesOut, workerVars, podVars
  <1>2. TypeOK'
    <2>1. timeouts \in 0..MaxTimeouts /\ waiting \subseteq 1..MaxCalls
      BY DEF TypeOK
    <2>2. timeouts' \in 0..MaxTimeouts
      BY <1>1, <2>1, BoundsAreNaturals
    <2>3. waiting' \subseteq 1..MaxCalls
      BY <1>1, <2>1
    <2> QED BY <1>1, <2>2, <2>3 DEF TypeOK
  <1> QED BY <1>1, <1>2 DEF Located, ChannelsOpen, ActiveIsMarked, OneActivePerPod,
              ProcessingHasEmptyChannel, UndeliveredHasChannel, Numbered, Active

\* Receiving moves the update from the channel to the worker.
LEMMA ReceiveStep ==
    ASSUME IInv, NEW w \in Workers, Receive(w)
    PROVE  IInv'
  <1> USE DEF IInv
  <1>1. /\ pc[w] = "receive" /\ buf[w] # NoUpdate
        /\ cur' = [cur EXCEPT ![w] = buf[w]]
        /\ buf' = [buf EXCEPT ![w] = NoUpdate]
        /\ pc' = [pc EXCEPT ![w] = "sync"]
        /\ UNCHANGED <<podUpdates, isWorking, lastUndelivered, workQueue, pods, terminated,
                       toSync, pod, closed, calls, waiting, timeouts, synced>>
    BY DEF Receive, callerVars, podVars
  <1>2. NoUpdate \in Updates /\ "sync" \in Places /\ "sync" \in Processing
    BY BoundsAreNaturals DEF NoUpdate, Updates, Places, Processing
  <1>3. TypeOK'
    <2>1. cur' \in [Workers -> Updates] /\ buf' \in [Workers -> Updates] /\ pc' \in [Workers -> Places]
      BY <1>1, <1>2 DEF TypeOK
    <2> QED BY <1>1, <2>1 DEF TypeOK
  <1>4. /\ buf'[w] = NoUpdate /\ cur'[w] = buf[w] /\ pc'[w] = "sync"
        /\ \A v \in Workers \ {w} : buf'[v] = buf[v] /\ cur'[v] = cur[v] /\ pc'[v] = pc[v]
    BY <1>1 DEF TypeOK
  <1>5. \A v \in Workers : Active(v)' => Active(v)
    BY <1>1, <1>4 DEF Active
  <1>6. Located' /\ ChannelsOpen' /\ UndeliveredHasChannel'
    <2>1. ChannelsOpen'
      BY <1>1, <1>4 DEF ChannelsOpen, TypeOK
    <2>2. Located'
      BY <1>1, <1>4 DEF Located
    <2> QED BY <1>1, <2>1, <2>2 DEF UndeliveredHasChannel
  <1>7. ActiveIsMarked' /\ OneActivePerPod'
    BY <1>1, <1>5 DEF ActiveIsMarked, OneActivePerPod
  <1>8. ProcessingHasEmptyChannel'
    BY <1>4 DEF ProcessingHasEmptyChannel
  <1>9. Numbered'
    BY <1>1, <1>4 DEF Numbered
  <1> QED BY <1>3, <1>6, <1>7, <1>8, <1>9

\* Only a worker no pod points to ends: its channel is closed.
LEMMA ExitStep ==
    ASSUME IInv, NEW w \in Workers, Exit(w)
    PROVE  IInv'
  <1> USE DEF IInv
  <1>1. /\ pc[w] = "receive" /\ closed[w] /\ buf[w] = NoUpdate
        /\ pc' = [pc EXCEPT ![w] = "free"]
        /\ pod' = [pod EXCEPT ![w] = None]
        /\ closed' = [closed EXCEPT ![w] = FALSE]
        /\ UNCHANGED <<podUpdates, isWorking, lastUndelivered, workQueue, pods, terminated,
                       toSync, buf, cur, calls, waiting, timeouts, synced>>
    BY DEF Exit, callerVars, podVars
  <1>2. TypeOK'
    <2>1. pc' \in [Workers -> Places] /\ pod' \in [Workers -> UIDs \cup {None}]
      BY <1>1 DEF TypeOK, Places
    <2>2. closed' \in [Workers -> BOOLEAN]
      BY <1>1 DEF TypeOK
    <2> QED BY <1>1, <2>1, <2>2 DEF TypeOK
  <1>3. /\ pc'[w] = "free" /\ pc'[w] \notin Processing
        /\ \A v \in Workers \ {w} : pc'[v] = pc[v] /\ pod'[v] = pod[v] /\ closed'[v] = closed[v]
    BY <1>1 DEF TypeOK, Processing
  <1>4. \A u \in UIDs : podUpdates[u] # w
    BY <1>1, NoneIsNoWorker DEF ChannelsOpen
  <1>5. \A v \in Workers : Active(v)' => v # w /\ Active(v)
    BY <1>1, <1>3 DEF Active
  <1>6. Located'
    BY <1>1, <1>3 DEF Located
  <1>7. ChannelsOpen'
    BY <1>1, <1>3, <1>4 DEF ChannelsOpen, TypeOK
  <1>8. ActiveIsMarked' /\ OneActivePerPod'
    BY <1>1, <1>3, <1>5 DEF ActiveIsMarked, OneActivePerPod
  <1>9. ProcessingHasEmptyChannel' /\ UndeliveredHasChannel'
    BY <1>1, <1>3 DEF ProcessingHasEmptyChannel, UndeliveredHasChannel
  <1>10. Numbered'
    BY <1>1, <1>3 DEF Numbered
  <1> QED BY <1>2, <1>6, <1>7, <1>8, <1>9, <1>10

\* Syncing, calling back and wrapping up keep the worker processing.
LEMMA ProcessingStep ==
    ASSUME IInv, NEW w \in Workers, SyncPod(w) \/ OnComplete(w) \/ WrapUp(w)
    PROVE  IInv'
  <1> USE DEF IInv
  <1>1. /\ pc[w] \in Processing
        /\ \E p \in Processing : pc' = [pc EXCEPT ![w] = p]
        /\ UNCHANGED <<podUpdates, isWorking, lastUndelivered, pods, toSync, pod, buf, closed, cur,
                       calls, timeouts>>
        /\ waiting' \subseteq waiting
    BY DEF SyncPod, OnComplete, WrapUp, Processing, callerVars, podVars
  <1>2. pod[w] \in UIDs /\ cur[w].n \in 1..MaxCalls
    BY <1>1 DEF Located, Numbered, Processing
  <1>3. synced' \in [UIDs -> SUBSET (1..MaxCalls)]
    BY <1>2 DEF SyncPod, OnComplete, WrapUp, TypeOK
  <1>4. workQueue' \subseteq UIDs /\ terminated' \subseteq UIDs
    BY <1>2 DEF SyncPod, OnComplete, WrapUp, TypeOK, podVars
  <1>5. PICK p \in Processing : pc' = [pc EXCEPT ![w] = p]
    BY <1>1
  <1>6. pc' \in [Workers -> Places]
    BY <1>5 DEF TypeOK, Processing, Places
  <1>7. TypeOK'
    BY <1>1, <1>3, <1>4, <1>6 DEF TypeOK
  <1>8. pc'[w] \in Processing /\ \A v \in Workers \ {w} : pc'[v] = pc[v]
    BY <1>5 DEF TypeOK
  <1>9. \A v \in Workers : /\ Active(v)' <=> Active(v)
                           /\ pc'[v] \in Processing <=> pc[v] \in Processing
                           /\ pc'[v] = "free" <=> pc[v] = "free"
    BY <1>1, <1>8 DEF Active, Processing
  <1>10. Located' /\ ProcessingHasEmptyChannel' /\ Numbered'
    BY <1>1, <1>9 DEF Located, ProcessingHasEmptyChannel, Numbered
  <1>11. ActiveIsMarked' /\ OneActivePerPod'
    BY <1>1, <1>9 DEF ActiveIsMarked, OneActivePerPod
  <1>12. ChannelsOpen' /\ UndeliveredHasChannel'
    BY <1>1, <1>9 DEF ChannelsOpen, UndeliveredHasChannel, TypeOK
  <1> QED BY <1>7, <1>10, <1>11, <1>12

\* checkForUpdates hands the mark of the pod to the worker it sends to, or
\* clears it.
LEMMA CheckStep ==
    ASSUME IInv, NEW w \in Workers, CheckForUpdates(w)
    PROVE  IInv'
  <1> USE DEF IInv
  <1> DEFINE u == pod[w]
  <1>1. /\ pc[w] = "check"
        /\ pc' = [pc EXCEPT ![w] = "receive"]
        /\ cur' = [cur EXCEPT ![w] = NoUpdate]
        /\ UNCHANGED <<podUpdates, workQueue, pods, terminated, toSync, pod, closed, calls, waiting,
                       timeouts, synced>>
    BY DEF CheckForUpdates, callerVars, podVars
  <1>2. NoUpdate \in Updates /\ "receive" \in Places
    BY BoundsAreNaturals DEF NoUpdate, Updates, Places
  <1>3. pc' \in [Workers -> Places] /\ cur' \in [Workers -> Updates]
    BY <1>1, <1>2 DEF TypeOK
  <1>4. /\ pc'[w] = "receive" /\ pc'[w] \notin Processing /\ pc[w] \in Processing
        /\ \A v \in Workers \ {w} : pc'[v] = pc[v] /\ cur'[v] = cur[v]
    BY <1>1 DEF TypeOK, Processing
  <1>5. u \in UIDs /\ buf[w] = NoUpdate
    BY <1>1, <1>4 DEF Located, ProcessingHasEmptyChannel
  <1>6. \A v \in Workers : Active(v) /\ pod[v] = u => v = w
    BY <1>4 DEF OneActivePerPod, Active
  <1>7. ChannelsOpen'
    BY <1>1, <1>4 DEF ChannelsOpen, TypeOK
  <1>8. CASE /\ lastUndelivered[u] # NoUpdate
             /\ podUpdates[u] # None /\ buf[podUpdates[u]] = NoUpdate
             /\ buf' = [buf EXCEPT ![podUpdates[u]] = lastUndelivered[u]]
             /\ lastUndelivered' = [lastUndelivered EXCEPT ![u] = NoUpdate]
             /\ UNCHANGED isWorking
    <2> DEFINE t == podUpdates[u]
    <2>1. t \in Workers /\ pod[t] = u /\ pc[t] # "free" /\ isWorking[u]
      BY <1>5, <1>8 DEF TypeOK, ChannelsOpen, UndeliveredHasChannel
    <2>2. buf'[t] = lastUndelivered[u] /\ \A v \in Workers \ {t} : buf'[v] = buf[v]
      BY <1>8, <2>1 DEF TypeOK
    <2>3. buf' \in [Workers -> Updates] /\ lastUndelivered' \in [UIDs -> Updates]
      BY <1>2, <1>5, <1>8 DEF TypeOK
    <2> HIDE DEF t
    <2>4. TypeOK'
      BY <1>1, <1>3, <1>8, <2>3 DEF TypeOK
    <2>5. t = w \/ pc[t] \notin Processing
      BY <1>6, <2>1 DEF Active
    <2>6. \A v \in Workers : Active(v)' => v = t \/ (Active(v) /\ v # w)
      BY <1>4, <1>5, <2>2 DEF Active
    <2>7. ActiveIsMarked'
      BY <1>1, <1>8, <2>1, <2>6 DEF ActiveIsMarked
    <2>8. OneActivePerPod'
      <3> SUFFICES ASSUME NEW v \in Workers, NEW r \in Workers,
                          Active(v)', Active(r)', pod'[v] = pod'[r]
                   PROVE  v = r
        BY DEF OneActivePerPod
      <3> QED BY <1>1, <1>6, <2>1, <2>6 DEF OneActivePerPod
    <2>9. ProcessingHasEmptyChannel'
      BY <1>4, <2>2, <2>5 DEF ProcessingHasEmptyChannel
    <2>10. Located'
      BY <1>1, <1>4, <2>1, <2>2 DEF Located
    <2>11. UndeliveredHasChannel'
      BY <1>1, <1>8 DEF UndeliveredHasChannel, TypeOK
    <2>12. Numbered'
      <3>1. \A s \in UIDs : lastUndelivered'[s] \in {lastUndelivered[s], NoUpdate}
        BY <1>8 DEF TypeOK
      <3> QED BY <1>4, <1>5, <2>2, <3>1 DEF Numbered
    <2> QED BY <1>7, <2>4, <2>7, <2>8, <2>9, <2>10, <2>11, <2>12
  <1>9. CASE /\ lastUndelivered[u] = NoUpdate
             /\ isWorking' = [isWorking EXCEPT ![u] = FALSE]
             /\ UNCHANGED <<buf, lastUndelivered>>
    <2>1. isWorking' \in [UIDs -> BOOLEAN]
      BY <1>9 DEF TypeOK
    <2>2. TypeOK'
      BY <1>1, <1>3, <1>9, <2>1 DEF TypeOK
    <2>3. \A v \in Workers : Active(v)' => Active(v) /\ v # w /\ pod[v] # u
      BY <1>4, <1>5, <1>6, <1>9 DEF Active
    <2>4. ActiveIsMarked'
      <3> SUFFICES ASSUME NEW v \in Workers, Active(v)' PROVE isWorking'[pod[v]]
        BY <1>1 DEF ActiveIsMarked
      <3>1. isWorking[pod[v]] /\ pod[v] # u
        BY <2>3 DEF ActiveIsMarked
      <3> QED BY <1>9, <3>1 DEF TypeOK
    <2>5. OneActivePerPod'
      BY <1>1, <2>3 DEF OneActivePerPod
    <2>6. ProcessingHasEmptyChannel' /\ Located'
      BY <1>1, <1>4, <1>9 DEF ProcessingHasEmptyChannel, Located
    <2>7. UndeliveredHasChannel'
      BY <1>1, <1>9 DEF UndeliveredHasChannel, TypeOK
    <2>8. Numbered'
      BY <1>4, <1>9 DEF Numbered
    <2> QED BY <1>7, <2>2, <2>4, <2>5, <2>6, <2>7, <2>8
  <1> QED BY <1>8, <1>9 DEF CheckForUpdates

LEMMA NextPreserves == IInv /\ [Next]_vars => IInv'
  <1> SUFFICES ASSUME IInv, [Next]_vars PROVE IInv'
    OBVIOUS
  <1>1. ASSUME NEW u \in UIDs,
               AddPod(u) \/ Dispatch(u) \/ PeriodicSync(u) \/ KillPodNow(u)
        PROVE  IInv'
    <2>1. /\ workQueue' = workQueue /\ pods' \subseteq pods \cup {u}
          /\ terminated' \subseteq terminated \cup {u}
          /\ toSync' \subseteq toSync /\ waiting' \subseteq waiting \cup {calls'}
      BY <1>1 DEF AddPod, Dispatch, PeriodicSync, KillPodNow, UpdatePod, podVars
    <2>2. CASE \E kill \in BOOLEAN : UpdatePod(u, kill)
      <3>1. PICK kill \in BOOLEAN : UpdatePod(u, kill)
        BY <2>2
      <3>2. calls' \in 1..MaxCalls
        BY <3>1, BoundsAreNaturals DEF UpdatePod, IInv, TypeOK
      <3>3. KubeletTypeOK'
        BY <2>1, <3>2 DEF KubeletTypeOK, IInv, TypeOK
      <3> QED BY <3>1, <3>3, UpdatePodStep
    <2>3. CASE /\ UNCHANGED <<podUpdates, isWorking, lastUndelivered, workerVars, calls, timeouts, synced>>
               /\ UNCHANGED waiting
      <3>1. KubeletTypeOK'
        BY <2>1, <2>3 DEF KubeletTypeOK, IInv, TypeOK
      <3> QED BY <2>3, <3>1, QuietStep DEF workerVars
    <2> QED BY <1>1, <2>2, <2>3 DEF AddPod, Dispatch, PeriodicSync, KillPodNow, DispatchWork
  <1>2. ASSUME NEW S \in SUBSET UIDs, GetPodsToSync(S) PROVE IInv'
    <2>1. KubeletTypeOK'
      BY <1>2 DEF GetPodsToSync, podVars, callerVars, KubeletTypeOK, IInv, TypeOK
    <2> QED BY <1>2, <2>1, QuietStep DEF GetPodsToSync, workerVars, callerVars
  <1>6. ASSUME NEW u \in UIDs, DeletePod(u) PROVE IInv'
    <2>1. KubeletTypeOK'
      BY <1>6 DEF DeletePod, callerVars, KubeletTypeOK, IInv, TypeOK
    <2>2. CASE Forget({u})
      BY <1>6, <2>1, <2>2, ForgetStep DEF DeletePod
    <2>3. CASE UNCHANGED <<closed, podUpdates, lastUndelivered, isWorking>>
      BY <1>6, <2>1, <2>3, QuietStep DEF DeletePod, callerVars
    <2> QED BY <1>6, <2>2, <2>3 DEF DeletePod
  <1>7. CASE HandlePodCleanups
    <2>1. KubeletTypeOK'
      BY <1>7 DEF HandlePodCleanups, podVars, callerVars, KubeletTypeOK, IInv, TypeOK
    <2> QED BY <1>7, <2>1, ForgetStep DEF HandlePodCleanups
  <1>3. ASSUME NEW n \in waiting, KillTimesOut(n) PROVE IInv'
    BY <1>3, TimeoutStep
  <1>4. ASSUME NEW w \in Workers, Work(w) PROVE IInv'
    BY <1>4, ReceiveStep, ExitStep, ProcessingStep, CheckStep DEF Work
  <1>5. CASE UNCHANGED vars
    BY <1>5 DEF vars, workerVars, callerVars, podVars, IInv, TypeOK, Located, ChannelsOpen, ActiveIsMarked,
       OneActivePerPod, ProcessingHasEmptyChannel, UndeliveredHasChannel, Numbered, Active
  <1> QED BY <1>1, <1>2, <1>3, <1>4, <1>5, <1>6, <1>7 DEF Next

\* The inductive invariant holds of every behaviour of the pod workers.
THEOREM InvariantHolds == Spec => []IInv
  BY InitHolds, NextPreserves, PTL DEF Spec

\* Type correctness.
THEOREM TypeCorrect == Spec => []TypeOK
  <1>1. IInv => TypeOK
    BY DEF IInv
  <1> QED BY <1>1, InvariantHolds, PTL

\* A pod is synced by one goroutine at a time, also across ForgetWorker and a
\* new UpdatePod for the same pod.
THEOREM SyncsAreExclusive == Spec => []OneSyncPerPod
  <1>1. IInv => OneSyncPerPod
    BY InvImplies
  <1> QED BY <1>1, InvariantHolds, PTL

\* No send of UpdatePod or checkForUpdates blocks while podLock is held.
THEOREM LockIsReleased == Spec => []SendsNeverBlock
  <1>1. IInv => SendsNeverBlock
    BY InvImplies
  <1> QED BY <1>1, InvariantHolds, PTL
-----------------------------------------------------------------------------
\* The order of the syncs.  An update numbered n that goroutine w has yet to
\* sync lies between what was synced of its pod and what is undelivered.
ToSync(w, n) ==
    /\ n <= calls
    /\ \A m \in synced[pod[w]] : m < n
    /\ lastUndelivered[pod[w]] # NoUpdate => n < lastUndelivered[pod[w]].n

Ordered ==
    /\ \A u \in UIDs : \A m \in synced[u] : m <= calls
    /\ \A u \in UIDs : lastUndelivered[u] # NoUpdate =>
          lastUndelivered[u].n <= calls /\ \A m \in synced[u] : m < lastUndelivered[u].n
    /\ \A w \in Workers : buf[w] # NoUpdate => ToSync(w, buf[w].n)
    /\ \A w \in Workers : pc[w] = "sync" => ToSync(w, cur[w].n)

\* A pod that needs no event to be synced again, or no sync.
Waits(u) == u \in workQueue \cup toSync \/ u \notin pods \/ u \in terminated

\* A goroutine about to clear isWorking leaves the pod in the work queue,
\* unless an update came in, or the pod was forgotten, after wrapUp.
CheckedIsQueued ==
    \A w \in Workers : pc[w] = "check" =>
        \/ Waits(pod[w])
        \/ lastUndelivered[pod[w]] # NoUpdate
        \/ podUpdates[pod[w]] = None

IdleIsQueued == \A u \in UIDs : podUpdates[u] # None => isWorking[u] \/ Waits(u)

SyncInv == Ordered /\ CheckedIsQueued /\ IdleIsQueued

LEMMA SyncInit == Init => SyncInv
  BY DEF Init, SyncInv, Ordered, ToSync, CheckedIsQueued, IdleIsQueued

\* A handler that touches no worker and leaves no pod without a sync.
LEMMA SyncQuiet ==
    ASSUME SyncInv, \A t \in UIDs : Waits(t) => Waits(t)', IInv,
           UNCHANGED <<podUpdates, isWorking, lastUndelivered, pc, pod, buf, cur, calls, synced>>
    PROVE  SyncInv'
  <1> USE DEF SyncInv
  <1>1. Ordered'
    BY DEF Ordered, ToSync
  <1>2. CheckedIsQueued' /\ IdleIsQueued'
    BY DEF CheckedIsQueued, IdleIsQueued, IInv, Located
  <1> QED BY <1>1, <1>2

\* The request of UpdatePod has the highest number so far, and it goes behind
\* what the pod's goroutine has in hand.
LEMMA SyncUpdatePod ==
    ASSUME IInv, SyncInv, NEW u \in UIDs, NEW kill \in BOOLEAN, UpdatePod(u, kill),
           \A t \in UIDs \ {u} : Waits(t) => Waits(t)'
    PROVE  SyncInv'
  <1> USE DEF IInv, SyncInv
  <1> DEFINE x == [n |-> calls + 1, kill |-> kill]
  <1>1. /\ calls < MaxCalls /\ calls' = calls + 1 /\ calls \in Nat
        /\ UNCHANGED <<cur, timeouts, synced>>
    BY BoundsAreNaturals DEF UpdatePod, TypeOK
  <1>2. PICK w \in Workers : Channel(u, w) /\ (Send(u, w, x) \/ Keep(u, x))
    BY DEF UpdatePod
  <1>3. x # NoUpdate /\ x.n = calls + 1
    BY <1>1 DEF NoUpdate
  <1> HIDE DEF x
  <1>4. /\ podUpdates' = [podUpdates EXCEPT ![u] = w]
        /\ pod'[w] = u
        /\ \A v \in Workers \ {w} : pc'[v] = pc[v] /\ pod'[v] = pod[v]
        /\ \/ pc'[w] = pc[w] /\ pod[w] = u
           \/ pc[w] = "free" /\ pc'[w] = "receive"
    <2>1. CASE podUpdates[u] = w /\ UNCHANGED <<podUpdates, pc, pod, closed>>
      BY <2>1, NoneIsNoWorker DEF ChannelsOpen, TypeOK
    <2>2. CASE /\ pc[w] = "free"
               /\ podUpdates' = [podUpdates EXCEPT ![u] = w]
               /\ pc' = [pc EXCEPT ![w] = "receive"]
               /\ pod' = [pod EXCEPT ![w] = u]
      BY <2>2 DEF TypeOK
    <2> QED BY <1>2, <2>1, <2>2 DEF Channel
  <1>5. w # None
    BY NoneIsNoWorker
  <1>6. \A v \in Workers : pc'[v] \in {"sync", "check"} => pc'[v] = pc[v] /\ pod'[v] = pod[v]
    BY <1>4
  <1>7. \A v \in Workers : buf[v] # NoUpdate => pod'[v] = pod[v] /\ pod[v] \in UIDs
    BY <1>4 DEF Located
  <1>8. \A t \in UIDs : \A m \in synced[t] : m \in Nat /\ m < calls + 1
    BY <1>1 DEF Ordered, TypeOK
  <1>9. CASE Send(u, w, x)
    <2>1. /\ ~isWorking[u] /\ buf[w] = NoUpdate
          /\ isWorking' = [isWorking EXCEPT ![u] = TRUE]
          /\ buf' = [buf EXCEPT ![w] = x]
          /\ UNCHANGED lastUndelivered
      BY <1>9 DEF Send
    <2>2. lastUndelivered[u] = NoUpdate
      BY <2>1 DEF UndeliveredHasChannel
    <2>3. buf'[w] = x /\ \A v \in Workers \ {w} : buf'[v] = buf[v]
      BY <2>1 DEF TypeOK
    <2>4. \A t \in UIDs : \A m \in synced'[t] : m <= calls'
      BY <1>1, <1>8
    <2>5. \A t \in UIDs : lastUndelivered'[t] # NoUpdate =>
            lastUndelivered'[t].n <= calls' /\ \A m \in synced'[t] : m < lastUndelivered'[t].n
      BY <1>1, <2>1 DEF Ordered, TypeOK, Updates
    <2>6. (\A v \in Workers : buf[v] # NoUpdate => ToSync(v, buf[v].n))'
      BY <1>1, <1>3, <1>4, <1>7, <1>8, <2>1, <2>2, <2>3 DEF Ordered, ToSync, TypeOK, Updates
    <2>7. (\A v \in Workers : pc[v] = "sync" => ToSync(v, cur[v].n))'
      BY <1>1, <1>6, <2>1 DEF Ordered, ToSync, TypeOK, Updates, Located
    <2>8. Ordered'
      BY <2>4, <2>5, <2>6, <2>7 DEF Ordered
    <2>9. \A v \in Workers : pc[v] = "check" => pod[v] # u
      BY <2>1 DEF ActiveIsMarked, Active, Processing
    <2>10. CheckedIsQueued'
      BY <1>4, <1>6, <2>1, <2>9 DEF CheckedIsQueued, TypeOK, Located
    <2>11. IdleIsQueued'
      BY <1>4, <2>1 DEF IdleIsQueued, TypeOK
    <2> QED BY <2>8, <2>10, <2>11
  <1>10. CASE Keep(u, x)
    <2>1. /\ isWorking[u]
          /\ lastUndelivered' = IF lastUndelivered[u].kill THEN lastUndelivered
                                ELSE [lastUndelivered EXCEPT ![u] = x]
          /\ UNCHANGED <<isWorking, buf>>
      BY <1>10 DEF Keep
    <2>2. /\ lastUndelivered'[u] # NoUpdate
          /\ lastUndelivered'[u] \in {lastUndelivered[u], x}
          /\ \A t \in UIDs \ {u} : lastUndelivered'[t] = lastUndelivered[t]
      BY <1>3, <2>1 DEF TypeOK, NoUpdate
    <2>3. \A t \in UIDs : \A m \in synced'[t] : m <= calls'
      BY <1>1, <1>8
    <2>4. \A t \in UIDs : lastUndelivered'[t] # NoUpdate =>
            lastUndelivered'[t].n <= calls' /\ \A m \in synced'[t] : m < lastUndelivered'[t].n
      BY <1>1, <1>3, <1>8, <2>2 DEF Ordered, TypeOK, Updates
    <2>5. ASSUME NEW v \in Workers, NEW n \in 0..MaxCalls, pod'[v] = pod[v], pod[v] \in UIDs,
                 ToSync(v, n)
          PROVE  ToSync(v, n)'
      BY <1>1, <1>3, <2>2, <2>5 DEF ToSync
    <2>6. (\A v \in Workers : buf[v] # NoUpdate => ToSync(v, buf[v].n))'
      BY <1>7, <2>1, <2>5 DEF Ordered, TypeOK, Updates
    <2>7. (\A v \in Workers : pc[v] = "sync" => ToSync(v, cur[v].n))'
      BY <1>1, <1>6, <2>5 DEF Ordered, TypeOK, Updates, Located
    <2>8. Ordered'
      BY <2>3, <2>4, <2>6, <2>7 DEF Ordered
    <2>9. CheckedIsQueued'
      BY <1>4, <1>6, <2>2 DEF CheckedIsQueued, TypeOK, Located
    <2>10. IdleIsQueued'
      BY <1>4, <2>1 DEF IdleIsQueued, TypeOK
    <2> QED BY <2>8, <2>9, <2>10
  <1> QED BY <1>2, <1>9, <1>10

\* Forgetting a pod takes its channel and its undelivered update away.
LEMMA SyncForget ==
    ASSUME IInv, SyncInv, NEW S \in SUBSET UIDs, Forget(S), \A t \in UIDs : Waits(t) => Waits(t)',
           UNCHANGED <<pc, pod, buf, cur, callerVars, synced>>
    PROVE  SyncInv'
  <1> USE DEF IInv, SyncInv
  <1>1. /\ podUpdates' = [u \in UIDs |-> IF u \in S THEN None ELSE podUpdates[u]]
        /\ lastUndelivered' = [u \in UIDs |-> IF u \in S THEN NoUpdate ELSE lastUndelivered[u]]
        /\ UNCHANGED <<isWorking, pc, pod, buf, cur, calls, synced>>
    BY DEF Forget, callerVars
  <1>2. \A w \in Workers : buf[w] # NoUpdate \/ pc[w] # "free" => pod[w] \in UIDs
    BY DEF Located
  <1>3. \A u \in UIDs : lastUndelivered'[u] \in {lastUndelivered[u], NoUpdate}
    BY <1>1
  <1>4. Ordered'
    BY <1>1, <1>2, <1>3 DEF Ordered, ToSync
  <1>5. CheckedIsQueued' /\ IdleIsQueued'
    BY <1>1, <1>2 DEF CheckedIsQueued, IdleIsQueued
  <1> QED BY <1>4, <1>5

\* The update in the channel becomes the one in hand.
LEMMA SyncReceive ==
    ASSUME IInv, SyncInv, NEW w \in Workers, Receive(w)
    PROVE  SyncInv'
  <1> USE DEF IInv, SyncInv
  <1>1. /\ buf[w] # NoUpdate
        /\ cur' = [cur EXCEPT ![w] = buf[w]]
        /\ buf' = [buf EXCEPT ![w] = NoUpdate]
        /\ pc' = [pc EXCEPT ![w] = "sync"]
        /\ UNCHANGED <<podUpdates, isWorking, lastUndelivered, workQueue, podVars, toSync, pod, calls,
                       synced>>
    BY DEF Receive, callerVars
  <1>2. Ordered'
    BY <1>1 DEF Ordered, ToSync, TypeOK
  <1>3. CheckedIsQueued' /\ IdleIsQueued'
    BY <1>1 DEF CheckedIsQueued, IdleIsQueued, TypeOK, Waits, podVars
  <1> QED BY <1>2, <1>3

\* The synced update comes before the undelivered one; no other goroutine has
\* an update of the pod.
LEMMA SyncSyncPod ==
    ASSUME IInv, SyncInv, NEW w \in Workers, SyncPod(w)
    PROVE  SyncInv'
  <1> USE DEF IInv, SyncInv
  <1>1. /\ pc[w] = "sync"
        /\ synced' = [synced EXCEPT ![pod[w]] = @ \cup {cur[w].n}]
        /\ pc' = [pc EXCEPT ![w] = "callback"]
        /\ UNCHANGED <<podUpdates, isWorking, lastUndelivered, workQueue, pods, toSync, pod, buf,
                       cur, calls>>
        /\ \A u \in UIDs \ {pod[w]} : u \in terminated' <=> u \in terminated
    BY DEF SyncPod, callerVars
  <1>2. pod[w] \in UIDs /\ Active(w) /\ ToSync(w, cur[w].n)
    BY <1>1 DEF Located, Active, Processing, Ordered
  <1>3. \A u \in UIDs : synced'[u] = IF u = pod[w] THEN synced[u] \cup {cur[w].n} ELSE synced[u]
    BY <1>1, <1>2 DEF TypeOK
  <1>4. \A v \in Workers \ {w} : Active(v) => pod[v] # pod[w]
    BY <1>2 DEF OneActivePerPod
  <1>5. \A v \in Workers : buf[v] # NoUpdate => v # w /\ Active(v) /\ pod[v] \in UIDs
    BY <1>1, <1>2 DEF ProcessingHasEmptyChannel, Processing, Located, Active
  <1>6. \A v \in Workers : pc'[v] = "sync" => v # w /\ pc[v] = "sync" /\ Active(v) /\ pod[v] \in UIDs
    BY <1>1 DEF TypeOK, Active, Processing, Located
  <1>7. \A u \in UIDs : \A m \in synced'[u] : m <= calls'
    BY <1>1, <1>2, <1>3 DEF Ordered, ToSync
  <1>8. \A u \in UIDs : lastUndelivered'[u] # NoUpdate =>
          lastUndelivered'[u].n <= calls' /\ \A m \in synced'[u] : m < lastUndelivered'[u].n
    BY <1>1, <1>2, <1>3 DEF Ordered, ToSync
  <1>9. (\A v \in Workers : buf[v] # NoUpdate => ToSync(v, buf[v].n))'
    BY <1>1, <1>3, <1>4, <1>5 DEF Ordered, ToSync
  <1>10. (\A v \in Workers : pc[v] = "sync" => ToSync(v, cur[v].n))'
    BY <1>1, <1>3, <1>4, <1>6 DEF Ordered, ToSync
  <1>11. Ordered'
    BY <1>7, <1>8, <1>9, <1>10 DEF Ordered
  <1>12. CheckedIsQueued'
    <2> SUFFICES ASSUME NEW v \in Workers, pc'[v] = "check"
                 PROVE  \/ Waits(pod[v])'
                        \/ lastUndelivered'[pod[v]] # NoUpdate
                        \/ podUpdates'[pod[v]] = None
      BY <1>1 DEF CheckedIsQueued
    <2>1. v # w /\ pc[v] = "check" /\ pod[v] \in UIDs /\ pod[v] # pod[w]
      BY <1>1, <1>4 DEF TypeOK, Active, Processing, Located
    <2> QED BY <1>1, <2>1 DEF CheckedIsQueued, Waits
  <1>13. IdleIsQueued'
    <2>1. isWorking[pod[w]]
      BY <1>2 DEF ActiveIsMarked
    <2> QED BY <1>1, <2>1 DEF IdleIsQueued, Waits
  <1> QED BY <1>11, <1>12, <1>13

\* checkForUpdates hands the undelivered update to the pod's channel, or
\* leaves the pod to the work queue.
LEMMA SyncCheck ==
    ASSUME IInv, SyncInv, NEW w \in Workers, CheckForUpdates(w)
    PROVE  SyncInv'
  <1> USE DEF IInv, SyncInv
  <1> DEFINE u == pod[w]
  <1>1. /\ pc[w] = "check"
        /\ pc' = [pc EXCEPT ![w] = "receive"]
        /\ cur' = [cur EXCEPT ![w] = NoUpdate]
        /\ UNCHANGED <<podUpdates, workQueue, podVars, toSync, pod, calls, synced>>
        /\ \A t \in UIDs : Waits(t)' <=> Waits(t)
    BY DEF CheckForUpdates, callerVars, podVars, Waits
  <1>2. u \in UIDs /\ Active(w)
    BY <1>1 DEF Located, Active, Processing
  <1>3. \A v \in Workers : pc'[v] \in {"sync", "check"} =>
          /\ v # w /\ pc[v] = pc'[v] /\ cur'[v] = cur[v]
          /\ pod[v] \in UIDs /\ pod[v] # u
    BY <1>1, <1>2 DEF TypeOK, Located, OneActivePerPod, Active, Processing
  <1>4. CASE /\ lastUndelivered[u] # NoUpdate
             /\ podUpdates[u] # None
             /\ buf' = [buf EXCEPT ![podUpdates[u]] = lastUndelivered[u]]
             /\ lastUndelivered' = [lastUndelivered EXCEPT ![u] = NoUpdate]
             /\ UNCHANGED isWorking
    <2> DEFINE c == podUpdates[u]
    <2>1. c \in Workers /\ pod[c] = u
      BY <1>2, <1>4 DEF ChannelsOpen, TypeOK
    <2>2. /\ buf'[c] = lastUndelivered[u] /\ \A v \in Workers \ {c} : buf'[v] = buf[v]
          /\ lastUndelivered'[u] = NoUpdate
          /\ \A t \in UIDs \ {u} : lastUndelivered'[t] = lastUndelivered[t]
      BY <1>2, <1>4, <2>1 DEF TypeOK
    <2>3. \A v \in Workers \ {c} : buf[v] # NoUpdate => pod[v] \in UIDs /\ pod[v] # u
      BY <1>1, <1>2 DEF Located, OneActivePerPod, Active, ProcessingHasEmptyChannel, Processing
    <2>4. (\A v \in Workers : buf[v] # NoUpdate => ToSync(v, buf[v].n))'
      BY <1>1, <1>2, <2>1, <2>2, <2>3 DEF Ordered, ToSync
    <2>5. (\A v \in Workers : pc[v] = "sync" => ToSync(v, cur[v].n))'
      BY <1>1, <1>3, <2>2 DEF Ordered, ToSync
    <2>6. Ordered'
      BY <1>1, <2>2, <2>4, <2>5 DEF Ordered
    <2>7. CheckedIsQueued'
      BY <1>1, <1>3, <2>2 DEF CheckedIsQueued
    <2>8. IdleIsQueued'
      BY <1>1, <1>4 DEF IdleIsQueued
    <2> QED BY <2>6, <2>7, <2>8
  <1>5. CASE /\ lastUndelivered[u] = NoUpdate
             /\ isWorking' = [isWorking EXCEPT ![u] = FALSE]
             /\ UNCHANGED <<buf, lastUndelivered>>
    <2>1. Ordered'
      BY <1>1, <1>3, <1>5 DEF Ordered, ToSync
    <2>2. CheckedIsQueued'
      BY <1>1, <1>3, <1>5 DEF CheckedIsQueued
    <2>3. Waits(u) \/ podUpdates[u] = None
      BY <1>1, <1>5 DEF CheckedIsQueued
    <2>4. IdleIsQueued'
      BY <1>1, <1>5, <2>3 DEF IdleIsQueued, TypeOK
    <2> QED BY <2>1, <2>2, <2>4
  <1> QED BY <1>4, <1>5 DEF CheckForUpdates

LEMMA SyncNext == IInv /\ SyncInv /\ [Next]_vars => SyncInv'
  <1> SUFFICES ASSUME IInv, SyncInv, [Next]_vars PROVE SyncInv'
    OBVIOUS
  <1>1. ASSUME NEW u \in UIDs,
               AddPod(u) \/ Dispatch(u) \/ PeriodicSync(u) \/ KillPodNow(u)
        PROVE  SyncInv'
    <2>1. \A t \in UIDs \ {u} : Waits(t) => Waits(t)'
      BY <1>1 DEF AddPod, Dispatch, PeriodicSync, KillPodNow, podVars, Waits
    <2>2. CASE \E kill \in BOOLEAN : UpdatePod(u, kill)
      BY <2>1, <2>2, SyncUpdatePod
    <2>3. CASE /\ UNCHANGED <<podUpdates, isWorking, lastUndelivered, workerVars, calls, timeouts, synced>>
               /\ Waits(u)'
      <3>1. \A t \in UIDs : Waits(t) => Waits(t)'
        BY <2>1, <2>3
      <3> QED BY <2>3, <3>1, SyncQuiet DEF workerVars
    <2>4. \/ \E kill \in BOOLEAN : UpdatePod(u, kill)
          \/ /\ UNCHANGED <<podUpdates, isWorking, lastUndelivered, workerVars, calls, timeouts, synced>>
             /\ u \in terminated'
      BY <1>1 DEF AddPod, Dispatch, PeriodicSync, KillPodNow, DispatchWork, podVars
    <2> QED BY <2>2, <2>3, <2>4 DEF Waits
  <1>2. ASSUME NEW S \in SUBSET UIDs, GetPodsToSync(S) PROVE SyncInv'
    <2>1. \A t \in UIDs : Waits(t) => Waits(t)'
      BY <1>2 DEF GetPodsToSync, podVars, Waits
    <2> QED BY <1>2, <2>1, SyncQuiet DEF GetPodsToSync, workerVars, callerVars
  <1>7. ASSUME NEW u \in UIDs, DeletePod(u) PROVE SyncInv'
    <2>1. \A t \in UIDs : Waits(t) => Waits(t)'
      BY <1>7 DEF DeletePod, Waits
    <2>2. CASE Forget({u})
      BY <1>7, <2>1, <2>2, SyncForget DEF DeletePod
    <2>3. CASE UNCHANGED <<closed, podUpdates, lastUndelivered, isWorking>>
      BY <1>7, <2>1, <2>3, SyncQuiet DEF DeletePod, callerVars
    <2> QED BY <1>7, <2>2, <2>3 DEF DeletePod
  <1>8. CASE HandlePodCleanups
    <2>1. \A t \in UIDs : Waits(t) => Waits(t)'
      BY <1>8 DEF HandlePodCleanups, podVars, Waits
    <2> QED BY <1>8, <2>1, SyncForget DEF HandlePodCleanups
  <1>3. ASSUME NEW n \in waiting, KillTimesOut(n) PROVE SyncInv'
    <2>1. \A t \in UIDs : Waits(t) => Waits(t)'
      BY <1>3 DEF KillTimesOut, podVars, Waits
    <2> QED BY <1>3, <2>1, SyncQuiet DEF KillTimesOut, workerVars
  <1>4. ASSUME NEW w \in Workers, Exit(w) PROVE SyncInv'
    <2> USE DEF IInv, SyncInv
    <2>1. /\ pc[w] = "receive" /\ closed[w] /\ buf[w] = NoUpdate
          /\ pc' = [pc EXCEPT ![w] = "free"]
          /\ pod' = [pod EXCEPT ![w] = None]
          /\ UNCHANGED <<podUpdates, isWorking, lastUndelivered, buf, cur, calls, synced>>
          /\ \A t : Waits(t)' <=> Waits(t)
      BY <1>4 DEF Exit, callerVars, podVars, Waits
    <2>2. Ordered'
      BY <2>1 DEF Ordered, ToSync, TypeOK
    <2>3. CheckedIsQueued' /\ IdleIsQueued'
      BY <2>1 DEF CheckedIsQueued, IdleIsQueued, TypeOK
    <2> QED BY <2>2, <2>3
  <1>5. ASSUME NEW w \in Workers, OnComplete(w) \/ WrapUp(w) PROVE SyncInv'
    <2> USE DEF IInv, SyncInv
    <2>1. /\ pc[w] \in {"callback", "wrapup"} /\ pc' \in {[pc EXCEPT ![w] = "wrapup"], [pc EXCEPT ![w] = "check"]}
          /\ pc'[w] = "check" => pod[w] \in workQueue'
          /\ \A t : Waits(t) => Waits(t)'
          /\ UNCHANGED <<podUpdates, isWorking, lastUndelivered, pod, buf, cur, calls, synced>>
      BY <1>5 DEF OnComplete, WrapUp, callerVars, podVars, TypeOK, Waits
    <2>2. Ordered'
      BY <2>1 DEF Ordered, ToSync, TypeOK
    <2>3. pod[w] \in workQueue' => Waits(pod[w])'
      BY <2>1 DEF Waits
    <2>4. CheckedIsQueued' /\ IdleIsQueued'
      BY <2>1, <2>3 DEF CheckedIsQueued, IdleIsQueued, TypeOK
    <2> QED BY <2>2, <2>4
  <1>6. CASE UNCHANGED vars
    <2>1. \A t \in UIDs : Waits(t) => Waits(t)'
      BY <1>6 DEF vars, podVars, Waits
    <2> QED BY <1>6, <2>1, SyncQuiet DEF vars, workerVars, callerVars
  <1> QED BY <1>1, <1>2, <1>3, <1>4, <1>5, <1>6, <1>7, <1>8, SyncReceive, SyncSyncPod, SyncCheck DEF Next, Work

LEMMA SyncInvHolds == Spec => []SyncInv
  <1>1. IInv /\ SyncInv /\ [Next]_vars => SyncInv'
    BY SyncNext
  <1> QED BY <1>1, SyncInit, InvariantHolds, PTL DEF Spec

\* No update of a pod is synced after one requested later, and none twice,
\* whichever goroutine syncs it (managePodLoop, checkForUpdates).
THEOREM SyncsAreOrdered == Spec => []SyncsInOrder
  <1>1. SyncInv => SyncsInOrder
    BY DEF SyncInv, Ordered, ToSync, SyncsInOrder
  <1> QED BY <1>1, SyncInvHolds, PTL

\* A known pod that has not ended and has a worker is being synced, waits in
\* the work queue for its next sync or has been taken out of it to be
\* dispatched (wrapUp, checkForUpdates, getPodsToSync, dispatchWork).
THEOREM PodsStayScheduled == Spec => []PodStaysScheduled
  <1>1. IInv /\ SyncInv => PodStaysScheduled
    BY DEF IInv, TypeOK, SyncInv, IdleIsQueued, Waits, PodStaysScheduled
  <1> QED BY <1>1, InvariantHolds, SyncInvHolds, PTL

\* Only delivery and removeWorker take a pending kill away (UpdatePod).
THEOREM KillsAreKept == Spec => PendingKillKept
  <1> DEFINE Kept == \A u \in UIDs : lastUndelivered[u].kill =>
                        lastUndelivered'[u] \in {lastUndelivered[u], NoUpdate}
  <1>1. TypeOK /\ [Next]_vars => Kept
    <2> SUFFICES ASSUME TypeOK, [Next]_vars, NEW u \in UIDs, lastUndelivered[u].kill
                 PROVE  lastUndelivered'[u] \in {lastUndelivered[u], NoUpdate}
      OBVIOUS
    <2>1. ASSUME NEW t \in UIDs, NEW kill \in BOOLEAN, UpdatePod(t, kill)
          PROVE  lastUndelivered'[u] = lastUndelivered[u]
      BY <2>1 DEF UpdatePod, Send, Keep, TypeOK
    <2>2. ASSUME NEW t \in UIDs, AddPod(t) \/ Dispatch(t) \/ PeriodicSync(t) \/ KillPodNow(t)
          PROVE  lastUndelivered'[u] = lastUndelivered[u]
      BY <2>1, <2>2 DEF AddPod, Dispatch, PeriodicSync, KillPodNow, DispatchWork
    <2>3. ASSUME NEW S \in SUBSET UIDs, Forget(S)
          PROVE  lastUndelivered'[u] \in {lastUndelivered[u], NoUpdate}
      BY <2>3 DEF Forget
    <2>8. ASSUME NEW t \in UIDs, DeletePod(t)
          PROVE  lastUndelivered'[u] \in {lastUndelivered[u], NoUpdate}
      BY <2>3, <2>8 DEF DeletePod
    <2>9. HandlePodCleanups => lastUndelivered'[u] \in {lastUndelivered[u], NoUpdate}
      BY <2>3 DEF HandlePodCleanups
    <2>10. ASSUME NEW S \in SUBSET UIDs, GetPodsToSync(S) PROVE lastUndelivered' = lastUndelivered
      BY <2>10 DEF GetPodsToSync
    <2>4. ASSUME NEW w \in Workers, CheckForUpdates(w)
          PROVE  lastUndelivered'[u] \in {lastUndelivered[u], NoUpdate}
      BY <2>4 DEF CheckForUpdates, TypeOK
    <2>5. ASSUME NEW w \in Workers, Receive(w) \/ Exit(w) \/ SyncPod(w) \/ OnComplete(w) \/ WrapUp(w)
          PROVE  lastUndelivered' = lastUndelivered
      BY <2>5 DEF Receive, Exit, SyncPod, OnComplete, WrapUp
    <2>6. ASSUME NEW n \in waiting, KillTimesOut(n) PROVE lastUndelivered' = lastUndelivered
      BY <2>6 DEF KillTimesOut
    <2>7. UNCHANGED vars => lastUndelivered' = lastUndelivered
      BY DEF vars
    <2> QED BY <2>2, <2>3, <2>4, <2>5, <2>6, <2>7, <2>8, <2>9, <2>10 DEF Next, Work
  <1>2. Kept => [Kept]_vars
    OBVIOUS
  <1> QED BY <1>1, <1>2, TypeCorrect, PTL DEF Spec, PendingKillKept
=============================================================================
