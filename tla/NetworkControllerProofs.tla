----------------------- MODULE NetworkControllerProofs -----------------------
(***************************************************************************)
(* For every set of services and of workers, every number of changes and   *)
(* of faults: a worker that is about to create a load balancer still finds *)
(* none, a status write takes back nothing, and without faults no service  *)
(* is left without the load balancer it wants and none is left behind.     *)
(***************************************************************************)
EXTENDS NetworkController, SequenceTheorems, TLAPS

(* A worker has a key from Get to Done, and no two have the same.          *)
(* What a worker has found at the provider is still there when it writes.  *)
(* From the lookup on it has a service.                                    *)
Looked == {"getlb", "endpoints", "writelb", "status"}
TaskInv ==
    \A w \in Workers :
        /\ task[w].at = "get" => task[w] = Idle
        /\ task[w].at # "get" => task[w].key \in Services
        /\ task[w].at \in {"endpoints", "writelb"} => lb[task[w].key] = task[w].found
        /\ task[w].at \in Looked => task[w].obj # NoService
        /\ \A v \in Workers : v # w /\ task[w].key # None => task[v].key # task[w].key

(* Equal but for the status, which a worker sets in the cached object.     *)
Same(x, y) ==
    /\ x = NoService <=> y = NoService
    /\ x.np = y.np /\ x.sel = y.sel /\ x.ext = y.ext /\ x.rv = y.rv

(* A copy of service s is no newer than the server's version counter, and  *)
(* a copy of the server's version is a copy of the server's object.        *)
Known(s, x) ==
    x # NoService => x.rv \in 1..rv /\ (x.rv = svc[s].rv => Same(x, svc[s]))

VersionInv ==
    /\ \A s \in Services :
          /\ Known(s, svc[s]) /\ Known(s, cache[s])
          /\ \A i \in 1..Len(feed[s]) : Known(s, feed[s][i])
    /\ \A w \in Workers : task[w].key \in Services => Known(task[w].key, task[w].obj)

(* What the informer will have when it has delivered everything.           *)
FeedInv ==
    \A s \in Services :
        IF feed[s] = <<>> THEN Same(svc[s], cache[s]) ELSE svc[s] = feed[s][Len(feed[s])]

(* The load balancer of s is what the service asks for.                    *)
Right(s) == IF svc[s].ext THEN eps[s] \in {0, lb[s]} ELSE lb[s] = 0

(* What worker w has read so far of its service s still holds, so that it  *)
(* ends with the load balancer right.                                      *)
OnCourse(w, s) ==
    \/ task[w].at = "lookup"
    \/ task[w].at = "getlb" /\ task[w].obj.ext = svc[s].ext
    \/ task[w].at = "deletelb" /\ ~svc[s].ext
    \/ task[w].at = "endpoints" /\ svc[s].ext
    \/ task[w].at = "writelb" /\ svc[s].ext /\ task[w].hosts = eps[s]
    \/ task[w].at = "status" /\ Right(s)

Covered(s) ==
    Managed(s) /\ feed[s] = <<>> /\ ~epNotice[s] /\ s \notin dirty =>
        /\ \A w \in Workers : task[w].key = s => OnCourse(w, s)
        /\ (\A w \in Workers : task[w].key # s) => Right(s)

(* A service that was never of type NetworkProvider is not worked on.      *)
Untouched(s) ==
    s \notin wasNP =>
        /\ ~svc[s].np /\ ~cache[s].np /\ \A i \in 1..Len(feed[s]) : ~feed[s][i].np
        /\ s \notin dirty /\ lb[s] = 0
        /\ \A w \in Workers : task[w].key # s

(* The deletion of any other is reported with a service of that type.      *)
BeforeLast(s) == IF Len(feed[s]) = 1 THEN cache[s] ELSE feed[s][Len(feed[s]) - 1]
Reported(s) ==
    s \in wasNP /\ s \notin switched =>
        /\ svc[s] # NoService => svc[s].np
        /\ svc[s] = NoService /\ feed[s] # <<>> => BeforeLast(s).np

Cleared(s) ==
    svc[s] = NoService /\ s \notin switched /\ feed[s] = <<>> /\ s \notin dirty =>
        /\ \A w \in Workers : task[w].key = s => task[w].at \in {"lookup", "deletelb"}
        /\ (\A w \in Workers : task[w].key # s) => lb[s] = 0

ServiceInv(s) == Covered(s) /\ Untouched(s) /\ Reported(s) /\ Cleared(s)
WorkInv == Faultless => \A s \in Services : ServiceInv(s)

-----------------------------------------------------------------------------
(* What the queue of undelivered events is after a write and a delivery.   *)
LEMMA AppendFacts ==
    ASSUME NEW S, NEW q \in Seq(S), NEW x \in S
    PROVE  /\ Append(q, x) \in Seq(S) /\ Append(q, x) # <<>>
           /\ Len(Append(q, x)) = Len(q) + 1
           /\ \A i \in 1..Len(q) : Append(q, x)[i] = q[i]
           /\ Append(q, x)[Len(q) + 1] = x
    OBVIOUS

\* The rest of a sequence.
LEMMA TailFacts ==
    ASSUME NEW S, NEW q \in Seq(S), q # <<>>
    PROVE  /\ Head(q) = q[1] /\ Head(q) \in S
           /\ Tail(q) \in Seq(S) /\ Len(q) \in Nat \ {0}
           /\ Len(Tail(q)) = Len(q) - 1
           /\ \A i \in 1..Len(Tail(q)) : Tail(q)[i] = q[i + 1]
           /\ Tail(q) = <<>> <=> Len(q) = 1
  <1>1. Head(q) = q[1] /\ Head(q) \in S /\ Tail(q) \in Seq(S) /\ Len(q) \in Nat \ {0}
    OBVIOUS
  <1>2. Len(Tail(q)) = Len(q) - 1 /\ \A i \in 1..Len(Tail(q)) : Tail(q)[i] = q[i + 1]
    BY HeadTailProperties
  <1>3. Tail(q) = <<>> <=> Len(q) = 1
    <2>1. Tail(q) = <<>> <=> Len(Tail(q)) = 0
      BY <1>1, EmptySeq
    <2> QED BY <1>1, <1>2, <2>1
  <1> QED BY <1>1, <1>2, <1>3

LEMMA NoServiceType == NoService \in Service
    BY DEF NoService, Service

LEMMA IdleType == Idle \in Task
  <1>1. MaxHosts \in Nat /\ ClientRetryCount \in Nat \ {0}
    BY ConstantsFit
  <1>2. 0 \in Hosts /\ 0 \in 0..(ClientRetryCount - 1) /\ "get" \in Places
    BY <1>1 DEF Hosts, Places
  <1> QED BY <1>2, NoServiceType DEF Task, Idle

LEMMA TypeInit == Init => TypeOK
  <1>1. /\ MaxHosts \in Nat /\ MaxFailures \in Nat /\ MaxRelists \in Nat /\ MaxRestarts \in Nat
    BY ConstantsFit
  <1>2. 0 \in Hosts /\ <<>> \in Seq(Service)
    BY <1>1 DEF Hosts
  <1>3. Init => epNotice \in [Services -> BOOLEAN] /\ started \in BOOLEAN
    BY DEF Init
  <1>4. Init => failures \in 0..MaxFailures /\ relists \in 0..MaxRelists /\ restarts \in 0..MaxRestarts
    BY <1>1 DEF Init
  <1>5. Init => task \in [Workers -> Task]
    BY IdleType DEF Init
  <1>6. Init => svc \in [Services -> Service] /\ cache \in [Services -> Service]
    BY NoServiceType DEF Init
  <1>7. Init => feed \in [Services -> Seq(Service)]
    BY <1>2 DEF Init
  <1> QED BY <1>2, <1>3, <1>4, <1>5, <1>6, <1>7 DEF Init, TypeOK

LEMMA StoreType ==
    ASSUME TypeOK, NEW s \in Services, NEW x \in Service, Store(s, x)
    PROVE  svc' \in [Services -> Service] /\ feed' \in [Services -> Seq(Service)] /\ rv' \in Nat
    BY AppendFacts DEF Store, TypeOK

(* A worker's step changes its own task only, to one of these.             *)
Moves(w, t) ==
    /\ t \in Task /\ task'[w] = t
    /\ task' \in [Workers -> Task]
    /\ \A v \in Workers : v # w => task'[v] = task[v]

\* A worker moves on with its task.
LEMMA MoveTo ==
    ASSUME task \in [Workers -> Task], NEW w \in Workers, NEW t \in Task,
           task' = [task EXCEPT ![w] = t]
    PROVE  Moves(w, t)
    BY DEF Moves

\* A worker with a task has its key in hand.
LEMMA Busy ==
    ASSUME TypeOK, TaskInv, NEW w \in Workers, task[w].at # "get"
    PROVE  task[w] \in Task /\ task[w].key \in Services /\ Idle \in Task
    BY IdleType DEF TypeOK, TaskInv

\* What each step of a worker does to its task.
LEMMA LookupMoves ==
    ASSUME TypeOK, TaskInv, NEW w \in Workers, Lookup(w)
    PROVE  LET x == cache[task[w].key]
           IN  /\ task[w].key \in Services /\ x \in Service
               /\ \/ x = NoService /\ Moves(w, [task[w] EXCEPT !.at = "deletelb"])
                  \/ x # NoService /\ x.sel
                     /\ Moves(w, [task[w] EXCEPT !.at = "getlb", !.obj = x])
                  \/ x # NoService /\ ~x.sel /\ Moves(w, Idle)
  <1> DEFINE x == cache[task[w].key]
  <1>1. /\ task[w] \in Task /\ task[w].key \in Services /\ Idle \in Task
        /\ x \in Service /\ task \in [Workers -> Task]
    BY Busy DEF Lookup, TypeOK
  <1>2. CASE x = NoService /\ task' = [task EXCEPT ![w].at = "deletelb"]
    <2>1. [task[w] EXCEPT !.at = "deletelb"] \in Task
      BY <1>1 DEF Task, Places
    <2> QED BY <1>1, <1>2, <2>1, MoveTo
  <1>3. CASE x # NoService /\ x.sel /\ task' = [task EXCEPT ![w].at = "getlb", ![w].obj = x]
    <2>1. [task[w] EXCEPT !.at = "getlb", !.obj = x] \in Task
      BY <1>1 DEF Task, Places
    <2>2. task' = [task EXCEPT ![w] = [task[w] EXCEPT !.at = "getlb", !.obj = x]]
      BY <1>1, <1>3
    <2>3. Moves(w, [task[w] EXCEPT !.at = "getlb", !.obj = x])
      BY <1>1, <2>1, <2>2, MoveTo
    <2> QED BY <1>1, <1>3, <2>3
  <1>4. CASE x # NoService /\ ~x.sel /\ Return(w)
    BY <1>1, <1>4, MoveTo DEF Return
  <1> QED BY <1>2, <1>3, <1>4 DEF Lookup

LEMMA GetLoadBalancerMoves ==
    ASSUME TypeOK, TaskInv, NEW w \in Workers, GetLoadBalancer(w)
    PROVE  LET b == lb[task[w].key]
               ext == task[w].obj.ext
           IN  /\ task[w].key \in Services
               /\ \/ ext /\ Moves(w, [task[w] EXCEPT !.at = "endpoints", !.found = b])
                  \/ ~ext /\ b # 0 /\ Moves(w, [task[w] EXCEPT !.at = "deletelb"])
                  \/ ~ext /\ b = 0 /\ Moves(w, Idle)
                  \/ Fails /\ Moves(w, Idle)
  <1> DEFINE b == lb[task[w].key]
             ext == task[w].obj.ext
  <1>1. /\ task[w] \in Task /\ task[w].key \in Services /\ Idle \in Task
        /\ b \in Hosts /\ task \in [Workers -> Task]
    BY Busy DEF GetLoadBalancer, TypeOK
  <1>2. CASE ext /\ task' = [task EXCEPT ![w].at = "endpoints", ![w].found = b]
    <2>1. [task[w] EXCEPT !.at = "endpoints", !.found = b] \in Task
      BY <1>1 DEF Task, Places
    <2>2. task' = [task EXCEPT ![w] = [task[w] EXCEPT !.at = "endpoints", !.found = b]]
      BY <1>1, <1>2
    <2>3. Moves(w, [task[w] EXCEPT !.at = "endpoints", !.found = b])
      BY <1>1, <2>1, <2>2, MoveTo
    <2> QED BY <1>1, <1>2, <2>3
  <1>3. CASE ~ext /\ b # 0 /\ task' = [task EXCEPT ![w].at = "deletelb"]
    <2>1. [task[w] EXCEPT !.at = "deletelb"] \in Task
      BY <1>1 DEF Task, Places
    <2> QED BY <1>1, <1>3, <2>1, MoveTo
  <1>4. CASE ~ext /\ b = 0 /\ Return(w)
    BY <1>1, <1>4, MoveTo DEF Return
  <1>5. CASE GiveUp(w)
    BY <1>1, <1>5, MoveTo DEF Return, GiveUp
  <1> QED BY <1>2, <1>3, <1>4, <1>5 DEF GetLoadBalancer

LEMMA DeleteLoadBalancerMoves ==
    ASSUME TypeOK, TaskInv, NEW w \in Workers, DeleteLoadBalancer(w)
    PROVE  /\ task[w].key \in Services /\ Moves(w, Idle)
           /\ \/ lb' = [lb EXCEPT ![task[w].key] = 0] /\ UNCHANGED faultVars
              \/ lb' \in {lb, [lb EXCEPT ![task[w].key] = 0]} /\ Fails
  <1>1. /\ task[w] \in Task /\ task[w].key \in Services /\ Idle \in Task
        /\ task \in [Workers -> Task]
    BY Busy DEF DeleteLoadBalancer, TypeOK
  <1> QED BY <1>1, MoveTo DEF DeleteLoadBalancer, GiveUp, Return

LEMMA GetEndpointHostsMoves ==
    ASSUME TypeOK, TaskInv, NEW w \in Workers, GetEndpointHosts(w)
    PROVE  LET h == eps[task[w].key]
           IN  /\ task[w].key \in Services
               /\ \/ /\ h \notin {0, task[w].found}
                     /\ Moves(w, [task[w] EXCEPT !.at = "writelb", !.hosts = h])
                  \/ h \in {0, task[w].found} /\ Moves(w, Idle)
                  \/ Fails /\ Moves(w, Idle)
  <1> DEFINE h == eps[task[w].key]
  <1>1. /\ task[w] \in Task /\ task[w].key \in Services /\ Idle \in Task
        /\ h \in Hosts /\ task \in [Workers -> Task]
    BY Busy DEF GetEndpointHosts, TypeOK
  <1>2. CASE /\ h \notin {0, task[w].found}
             /\ task' = [task EXCEPT ![w].at = "writelb", ![w].hosts = h]
    <2>1. [task[w] EXCEPT !.at = "writelb", !.hosts = h] \in Task
      BY <1>1 DEF Task, Places
    <2>2. task' = [task EXCEPT ![w] = [task[w] EXCEPT !.at = "writelb", !.hosts = h]]
      BY <1>1, <1>2
    <2>3. Moves(w, [task[w] EXCEPT !.at = "writelb", !.hosts = h])
      BY <1>1, <2>1, <2>2, MoveTo
    <2> QED BY <1>1, <1>2, <2>3
  <1>3. CASE h \in {0, task[w].found} /\ Return(w)
    BY <1>1, <1>3, MoveTo DEF Return
  <1>4. CASE GiveUp(w)
    BY <1>1, <1>4, MoveTo DEF Return, GiveUp
  <1> QED BY <1>2, <1>3, <1>4 DEF GetEndpointHosts

(* The task, and the object in it, once the status is set.                 *)
Marked(w) == [task[w] EXCEPT !.at = "status", !.obj.vip = TRUE]

LEMMA MarkedFacts ==
    ASSUME NEW w \in Workers, task[w] \in Task
    PROVE  /\ Marked(w) \in Task /\ Marked(w).key = task[w].key /\ Marked(w).at = "status"
           /\ Marked(w).obj = [task[w].obj EXCEPT !.vip = TRUE]
           /\ task[w].obj \in Service /\ Marked(w).obj \in Service /\ Marked(w).obj # NoService
  <1>1. task[w].obj \in Service /\ [task[w].obj EXCEPT !.vip = TRUE] \in Service
    BY DEF Task, Service
  <1>2. Marked(w) = [task[w] EXCEPT !.at = "status", !.obj = [task[w].obj EXCEPT !.vip = TRUE]]
    BY DEF Marked, Task
  <1>3. [task[w].obj EXCEPT !.vip = TRUE] # NoService
    <2>1. [task[w].obj EXCEPT !.vip = TRUE].vip /\ ~NoService.vip
      BY <1>1 DEF Service, NoService
    <2> QED BY <2>1
  <1> QED BY <1>1, <1>2, <1>3 DEF Task, Places

LEMMA WriteLoadBalancerMoves ==
    ASSUME TypeOK, TaskInv, NEW w \in Workers, WriteLoadBalancer(w)
    PROVE  LET s == task[w].key
               written == [lb EXCEPT ![s] = task[w].hosts]
           IN  /\ s \in Services /\ task[w] \in Task /\ task[w].hosts \in Hosts
               /\ \/ /\ lb' = written /\ Moves(w, Marked(w))
                     /\ cache' = IF cache[s].rv = task[w].obj.rv
                                THEN [cache EXCEPT ![s].vip = TRUE] ELSE cache
                  \/ s \notin networked /\ lb' = lb /\ cache' = cache /\ Moves(w, Idle)
                  \/ lb' \in {lb, written} /\ cache' = cache /\ Fails /\ Moves(w, Idle)
  <1>1. /\ task[w] \in Task /\ task[w].key \in Services /\ Idle \in Task
        /\ task \in [Workers -> Task] /\ task[w].hosts \in Hosts
    BY Busy DEF WriteLoadBalancer, TypeOK, Task
  <1>2. task' = [task EXCEPT ![w] = Idle] => Moves(w, Idle)
    BY <1>1, MoveTo
  <1>3. SetStatus(w) => Moves(w, Marked(w))
    <2>1. SetStatus(w) => task' = [task EXCEPT ![w] = Marked(w)]
      BY <1>1 DEF SetStatus, Marked
    <2> QED BY <1>1, <2>1, MarkedFacts, MoveTo
  <1> QED BY <1>1, <1>2, <1>3 DEF WriteLoadBalancer, GiveUp, Return, SetStatus

\* The cached object changes in its status only.
LEMMA MarkedCache ==
    ASSUME TypeOK, TaskInv, VersionInv, NEW w \in Workers, WriteLoadBalancer(w)
    PROVE  \A s \in Services :
               /\ cache'[s] \in Service /\ Same(cache[s], cache'[s])
               /\ s # task[w].key => cache'[s] = cache[s]
  <1> DEFINE s == task[w].key
  <1>1. /\ s \in Services /\ task[w] \in Task /\ cache \in [Services -> Service]
        /\ cache' = cache \/ (cache[s].rv = task[w].obj.rv /\ cache' = [cache EXCEPT ![s].vip = TRUE])
    BY WriteLoadBalancerMoves DEF TypeOK
  <1>2. CASE cache' = cache
    BY <1>1, <1>2 DEF Same
  <1>3. CASE cache[s].rv = task[w].obj.rv /\ cache' = [cache EXCEPT ![s].vip = TRUE]
    <2>1. task[w].obj # NoService /\ Known(s, task[w].obj)
      BY <1>1 DEF TaskInv, Looked, VersionInv, WriteLoadBalancer
    <2>2. cache[s].rv # 0
      BY <1>3, <2>1 DEF Known
    <2>3. cache[s] \in Service /\ cache[s] # NoService
      BY <1>1, <2>2 DEF NoService
    <2>4. cache'[s] = [cache[s] EXCEPT !.vip = TRUE]
      BY <1>1, <1>3
    <2>5. /\ cache'[s] \in Service /\ cache'[s].rv = cache[s].rv
          /\ cache'[s].np = cache[s].np /\ cache'[s].sel = cache[s].sel /\ cache'[s].ext = cache[s].ext
      BY <2>3, <2>4 DEF Service
    <2>6. cache'[s] # NoService
      BY <2>2, <2>5 DEF NoService
    <2>7. \A t \in Services : t # s => cache'[t] = cache[t]
      BY <1>1, <1>3
    <2> QED BY <1>1, <2>3, <2>5, <2>6, <2>7 DEF Same
  <1> QED BY <1>1, <1>2, <1>3

LEMMA UpdateStatusMoves ==
    ASSUME TypeOK, TaskInv, NEW w \in Workers, UpdateStatus(w)
    PROVE  LET s == task[w].key
               x == [task[w].obj EXCEPT !.rv = rv + 1]
           IN  /\ s \in Services /\ task[w] \in Task /\ task[w].obj \in Service
               /\ x \in Service /\ x.rv = rv + 1 /\ x # NoService
               /\ \A f \in {"np", "sel", "ext"} : x[f] = task[w].obj[f]
               /\ \/ svc[s] # NoService /\ svc[s].rv = task[w].obj.rv /\ Store(s, x)
                  \/ UNCHANGED <<svc, feed, rv>>
               /\ Moves(w, Idle) \/ (Fails /\ Moves(w, [task[w] EXCEPT !.tries = @ + 1]))
  <1> DEFINE x == [task[w].obj EXCEPT !.rv = rv + 1]
  <1>1. /\ task[w] \in Task /\ task[w].key \in Services /\ Idle \in Task
        /\ task \in [Workers -> Task] /\ rv \in Nat
    BY Busy DEF UpdateStatus, TypeOK
  <1>2. /\ task[w].obj \in Service /\ x \in Service /\ x.rv = rv + 1
        /\ x.np = task[w].obj.np /\ x.sel = task[w].obj.sel /\ x.ext = task[w].obj.ext
    BY <1>1 DEF Task, Service
  <1>3. x # NoService
    BY <1>1, <1>2 DEF NoService
  <1>4. \A f \in {"np", "sel", "ext"} : x[f] = task[w].obj[f]
    BY <1>1, <1>2 DEF Service
  <1>5. Moves(w, Idle) \/ (Fails /\ Moves(w, [task[w] EXCEPT !.tries = @ + 1]))
    <2>1. task' = [task EXCEPT ![w] = Idle] => Moves(w, Idle)
      BY <1>1, MoveTo
    <2>2. CASE Fails /\ task[w].tries + 1 < ClientRetryCount /\ task' = [task EXCEPT ![w].tries = @ + 1]
      <3>1. [task[w] EXCEPT !.tries = @ + 1] \in Task
        BY <1>1, <2>2, ConstantsFit DEF Task
      <3> QED BY <1>1, <2>2, <3>1, MoveTo
    <2> QED BY <2>1, <2>2 DEF UpdateStatus, Return
  <1>6. \/ /\ svc[task[w].key] # NoService /\ svc[task[w].key].rv = task[w].obj.rv
           /\ Store(task[w].key, x)
        \/ UNCHANGED <<svc, feed, rv>>
    BY DEF UpdateStatus
  <1> HIDE DEF x
  <1>7. QED BY <1>1, <1>2, <1>3, <1>4, <1>5, <1>6 DEF x

LEMMA TypeStep == TypeOK /\ TaskInv /\ [Next]_vars => TypeOK'
  <1> SUFFICES ASSUME TypeOK, TaskInv, [Next]_vars PROVE TypeOK'
    OBVIOUS
  <1> USE ConstantsFit
  <1>1. ASSUME NEW s \in Services, NEW np \in BOOLEAN, NEW sel \in BOOLEAN, NEW ext \in BOOLEAN,
               WriteService(s, np, sel, ext)
        PROVE  TypeOK'
    <2>1. [np |-> np, sel |-> sel, ext |-> ext, vip |-> svc[s].vip, rv |-> rv + 1] \in Service
      BY DEF TypeOK, Service
    <2>2. svc' \in [Services -> Service] /\ feed' \in [Services -> Seq(Service)] /\ rv' \in Nat
      BY <1>1, <2>1, StoreType DEF WriteService
    <2> QED BY <1>1, <2>2 DEF WriteService, TypeOK, faultVars
  <1>2. ASSUME NEW s \in Services, RemoveService(s) PROVE TypeOK'
    <2>2. svc' \in [Services -> Service] /\ feed' \in [Services -> Seq(Service)] /\ rv' \in Nat
      BY <1>2, NoServiceType, StoreType DEF RemoveService
    <2> QED BY <1>2, <2>2 DEF RemoveService, TypeOK, faultVars, types
  <1>3. ASSUME NEW s \in Services, NEW h \in Hosts, WriteEndpoints(s, h) PROVE TypeOK'
    BY <1>3 DEF WriteEndpoints, TypeOK, faultVars, types
  <1>4. ASSUME NEW s \in Services, DeliverService(s) PROVE TypeOK'
    <2>1. feed[s] \in Seq(Service) /\ Head(feed[s]) \in Service /\ Tail(feed[s]) \in Seq(Service)
      BY <1>4, TailFacts DEF DeliverService, TypeOK
    <2> QED BY <1>4, <2>1 DEF DeliverService, enqueueService, TypeOK, faultVars, apiVars, types
  <1>5. ASSUME NEW s \in Services, RelistServices(s) PROVE TypeOK'
    BY <1>5 DEF RelistServices, enqueueService, TypeOK, apiVars, types
  <1>6. ASSUME NEW s \in Services, ResyncService(s) PROVE TypeOK'
    BY <1>6 DEF ResyncService, enqueueService, TypeOK, faultVars, apiVars, types, informerVars
  <1>7. ASSUME NEW s \in Services, DeliverEndpoints(s) PROVE TypeOK'
    <2>1. dirty' \subseteq Services /\ failures' \in 0..MaxFailures /\ UNCHANGED <<relists, restarts>>
      BY <1>7 DEF DeliverEndpoints, addEndpoint, enqueueService, Fails, TypeOK, faultVars
    <2> QED BY <1>7, <2>1 DEF DeliverEndpoints, TypeOK, apiVars, types
  <1>8. ASSUME NEW s \in Services, RelistEndpoints(s) PROVE TypeOK'
    BY <1>8 DEF RelistEndpoints, TypeOK, apiVars, types
  <1>9. ASSUME NEW s \in Services, NEW w \in Workers, Get(w, s) PROVE TypeOK'
    BY <1>9 DEF Get, TypeOK, apiVars, types, informerVars, faultVars, Task, Places
  <1>10. CASE startUp
    BY <1>10 DEF startUp, Fails, TypeOK, apiVars, types, informerVars, faultVars
  <1>11. CASE Restart
    <2>1. \A s \in Services : <<>> \in Seq(Service) /\ <<svc[s]>> \in Seq(Service)
      BY DEF TypeOK
    <2>2. 0 \in Hosts
      BY DEF Hosts
    <2>3. /\ cache' \in [Services -> Service] /\ feed' \in [Services -> Seq(Service)]
          /\ epSeen' \in [Services -> Hosts]
      BY <1>11, <2>1, <2>2, NoServiceType DEF Restart, Fresh
    <2>4. epNotice' \in [Services -> BOOLEAN] /\ started' \in BOOLEAN
      BY <1>11 DEF Restart, Fresh
    <2>5. task' \in [Workers -> Task] /\ dirty' \subseteq Services
      BY <1>11, IdleType DEF Restart, Fresh
    <2>6. restarts' \in 0..MaxRestarts
      BY <1>11 DEF Restart, TypeOK
    <2> QED BY <1>11, <2>3, <2>4, <2>5, <2>6 DEF Restart, TypeOK, apiVars, types
  <1>13. ASSUME Fails PROVE failures' \in 0..MaxFailures /\ UNCHANGED <<relists, restarts>>
    BY <1>13 DEF Fails, TypeOK
  <1>14. ASSUME NEW w \in Workers, Lookup(w) PROVE TypeOK'
    <2>1. task' \in [Workers -> Task]
      BY <1>14, LookupMoves DEF Moves
    <2> QED BY <1>14, <2>1 DEF Lookup, TypeOK, apiVars, types, informerVars, faultVars
  <1>15. ASSUME NEW w \in Workers, GetLoadBalancer(w) PROVE TypeOK'
    <2>1. task' \in [Workers -> Task]
      BY <1>15, GetLoadBalancerMoves DEF Moves
    <2>2. failures' \in 0..MaxFailures /\ UNCHANGED <<relists, restarts>>
      BY <1>13, <1>15 DEF GetLoadBalancer, GiveUp, TypeOK, faultVars
    <2> QED BY <1>15, <2>1, <2>2 DEF GetLoadBalancer, TypeOK, apiVars, types, informerVars
  <1>16. ASSUME NEW w \in Workers, DeleteLoadBalancer(w) PROVE TypeOK'
    <2>1. 0 \in Hosts /\ lb \in [Services -> Hosts]
      BY DEF TypeOK, Hosts
    <2>2. task' \in [Workers -> Task] /\ lb' \in [Services -> Hosts]
      BY <1>16, <2>1, DeleteLoadBalancerMoves DEF Moves
    <2>3. failures' \in 0..MaxFailures /\ UNCHANGED <<relists, restarts>>
      BY <1>13, <1>16 DEF DeleteLoadBalancer, GiveUp, TypeOK, faultVars
    <2> QED BY <1>16, <2>2, <2>3 DEF DeleteLoadBalancer, TypeOK, apiVars, types, informerVars
  <1>17. ASSUME NEW w \in Workers, GetEndpointHosts(w) PROVE TypeOK'
    <2>1. task' \in [Workers -> Task]
      BY <1>17, GetEndpointHostsMoves DEF Moves
    <2>2. failures' \in 0..MaxFailures /\ UNCHANGED <<relists, restarts>>
      BY <1>13, <1>17 DEF GetEndpointHosts, GiveUp, TypeOK, faultVars
    <2> QED BY <1>17, <2>1, <2>2 DEF GetEndpointHosts, TypeOK, apiVars, types, informerVars
  <1>19. ASSUME NEW w \in Workers, WriteLoadBalancer(w) PROVE TypeOK'
    <2>1. lb \in [Services -> Hosts]
      BY DEF TypeOK
    <2>2. task' \in [Workers -> Task] /\ lb' \in [Services -> Hosts]
      BY <1>19, <2>1, WriteLoadBalancerMoves DEF Moves
    <2>3. failures' \in 0..MaxFailures /\ UNCHANGED <<relists, restarts>>
      BY <1>13, <1>19 DEF WriteLoadBalancer, GiveUp, TypeOK, faultVars
    <2>4. cache' \in [Services -> Service]
      <3>1. cache \in [Services -> Service] /\ task[w].key \in Services
        BY <1>19, WriteLoadBalancerMoves DEF TypeOK
      <3>2. [cache[task[w].key] EXCEPT !.vip = TRUE] \in Service
        BY <3>1 DEF Service
      <3>3. cache' = cache \/ cache' = [cache EXCEPT ![task[w].key] = [@ EXCEPT !.vip = TRUE]]
        BY <1>19, WriteLoadBalancerMoves
      <3> QED BY <3>1, <3>2, <3>3
    <2> QED BY <1>19, <2>2, <2>3, <2>4 DEF WriteLoadBalancer, TypeOK, apiVars, types
  <1>20. ASSUME NEW w \in Workers, UpdateStatus(w) PROVE TypeOK'
    <2>1. task' \in [Workers -> Task]
      BY <1>20, UpdateStatusMoves DEF Moves
    <2>2. svc' \in [Services -> Service] /\ feed' \in [Services -> Seq(Service)] /\ rv' \in Nat
      BY <1>20, UpdateStatusMoves, StoreType DEF TypeOK
    <2>3. failures' \in 0..MaxFailures /\ UNCHANGED <<relists, restarts>>
      BY <1>13, <1>20 DEF UpdateStatus, TypeOK, faultVars
    <2> QED BY <1>20, <2>1, <2>2, <2>3 DEF UpdateStatus, TypeOK, types
  <1>18. CASE UNCHANGED vars
    BY <1>18 DEF vars, TypeOK, apiVars, types, informerVars, faultVars
  <1> QED
    BY <1>1, <1>2, <1>3, <1>4, <1>5, <1>6, <1>7, <1>8, <1>9, <1>10, <1>11, <1>14,
       <1>15, <1>16, <1>17, <1>18, <1>19, <1>20 DEF Next, SyncService

-----------------------------------------------------------------------------
(* One worker per key, and the load balancer it found.                     *)

LEMMA TaskInit == Init => TaskInv
    BY ConstantsFit DEF Init, TaskInv, Idle, Looked

LEMMA TaskKept ==
    ASSUME TypeOK, TaskInv, NEW w \in Workers, task[w].key \in Services,
           NEW t, Moves(w, t),
           t = Idle \/ (t.key = task[w].key /\ t.at # "get"),
           \A s \in Services : s # task[w].key => lb'[s] = lb[s],
           t.at \in {"endpoints", "writelb"} => lb'[t.key] = t.found,
           t.at \in Looked => t.obj # NoService
    PROVE  TaskInv'
  <1> SUFFICES ASSUME NEW u \in Workers
               PROVE  /\ task'[u].at = "get" => task'[u] = Idle
                      /\ task'[u].at # "get" => task'[u].key \in Services
                      /\ task'[u].at \in {"endpoints", "writelb"} => lb'[task'[u].key] = task'[u].found
                      /\ task'[u].at \in Looked => task'[u].obj # NoService
                      /\ \A v \in Workers : v # u /\ task'[u].key # None => task'[v].key # task'[u].key
    BY DEF TaskInv
  <1>1. \A v \in Workers : task'[v].key \in {None, task[v].key}
    BY DEF Moves, Idle
  <1>2. \A v \in Workers : v # u /\ task'[u].key # None => task'[v].key # task'[u].key
    BY <1>1 DEF TaskInv
  <1>3. CASE u = w
    BY <1>2, <1>3 DEF Moves, Idle
  <1>4. CASE u # w
    <2>1. task'[u] = task[u] /\ (task[u].at # "get" => task[u].key # task[w].key)
      BY <1>4, ConstantsFit DEF Moves, TaskInv
    <2> QED BY <1>2, <2>1 DEF TaskInv
  <1> QED BY <1>3, <1>4

LEMMA TaskStep == TypeOK /\ TaskInv /\ [Next]_vars => TaskInv'
  <1> SUFFICES ASSUME TypeOK, TaskInv, [Next]_vars PROVE TaskInv'
    OBVIOUS
  <1>1. ASSUME UNCHANGED <<task, lb>> PROVE TaskInv'
    BY <1>1 DEF TaskInv
  <1>2. ASSUME NEW s \in Services, NEW w \in Workers, Get(w, s) PROVE TaskInv'
    <2>1. /\ task[w] = Idle /\ lb' = lb
          /\ task'[w].at = "lookup" /\ task'[w].key = s
          /\ \A v \in Workers : v # w => task'[v] = task[v]
          /\ \A v \in Workers : task[v].key # s
      BY <1>2 DEF Get, TypeOK, Task
    <2> QED BY <2>1 DEF TaskInv, Looked
  <1>3. CASE Restart
    BY <1>3 DEF Restart, Fresh, TaskInv, Idle, Looked
  <1>4. ASSUME NEW w \in Workers, Lookup(w) PROVE TaskInv'
    <2>1. lb' = lb /\ task[w].at = "lookup" /\ task[w].key \in Services /\ task[w] \in Task
      BY <1>4, Busy DEF Lookup
    <2>2. PICK t \in {Idle, [task[w] EXCEPT !.at = "deletelb"],
                      [task[w] EXCEPT !.at = "getlb", !.obj = cache[task[w].key]]} :
             Moves(w, t) /\ (t.at = "getlb" => cache[task[w].key] # NoService)
      <3>1. [task[w] EXCEPT !.at = "deletelb"].at # "getlb" /\ Idle.at # "getlb"
        BY <2>1 DEF Task, Idle
      <3> QED BY <1>4, <3>1, LookupMoves, Zenon
    <2>3. /\ t = Idle \/ (t.key = task[w].key /\ t.at # "get")
          /\ t.at \notin {"endpoints", "writelb"}
          /\ t.at \in Looked => t.obj # NoService
      <3>1. CASE t = Idle
        BY <2>1, <3>1 DEF Idle, Looked
      <3>2. CASE t = [task[w] EXCEPT !.at = "getlb", !.obj = cache[task[w].key]]
        BY <2>1, <2>2, <3>2 DEF Task, Looked
      <3>3. CASE t = [task[w] EXCEPT !.at = "deletelb"]
        BY <2>1, <3>3 DEF Task, Looked
      <3> QED BY <2>2, <3>1, <3>2, <3>3
    <2> QED BY <2>1, <2>2, <2>3, TaskKept
  <1>5. ASSUME NEW w \in Workers, GetLoadBalancer(w) PROVE TaskInv'
    <2>1. lb' = lb /\ task[w].at = "getlb" /\ task[w].key \in Services /\ task[w] \in Task
          /\ task[w].obj # NoService
      BY <1>5, Busy DEF GetLoadBalancer, TaskInv, Looked
    <2>2. PICK t \in {Idle, [task[w] EXCEPT !.at = "deletelb"],
                      [task[w] EXCEPT !.at = "endpoints", !.found = lb[task[w].key]]} : Moves(w, t)
      BY <1>5, GetLoadBalancerMoves
    <2>3. /\ t = Idle \/ (t.key = task[w].key /\ t.at # "get")
          /\ t.at \in {"endpoints", "writelb"} => lb'[t.key] = t.found
          /\ t.at \in Looked => t.obj # NoService
      <3>1. CASE t = Idle
        BY <2>1, <3>1 DEF Idle, Looked
      <3>2. CASE t = [task[w] EXCEPT !.at = "endpoints", !.found = lb[task[w].key]]
        BY <2>1, <2>2, <3>2 DEF Task, Looked
      <3>3. CASE t = [task[w] EXCEPT !.at = "deletelb"]
        BY <2>1, <3>3 DEF Task, Looked
      <3> QED BY <2>2, <3>1, <3>2, <3>3
    <2> QED BY <2>1, <2>2, <2>3, TaskKept
  <1>6. ASSUME NEW w \in Workers, DeleteLoadBalancer(w) PROVE TaskInv'
    <2>1. task[w].key \in Services /\ Moves(w, Idle) /\ Idle.at \notin {"endpoints", "writelb"} \cup Looked
      BY <1>6, DeleteLoadBalancerMoves DEF Idle, Looked
    <2>2. \A s \in Services : s # task[w].key => lb'[s] = lb[s]
      BY <1>6, DeleteLoadBalancerMoves DEF TypeOK
    <2> QED BY <2>1, <2>2, TaskKept
  <1>7. ASSUME NEW w \in Workers, GetEndpointHosts(w) PROVE TaskInv'
    <2>1. /\ lb' = lb /\ task[w].at = "endpoints" /\ task[w].key \in Services /\ task[w] \in Task
          /\ lb[task[w].key] = task[w].found /\ task[w].obj # NoService
      BY <1>7, Busy DEF GetEndpointHosts, TaskInv, Looked
    <2>2. PICK t \in {Idle, [task[w] EXCEPT !.at = "writelb", !.hosts = eps[task[w].key]]} : Moves(w, t)
      BY <1>7, GetEndpointHostsMoves
    <2>3. /\ t = Idle \/ (t.key = task[w].key /\ t.at # "get")
          /\ t.at \in {"endpoints", "writelb"} => lb'[t.key] = t.found
          /\ t.at \in Looked => t.obj # NoService
      <3>1. CASE t = Idle
        BY <2>1, <3>1 DEF Idle, Looked
      <3>2. CASE t = [task[w] EXCEPT !.at = "writelb", !.hosts = eps[task[w].key]]
        BY <2>1, <2>2, <3>2 DEF Task, Looked
      <3> QED BY <2>2, <3>1, <3>2
    <2> QED BY <2>1, <2>2, <2>3, TaskKept
  <1>8. ASSUME NEW w \in Workers, WriteLoadBalancer(w) PROVE TaskInv'
    <2>1. task[w].at = "writelb" /\ task[w].key \in Services /\ task[w] \in Task
      BY <1>8, Busy DEF WriteLoadBalancer
    <2>2. \A s \in Services : s # task[w].key => lb'[s] = lb[s]
      BY <1>8, WriteLoadBalancerMoves DEF TypeOK
    <2>3. PICK t \in {Idle, Marked(w)} : Moves(w, t)
      BY <1>8, WriteLoadBalancerMoves
    <2>4. /\ t = Idle \/ (t.key = task[w].key /\ t.at # "get")
          /\ t.at \notin {"endpoints", "writelb"}
          /\ t.at \in Looked => t.obj # NoService
      <3>1. CASE t = Idle
        BY <3>1 DEF Idle, Looked
      <3>2. CASE t = Marked(w)
        BY <2>1, <3>2, MarkedFacts
      <3> QED BY <2>3, <3>1, <3>2
    <2> QED BY <2>1, <2>2, <2>3, <2>4, TaskKept
  <1>9. ASSUME NEW w \in Workers, UpdateStatus(w) PROVE TaskInv'
    <2>1. lb' = lb /\ task[w].at = "status" /\ task[w].key \in Services /\ task[w] \in Task
          /\ task[w].obj # NoService
      BY <1>9, Busy DEF UpdateStatus, TaskInv, Looked
    <2>2. PICK t \in {Idle, [task[w] EXCEPT !.tries = @ + 1]} : Moves(w, t)
      BY <1>9, UpdateStatusMoves
    <2>3. /\ t = Idle \/ (t.key = task[w].key /\ t.at # "get")
          /\ t.at \notin {"endpoints", "writelb"}
          /\ t.at \in Looked => t.obj # NoService
      BY <2>1, <2>2 DEF Task, Idle, Looked
    <2> QED BY <2>1, <2>2, <2>3, TaskKept
  <1> QED
    BY <1>1, <1>2, <1>3, <1>4, <1>5, <1>6, <1>7, <1>8, <1>9
    DEF Next, SyncService, WriteService, RemoveService, WriteEndpoints, DeliverService,
        RelistServices, ResyncService, DeliverEndpoints, RelistEndpoints, startUp, vars

(* A worker that found no load balancer still finds none when it creates   *)
(* one, and any other finds the one it compared with (syncService,         *)
(* createLoadBalancer).                                                    *)
THEOREM CreatesAreOfAbsent == Spec => []CreatesOnlyAbsent
  <1>1. Init => TypeOK /\ TaskInv
    BY TypeInit, TaskInit
  <1>2. TypeOK /\ TaskInv /\ [Next]_vars => TypeOK' /\ TaskInv'
    BY TypeStep, TaskStep
  <1>3. TaskInv => CreatesOnlyAbsent
    BY DEF TaskInv, CreatesOnlyAbsent
  <1> QED BY <1>1, <1>2, <1>3, PTL DEF Spec

-----------------------------------------------------------------------------
(* The copies of a service that the informer and the workers have.         *)

LEMMA VersionInit == Init => VersionInv /\ FeedInv
  <1> SUFFICES ASSUME Init PROVE VersionInv /\ FeedInv
    OBVIOUS
  <1>1. \A s \in Services : svc[s] = NoService /\ cache[s] = NoService /\ feed[s] = <<>>
    BY DEF Init
  <1>2. \A s \in Services : Len(feed[s]) = 0
    BY <1>1
  <1>3. \A w \in Workers : task[w].key \notin Services
    BY ConstantsFit DEF Init, Idle
  <1> QED BY <1>1, <1>2, <1>3 DEF VersionInv, FeedInv, Known, Same

\* A write keeps what is known of earlier versions, and its version is known.
LEMMA KnownStays ==
    ASSUME TypeOK, NEW s \in Services, NEW x \in Service, Store(s, x),
           x = NoService \/ x.rv = rv + 1
    PROVE  /\ \A t \in Services, y \in Service : Known(t, y) => Known(t, y)'
           /\ Known(s, x)'
  <1>1. rv \in Nat /\ rv' = rv + 1 /\ svc' = [svc EXCEPT ![s] = x] /\ svc \in [Services -> Service]
    BY DEF Store, TypeOK
  <1>2. ASSUME NEW t \in Services, NEW y \in Service, Known(t, y) PROVE Known(t, y)'
    <2>1. y.rv \in Nat /\ x.rv \in Nat /\ NoService.rv = 0
      BY DEF Service, NoService
    <2>2. CASE t = s
      <3>1. svc'[t] = x
        BY <1>1, <2>2
      <3> QED BY <1>1, <1>2, <2>1, <3>1 DEF Known, Same
    <2>3. CASE t # s
      <3>1. svc'[t] = svc[t]
        BY <1>1, <2>3
      <3> QED BY <1>1, <1>2, <2>1, <3>1 DEF Known
    <2> QED BY <2>2, <2>3
  <1>3. Known(s, x)'
    BY <1>1 DEF Known, Service, Same
  <1> QED BY <1>2, <1>3

(* A write of the service s keeps the copies known and is the newest event.*)
LEMMA VersionStore ==
    ASSUME TypeOK, VersionInv, FeedInv, NEW s \in Services, NEW x \in Service, Store(s, x),
           x = NoService \/ x.rv = rv + 1, cache' = cache,
           \A w \in Workers : task'[w].key \in Services =>
               task'[w].key = task[w].key /\ task'[w].obj = task[w].obj
    PROVE  VersionInv' /\ FeedInv'
  <1>1. /\ \A t \in Services, y \in Service : Known(t, y) => Known(t, y)'
        /\ Known(s, x)'
    BY KnownStays
  <1>2. /\ svc' = [svc EXCEPT ![s] = x] /\ feed' = [feed EXCEPT ![s] = Append(feed[s], x)]
        /\ svc \in [Services -> Service] /\ cache \in [Services -> Service]
        /\ feed \in [Services -> Seq(Service)] /\ task \in [Workers -> Task]
    BY DEF Store, TypeOK
  <1>3. ASSUME NEW t \in Services
        PROVE  /\ Known(t, svc[t])' /\ Known(t, cache[t])'
               /\ \A i \in 1..Len(feed'[t]) : Known(t, feed[t][i])'
               /\ (IF feed[t] = <<>> THEN Same(svc[t], cache[t]) ELSE svc[t] = feed[t][Len(feed[t])])'
    <2>1. Known(t, cache[t]) /\ Known(t, svc[t]) /\ \A i \in 1..Len(feed[t]) : Known(t, feed[t][i])
      BY DEF VersionInv
    <2>2. svc[t] \in Service /\ cache[t] \in Service /\ feed[t] \in Seq(Service)
      BY <1>2
    <2>3. Known(t, cache[t])'
      BY <1>1, <2>1, <2>2 DEF Known
    <2>4. \A i \in 1..Len(feed[t]) : feed[t][i] \in Service
      BY <2>2
    <2>5. CASE t = s
      <3>1. svc'[t] = x /\ feed'[t] = Append(feed[s], x)
        BY <1>2, <2>5
      <3>2. /\ feed'[t] # <<>> /\ Len(feed'[t]) = Len(feed[s]) + 1 /\ Len(feed[s]) \in Nat
            /\ feed'[t][Len(feed[s]) + 1] = x
            /\ \A i \in 1..Len(feed[s]) : feed'[t][i] = feed[s][i]
        BY <2>2, <2>5, <3>1, AppendFacts
      <3>3. Known(t, svc[t])'
        BY <1>1, <2>5, <3>1 DEF Known
      <3>4. ASSUME NEW i \in 1..Len(feed'[t]) PROVE Known(t, feed[t][i])'
        <4>1. CASE i = Len(feed[s]) + 1
          BY <1>1, <2>5, <3>2, <4>1 DEF Known
        <4>2. CASE i # Len(feed[s]) + 1
          <5>1. i \in 1..Len(feed[t]) /\ feed'[t][i] = feed[t][i]
            BY <2>5, <3>2, <4>2
          <5> QED BY <1>1, <2>1, <2>4, <5>1 DEF Known
        <4> QED BY <4>1, <4>2
      <3> QED BY <2>3, <3>1, <3>2, <3>3, <3>4
    <2>6. CASE t # s
      <3>1. svc'[t] = svc[t] /\ feed'[t] = feed[t]
        BY <1>2, <2>6
      <3>2. Known(t, svc[t])'
        BY <1>1, <2>1, <2>2, <3>1 DEF Known
      <3>3. \A i \in 1..Len(feed'[t]) : Known(t, feed[t][i])'
        BY <1>1, <2>1, <2>4, <3>1 DEF Known
      <3>4. (IF feed[t] = <<>> THEN Same(svc[t], cache[t]) ELSE svc[t] = feed[t][Len(feed[t])])'
        BY <3>1 DEF FeedInv
      <3> QED BY <2>3, <3>2, <3>3, <3>4
    <2> QED BY <2>5, <2>6
  <1>4. ASSUME NEW w \in Workers, task'[w].key \in Services PROVE Known(task[w].key, task[w].obj)'
    <2>1. task[w].key \in Services /\ Known(task[w].key, task[w].obj) /\ task[w].obj \in Service
          /\ task'[w].key = task[w].key /\ task'[w].obj = task[w].obj
      BY <1>2, <1>4 DEF VersionInv, Task
    <2> QED BY <1>1, <2>1 DEF Known
  <1> QED BY <1>3, <1>4 DEF VersionInv, FeedInv

(* Any other step changes no version, though the counter may grow, and     *)
(* hands on copies that are known.                                         *)
LEMMA VersionCopies ==
    ASSUME TypeOK, VersionInv, svc' = svc, rv' \in {rv, rv + 1},
           \A s \in Services :
               /\ cache'[s] \in Service /\ Known(s, cache'[s])
               /\ \A i \in 1..Len(feed'[s]) : feed'[s][i] \in Service /\ Known(s, feed'[s][i]),
           \A w \in Workers : task'[w].key \in Services =>
               task'[w].obj \in Service /\ Known(task'[w].key, task'[w].obj)
    PROVE  VersionInv'
  <1>1. \A t \in Services, y \in Service : Known(t, y) => Known(t, y)'
    BY DEF Known, TypeOK, Service
  <1>2. ASSUME NEW s \in Services
        PROVE  /\ Known(s, svc[s])' /\ Known(s, cache[s])'
               /\ \A i \in 1..Len(feed'[s]) : Known(s, feed[s][i])'
    <2>1. svc[s] \in Service /\ svc'[s] = svc[s] /\ Known(s, svc[s])
      BY DEF TypeOK, VersionInv
    <2>2. Known(s, svc[s])'
      BY <1>1, <2>1 DEF Known
    <2>3. Known(s, cache[s])'
      BY <1>1 DEF Known
    <2>4. \A i \in 1..Len(feed'[s]) : Known(s, feed[s][i])'
      BY <1>1 DEF Known
    <2> QED BY <2>2, <2>3, <2>4
  <1>3. ASSUME NEW w \in Workers, task'[w].key \in Services PROVE Known(task[w].key, task[w].obj)'
    BY <1>1, <1>3 DEF Known
  <1> QED BY <1>2, <1>3 DEF VersionInv

LEMMA VersionIdle ==
    ASSUME TypeOK, VersionInv, FeedInv, svc' = svc, rv' \in {rv, rv + 1}, UNCHANGED <<cache, feed>>,
           \A w \in Workers : task'[w].key \in Services =>
               task'[w].obj \in Service /\ Known(task'[w].key, task'[w].obj)
    PROVE  VersionInv' /\ FeedInv'
  <1>1. \A s \in Services :
          /\ cache'[s] \in Service /\ Known(s, cache'[s])
          /\ \A i \in 1..Len(feed'[s]) : feed'[s][i] \in Service /\ Known(s, feed'[s][i])
    BY DEF VersionInv, TypeOK
  <1>2. VersionInv'
    BY <1>1, VersionCopies
  <1> QED BY <1>2 DEF FeedInv

\* A step of the workers leaves the versions alone.
LEMMA VersionTasks ==
    ASSUME TypeOK, VersionInv, task' = task
    PROVE  \A w \in Workers : task'[w].key \in Services =>
               task'[w].obj \in Service /\ Known(task'[w].key, task'[w].obj)
    BY DEF VersionInv, TypeOK, Task

\* A worker that keeps its key, with a version that is known, or drops it.
LEMMA VersionMoves ==
    ASSUME TypeOK, VersionInv, NEW w \in Workers, NEW t, Moves(w, t),
           t = Idle \/ (t.key = task[w].key /\ Known(t.key, t.obj))
    PROVE  \A v \in Workers : task'[v].key \in Services =>
               task'[v].obj \in Service /\ Known(task'[v].key, task'[v].obj)
  <1> SUFFICES ASSUME NEW v \in Workers, task'[v].key \in Services
               PROVE  task'[v].obj \in Service /\ Known(task'[v].key, task'[v].obj)
    OBVIOUS
  <1>1. task'[v] \in Task
    BY DEF Moves
  <1>2. CASE v = w
    BY <1>1, <1>2, ConstantsFit DEF Moves, Task, Idle
  <1>3. CASE v # w
    BY <1>1, <1>3 DEF Moves, Task, VersionInv
  <1> QED BY <1>2, <1>3

\* An event hands a written version to the store.
LEMMA VersionDeliver ==
    ASSUME TypeOK, VersionInv, FeedInv, NEW s \in Services, DeliverService(s)
    PROVE  VersionInv' /\ FeedInv'
  <1>1. /\ feed[s] # <<>> /\ feed \in [Services -> Seq(Service)] /\ cache \in [Services -> Service]
        /\ cache' = [cache EXCEPT ![s] = Head(feed[s])] /\ feed' = [feed EXCEPT ![s] = Tail(feed[s])]
        /\ UNCHANGED <<svc, rv, task>>
    BY DEF DeliverService, TypeOK, apiVars
  <1> DEFINE q == feed[s]
  <1>2. /\ Head(q) = q[1] /\ Head(q) \in Service
        /\ Tail(q) \in Seq(Service) /\ Len(q) \in Nat \ {0}
        /\ Len(Tail(q)) = Len(q) - 1
        /\ \A i \in 1..Len(Tail(q)) : Tail(q)[i] = q[i + 1]
        /\ Tail(q) = <<>> <=> Len(q) = 1
    BY <1>1, TailFacts
  <1>3. ASSUME NEW t \in Services
        PROVE  /\ cache'[t] \in Service /\ Known(t, cache'[t])
               /\ \A i \in 1..Len(feed'[t]) : feed'[t][i] \in Service /\ Known(t, feed'[t][i])
               /\ IF feed'[t] = <<>> THEN Same(svc'[t], cache'[t]) ELSE svc'[t] = feed'[t][Len(feed'[t])]
    <2>1. CASE t # s
      BY <1>1, <2>1 DEF VersionInv, FeedInv
    <2>2. CASE t = s
      <3>1. cache'[t] = q[1] /\ feed'[t] = Tail(q) /\ svc'[t] = q[Len(q)]
        BY <1>1, <1>2, <2>2 DEF FeedInv
      <3>2. \A i \in 1..Len(q) : q[i] \in Service /\ Known(s, q[i])
        BY <1>1 DEF VersionInv
      <3>3. IF feed'[t] = <<>> THEN Same(svc'[t], cache'[t]) ELSE svc'[t] = feed'[t][Len(feed'[t])]
        <4>1. CASE Len(q) = 1
          BY <1>2, <3>1, <4>1 DEF Same
        <4>2. CASE Len(q) # 1
          <5>1. Len(q) - 1 \in 1..Len(Tail(q)) /\ (Len(q) - 1) + 1 = Len(q)
            BY <1>2, <4>2
          <5>2. Tail(q)[Len(Tail(q))] = q[Len(q)]
            BY <1>2, <5>1
          <5> QED BY <1>2, <3>1, <4>2, <5>2
        <4> QED BY <4>1, <4>2
      <3>4. \A i \in 1..Len(feed'[t]) : feed'[t][i] \in Service /\ Known(t, feed'[t][i])
        BY <1>2, <2>2, <3>1, <3>2
      <3>5. cache'[t] \in Service /\ Known(t, cache'[t])
        BY <1>2, <2>2, <3>1, <3>2
      <3> QED BY <3>3, <3>4, <3>5
    <2> QED BY <2>1, <2>2
  <1>4. VersionInv'
    BY <1>1, <1>3, VersionTasks, VersionCopies
  <1> QED BY <1>3, <1>4 DEF FeedInv

\* A relist brings the store to the collection of the server.
LEMMA VersionRelist ==
    ASSUME TypeOK, VersionInv, FeedInv, NEW s \in Services, RelistServices(s)
    PROVE  VersionInv' /\ FeedInv'
  <1>1. /\ feed \in [Services -> Seq(Service)] /\ cache \in [Services -> Service]
        /\ svc \in [Services -> Service]
        /\ cache' = [cache EXCEPT ![s] = svc[s]] /\ feed' = [feed EXCEPT ![s] = <<>>]
        /\ UNCHANGED <<svc, rv, task>>
    BY DEF RelistServices, TypeOK, apiVars
  <1>2. ASSUME NEW t \in Services
        PROVE  /\ cache'[t] \in Service /\ Known(t, cache'[t])
               /\ \A i \in 1..Len(feed'[t]) : feed'[t][i] \in Service /\ Known(t, feed'[t][i])
               /\ IF feed'[t] = <<>> THEN Same(svc'[t], cache'[t]) ELSE svc'[t] = feed'[t][Len(feed'[t])]
    <2>1. CASE t # s
      BY <1>1, <2>1 DEF VersionInv, FeedInv
    <2>2. CASE t = s
      <3>1. cache'[t] = svc[t] /\ feed'[t] = <<>> /\ Len(feed'[t]) = 0 /\ svc'[t] = svc[t]
        BY <1>1, <2>2
      <3> QED BY <1>1, <3>1 DEF VersionInv, Same
    <2> QED BY <2>1, <2>2
  <1>3. VersionInv'
    BY <1>1, <1>2, VersionTasks, VersionCopies
  <1> QED BY <1>2, <1>3 DEF FeedInv

\* A restarted controller starts from the collection of the server.
LEMMA VersionRestart ==
    ASSUME TypeOK, VersionInv, FeedInv, Restart
    PROVE  VersionInv' /\ FeedInv'
  <1>1. /\ svc \in [Services -> Service] /\ UNCHANGED <<svc, rv>>
        /\ \A w \in Workers : task'[w].key \notin Services
    BY ConstantsFit DEF Restart, Fresh, TypeOK, apiVars, Idle
  <1>2. ASSUME NEW t \in Services
        PROVE  /\ cache'[t] \in Service /\ Known(t, cache'[t])
               /\ \A i \in 1..Len(feed'[t]) : feed'[t][i] \in Service /\ Known(t, feed'[t][i])
               /\ IF feed'[t] = <<>> THEN Same(svc'[t], cache'[t]) ELSE svc'[t] = feed'[t][Len(feed'[t])]
    <2>1. /\ cache'[t] = NoService
          /\ feed'[t] = IF svc[t] = NoService THEN <<>> ELSE <<svc[t]>>
      BY DEF Restart, Fresh
    <2>2. Known(t, svc[t]) /\ Known(t, NoService) /\ svc[t] \in Service
      BY <1>1 DEF VersionInv, Known
    <2>3. CASE svc[t] = NoService
      <3>1. feed'[t] = <<>> /\ Len(feed'[t]) = 0
        BY <2>1, <2>3
      <3> QED BY <1>1, <2>1, <2>2, <2>3, <3>1, NoServiceType DEF Same
    <2>4. CASE svc[t] # NoService
      <3>1. feed'[t] = <<svc[t]>> /\ Len(feed'[t]) = 1 /\ feed'[t] # <<>> /\ feed'[t][1] = svc[t]
        BY <2>1, <2>4
      <3> QED BY <1>1, <2>1, <2>2, <3>1, NoServiceType
    <2> QED BY <2>3, <2>4
  <1>3. VersionInv'
    BY <1>1, <1>2, VersionCopies
  <1> QED BY <1>2, <1>3 DEF FeedInv

(* A worker's own steps: what it hands on is what it had or the cache has. *)
LEMMA VersionWorker ==
    ASSUME TypeOK, TaskInv, VersionInv, FeedInv, NEW w \in Workers, SyncService(w)
    PROVE  VersionInv' /\ FeedInv'
  <1>1. task[w].at # "get" /\ task[w] \in Task /\ task[w].key \in Services
        /\ task[w].obj \in Service /\ Known(task[w].key, task[w].obj)
    <2>1. task[w].at # "get"
      BY DEF SyncService, Lookup, GetLoadBalancer, DeleteLoadBalancer, GetEndpointHosts,
             WriteLoadBalancer, UpdateStatus
    <2>2. task[w] \in Task /\ task[w].key \in Services
      BY <2>1, Busy
    <2> QED BY <2>1, <2>2 DEF VersionInv, Task
  <1>2. ASSUME NEW t, Moves(w, t), t = Idle \/ (t.key = task[w].key /\ t.obj = task[w].obj),
               UNCHANGED <<svc, rv, cache, feed>>
        PROVE  VersionInv' /\ FeedInv'
    <2>1. t = Idle \/ (t.key = task[w].key /\ Known(t.key, t.obj))
      BY <1>1, <1>2
    <2>2. \A v \in Workers : task'[v].key \in Services =>
               task'[v].obj \in Service /\ Known(task'[v].key, task'[v].obj)
      BY <1>2, <2>1, VersionMoves
    <2> QED BY <1>2, <2>2, VersionIdle
  <1>3. CASE Lookup(w)
    <2>1. UNCHANGED <<svc, rv, cache, feed>>
      BY <1>3 DEF Lookup, apiVars, informerVars
    <2>2. CASE Moves(w, Idle)
      BY <1>2, <2>1, <2>2
    <2>3. CASE Moves(w, [task[w] EXCEPT !.at = "deletelb"])
      BY <1>1, <1>2, <2>1, <2>3 DEF Task
    <2>4. CASE Moves(w, [task[w] EXCEPT !.at = "getlb", !.obj = cache[task[w].key]])
      <3> DEFINE t == [task[w] EXCEPT !.at = "getlb", !.obj = cache[task[w].key]]
      <3>1. t.key = task[w].key /\ Known(t.key, t.obj)
        <4>1. t.key = task[w].key /\ t.obj = cache[task[w].key]
          BY <1>1 DEF Task
        <4> QED BY <1>1, <4>1 DEF VersionInv
      <3> HIDE DEF t
      <3>2. Moves(w, t)
        BY <2>4 DEF t
      <3>3. \A v \in Workers : task'[v].key \in Services =>
               task'[v].obj \in Service /\ Known(task'[v].key, task'[v].obj)
        BY <3>1, <3>2, VersionMoves
      <3> QED BY <2>1, <3>3, VersionIdle
    <2> QED BY <1>3, <2>2, <2>3, <2>4, LookupMoves
  <1>4. CASE GetLoadBalancer(w)
    <2>1. UNCHANGED <<svc, rv, cache, feed>>
      BY <1>4 DEF GetLoadBalancer, apiVars, informerVars
    <2>2. CASE Moves(w, Idle)
      BY <1>2, <2>1, <2>2
    <2>3. CASE Moves(w, [task[w] EXCEPT !.at = "deletelb"])
      BY <1>1, <1>2, <2>1, <2>3 DEF Task
    <2>4. CASE Moves(w, [task[w] EXCEPT !.at = "endpoints", !.found = lb[task[w].key]])
      BY <1>1, <1>2, <2>1, <2>4 DEF Task
    <2> QED BY <1>4, <2>2, <2>3, <2>4, GetLoadBalancerMoves
  <1>5. CASE DeleteLoadBalancer(w)
    <2>1. UNCHANGED <<svc, rv, cache, feed>>
      BY <1>5 DEF DeleteLoadBalancer, apiVars, informerVars
    <2> QED BY <1>2, <1>5, <2>1, DeleteLoadBalancerMoves
  <1>6. CASE GetEndpointHosts(w)
    <2>1. UNCHANGED <<svc, rv, cache, feed>>
      BY <1>6 DEF GetEndpointHosts, apiVars, informerVars
    <2>2. CASE Moves(w, Idle)
      BY <1>2, <2>1, <2>2
    <2>3. CASE Moves(w, [task[w] EXCEPT !.at = "writelb", !.hosts = eps[task[w].key]])
      BY <1>1, <1>2, <2>1, <2>3 DEF Task
    <2> QED BY <1>6, <2>2, <2>3, GetEndpointHostsMoves
  <1>7. CASE WriteLoadBalancer(w)
    <2>1. UNCHANGED <<svc, rv, feed>>
      BY <1>7 DEF WriteLoadBalancer, apiVars
    <2>2. \A s \in Services : cache'[s] \in Service /\ Same(cache[s], cache'[s])
      BY <1>7, MarkedCache
    <2>3. \A s \in Services : Known(s, cache'[s])
      BY <2>2 DEF VersionInv, Known, Same
    <2>4. \A s \in Services : \A i \in 1..Len(feed'[s]) :
             feed'[s][i] \in Service /\ Known(s, feed'[s][i])
      BY <2>1 DEF VersionInv, TypeOK
    <2>5. \A v \in Workers : task'[v].key \in Services =>
             task'[v].obj \in Service /\ Known(task'[v].key, task'[v].obj)
      <3>1. CASE Moves(w, Idle)
        BY <3>1, VersionMoves
      <3>2. CASE Moves(w, Marked(w))
        <4>1. task[w].obj # NoService
          BY <1>7 DEF WriteLoadBalancer, TaskInv, Looked
        <4>2. /\ Marked(w).obj.rv = task[w].obj.rv /\ Marked(w).obj.np = task[w].obj.np
              /\ Marked(w).obj.sel = task[w].obj.sel /\ Marked(w).obj.ext = task[w].obj.ext
              /\ Marked(w).obj # NoService /\ Marked(w).key = task[w].key
          BY <1>1, MarkedFacts DEF Service
        <4>3. Known(Marked(w).key, Marked(w).obj)
          BY <1>1, <4>1, <4>2 DEF Known, Same
        <4> QED BY <3>2, <4>2, <4>3, VersionMoves
      <3> QED BY <1>7, <3>1, <3>2, WriteLoadBalancerMoves
    <2>6. VersionInv'
      BY <2>1, <2>2, <2>3, <2>4, <2>5, VersionCopies
    <2>7. FeedInv'
      BY <2>1, <2>2 DEF FeedInv, Same
    <2> QED BY <2>6, <2>7
  <1>8. CASE UpdateStatus(w)
    <2> DEFINE x == [task[w].obj EXCEPT !.rv = rv + 1]
    <2>1. cache' = cache
      BY <1>8 DEF UpdateStatus
    <2>2. PICK t : Moves(w, t) /\ (t = Idle \/ (t.key = task[w].key /\ t.obj = task[w].obj))
      <3>1. /\ [task[w] EXCEPT !.tries = @ + 1].key = task[w].key
            /\ [task[w] EXCEPT !.tries = @ + 1].obj = task[w].obj
        BY <1>1 DEF Task
      <3> QED BY <1>8, <3>1, UpdateStatusMoves, Zenon
    <2>3. CASE Store(task[w].key, x)
      <3>1. x \in Service /\ x.rv = rv + 1
        BY <1>8, UpdateStatusMoves
      <3>2. \A v \in Workers : task'[v].key \in Services =>
               task'[v].key = task[v].key /\ task'[v].obj = task[v].obj
        BY <2>2, ConstantsFit DEF Moves, Idle
      <3> HIDE DEF x
      <3> QED BY <1>1, <2>1, <2>3, <3>1, <3>2, VersionStore
    <2>4. CASE UNCHANGED <<svc, feed, rv>>
      BY <1>2, <2>1, <2>2, <2>4
    <2> QED BY <1>8, <2>3, <2>4, UpdateStatusMoves
  <1> QED BY <1>3, <1>4, <1>5, <1>6, <1>7, <1>8 DEF SyncService

\* Every step keeps the stores and the tasks at versions that were written.
LEMMA VersionStep ==
    TypeOK /\ TaskInv /\ VersionInv /\ FeedInv /\ [Next]_vars => VersionInv' /\ FeedInv'
  <1> SUFFICES ASSUME TypeOK, TaskInv, VersionInv, FeedInv, [Next]_vars
               PROVE  VersionInv' /\ FeedInv'
    OBVIOUS
  <1>1. ASSUME svc' = svc, rv' \in {rv, rv + 1}, UNCHANGED <<cache, feed, task>>
        PROVE  VersionInv' /\ FeedInv'
    BY <1>1, VersionTasks, VersionIdle
  <1>2. ASSUME NEW s \in Services, NEW np \in BOOLEAN, NEW sel \in BOOLEAN, NEW ext \in BOOLEAN,
               WriteService(s, np, sel, ext)
        PROVE  VersionInv' /\ FeedInv'
    <2> DEFINE x == [np |-> np, sel |-> sel, ext |-> ext, vip |-> svc[s].vip, rv |-> rv + 1]
    <2>1. x \in Service /\ x.rv = rv + 1
      BY DEF TypeOK, Service
    <2> HIDE DEF x
    <2>2. Store(s, x) /\ UNCHANGED <<cache, task>>
      BY <1>2 DEF WriteService, x
    <2> QED BY <2>1, <2>2, VersionStore
  <1>3. ASSUME NEW s \in Services, RemoveService(s) PROVE VersionInv' /\ FeedInv'
    BY <1>3, NoServiceType, VersionStore DEF RemoveService
  <1>4. ASSUME NEW s \in Services, NEW w \in Workers, Get(w, s) PROVE VersionInv' /\ FeedInv'
    <2>1. /\ UNCHANGED <<svc, rv, cache, feed>> /\ task'[w].obj = NoService
          /\ \A v \in Workers : v # w => task'[v] = task[v]
      BY <1>4 DEF Get, apiVars, informerVars, TypeOK, Idle, Task
    <2>2. \A v \in Workers : task'[v].key \in Services =>
               task'[v].obj \in Service /\ Known(task'[v].key, task'[v].obj)
      BY <2>1, NoServiceType DEF Known, VersionInv, TypeOK, Task
    <2> QED BY <2>1, <2>2, VersionIdle
  <1> QED
    BY <1>1, <1>2, <1>3, <1>4, VersionDeliver, VersionRelist, VersionRestart, VersionWorker
    DEF Next, WriteEndpoints, ResyncService, DeliverEndpoints, RelistEndpoints, startUp, vars,
        apiVars, informerVars

StateInv == TypeOK /\ TaskInv /\ VersionInv /\ FeedInv

LEMMA StateInvHolds == Spec => []StateInv
  <1>1. Init => StateInv
    BY TypeInit, TaskInit, VersionInit DEF StateInv
  <1>2. StateInv /\ [Next]_vars => StateInv'
    BY TypeStep, TaskStep, VersionStep DEF StateInv
  <1> QED BY <1>1, <1>2, PTL DEF Spec

(* Type correctness of server, provider, informers, queue and workers.     *)
THEOREM TypeCorrect == Spec => []TypeOK
  <1>1. StateInv => TypeOK
    BY DEF StateInv
  <1> QED BY <1>1, StateInvHolds, PTL

(* A status write (updateService) leaves a user's changes alone: it takes  *)
(* effect only on the version the worker looked up, however many remote    *)
(* calls, retries and writes of others came in between.                    *)
THEOREM StatusWritesKeepSpec == Spec => StatusKeepsSpec
  <1>1. ASSUME StateInv, [Next]_vars, NEW w \in Workers, task[w].at = "status", task'[w] # task[w],
               NEW f \in {"np", "sel", "ext"}
        PROVE  svc'[task[w].key][f] = svc[task[w].key][f]
    <2>1. CASE svc' = svc
      BY <2>1
    <2>2. CASE UpdateStatus(w)
      <3> DEFINE s == task[w].key
                 x == [task[w].obj EXCEPT !.rv = rv + 1]
      <3>1. CASE svc[s] # NoService /\ svc[s].rv = task[w].obj.rv /\ Store(s, x)
        <4>1. /\ s \in Services /\ task[w].obj # NoService /\ x[f] = task[w].obj[f]
              /\ Known(s, task[w].obj)
          BY <1>1, <2>2, UpdateStatusMoves DEF StateInv, TaskInv, Looked, VersionInv
        <4>2. task[w].obj[f] = svc[s][f]
          BY <1>1, <3>1, <4>1 DEF Known, Same
        <4>3. svc'[s] = x
          BY <1>1, <3>1, <4>1 DEF Store, StateInv, TypeOK
        <4> QED BY <4>1, <4>2, <4>3
      <3>2. CASE svc' = svc
        BY <3>2
      <3> QED BY <1>1, <2>2, <3>1, <3>2, UpdateStatusMoves DEF StateInv
    <2>4. ASSUME NEW v \in Workers, v # w, UpdateStatus(v) PROVE task'[w] = task[w]
      BY <1>1, <2>4, UpdateStatusMoves DEF StateInv, Moves
    <2> QED
      BY <1>1, <2>1, <2>2, <2>4
      DEF Next, SyncService, WriteService, RemoveService, WriteEndpoints, DeliverService,
          RelistServices, ResyncService, DeliverEndpoints, RelistEndpoints, startUp, Restart, Get,
          Lookup, GetLoadBalancer, DeleteLoadBalancer, GetEndpointHosts, WriteLoadBalancer, vars,
          apiVars
  <1>2. StateInv /\ [Next]_vars =>
          [\A w \in Workers : task[w].at = "status" /\ task'[w] # task[w] =>
              LET s == task[w].key
              IN  \A f \in {"np", "sel", "ext"} : svc'[s][f] = svc[s][f]]_vars
    BY <1>1
  <1> QED BY <1>2, StateInvHolds, PTL DEF Spec, StatusKeepsSpec

-----------------------------------------------------------------------------
(* Nothing is forgotten.                                                   *)

LEMMA WorkInit == Init => WorkInv
  <1> SUFFICES ASSUME Init, NEW s \in Services PROVE ServiceInv(s)
    BY DEF WorkInv
  <1>1. /\ svc[s] = NoService /\ cache[s] = NoService /\ feed[s] = <<>> /\ Len(feed[s]) = 0
        /\ lb[s] = 0 /\ eps[s] = 0 /\ dirty = {} /\ wasNP = {}
        /\ \A w \in Workers : task[w].key # s
    BY ConstantsFit DEF Init, Idle
  <1>2. ~NoService.np /\ ~NoService.ext
    BY DEF NoService
  <1> QED BY <1>1, <1>2 DEF ServiceInv, Covered, Untouched, Reported, Cleared, Right, Managed

(* A step of others, or one that only puts the key of s into the queue.    *)
LEMMA WorkFrame ==
    ASSUME NEW s \in Services, ServiceInv(s),
           /\ svc'[s] = svc[s] /\ eps'[s] = eps[s] /\ lb'[s] = lb[s] /\ networked' = networked
           /\ cache'[s] = cache[s] /\ feed'[s] = feed[s],
           s \in wasNP' <=> s \in wasNP, s \in switched' <=> s \in switched,
           s \in dirty => s \in dirty',
           s \in dirty' => s \in dirty \/ s \in wasNP,
           epNotice[s] /\ ~epNotice'[s] /\ Managed(s) => s \in dirty',
           \A w \in Workers : task'[w].key = s <=> task[w].key = s,
           \A w \in Workers : task[w].key = s => task'[w] = task[w]
    PROVE  ServiceInv(s)'
  <1>1. Covered(s)'
    BY DEF ServiceInv, Covered, OnCourse, Right, Managed
  <1>2. Untouched(s)'
    BY DEF ServiceInv, Untouched
  <1>3. Reported(s)'
    BY DEF ServiceInv, Reported, BeforeLast
  <1>4. Cleared(s)'
    BY DEF ServiceInv, Cleared
  <1> QED BY <1>1, <1>2, <1>3, <1>4 DEF ServiceInv

(* A write of s: its event is now on its way.                              *)
LEMMA WorkStore ==
    ASSUME StateInv, NEW s \in Services, ServiceInv(s), NEW x \in Service, Store(s, x),
           lb'[s] = lb[s], cache'[s] = cache[s], s \in dirty' => s \in dirty,
           \A w \in Workers : task'[w].key = s => task[w].key = s,
           s \in wasNP => s \in wasNP',
           s \notin wasNP' => ~x.np,
           s \in wasNP' /\ s \notin switched' =>
               (x # NoService => x.np) /\ (x = NoService => svc[s].np)
    PROVE  ServiceInv(s)'
  <1>1. /\ svc'[s] = x /\ feed'[s] = Append(feed[s], x) /\ feed[s] \in Seq(Service)
    BY DEF Store, StateInv, TypeOK
  <1>2. /\ feed'[s] # <<>> /\ Len(feed'[s]) = Len(feed[s]) + 1 /\ Len(feed[s]) \in Nat
        /\ feed'[s][Len(feed[s]) + 1] = x
        /\ \A i \in 1..Len(feed[s]) : feed'[s][i] = feed[s][i]
        /\ feed[s] # <<>> => Len(feed[s]) # 0
        /\ feed[s] = <<>> => Len(feed[s]) = 0
    BY <1>1, AppendFacts
  <1>3. BeforeLast(s)'.np = svc[s].np
    <2>1. CASE feed[s] = <<>>
      BY <1>2, <2>1 DEF BeforeLast, StateInv, FeedInv, Same
    <2>2. CASE feed[s] # <<>>
      <3>1. svc[s] = feed[s][Len(feed[s])]
        BY <2>2 DEF StateInv, FeedInv
      <3>2. BeforeLast(s)' = feed'[s][Len(feed[s])]
        BY <1>2, <2>2 DEF BeforeLast
      <3> QED BY <1>2, <2>2, <3>1, <3>2
    <2> QED BY <2>1, <2>2
  <1>4. Untouched(s)'
    <2> SUFFICES ASSUME s \notin wasNP' PROVE Untouched(s)'
      BY DEF Untouched
    <2>1. s \notin wasNP /\ Untouched(s) /\ ~x.np
      BY DEF ServiceInv
    <2>2. \A i \in 1..Len(feed'[s]) : ~feed'[s][i].np
      <3> SUFFICES ASSUME NEW i \in 1..(Len(feed[s]) + 1) PROVE ~feed'[s][i].np
        BY <1>2
      <3>1. CASE i \in 1..Len(feed[s])
        BY <1>2, <2>1, <3>1 DEF Untouched
      <3>2. CASE i = Len(feed[s]) + 1
        BY <1>2, <2>1, <3>2
      <3> QED BY <1>2, <3>1, <3>2
    <2> QED BY <1>1, <2>1, <2>2 DEF Untouched
  <1>5. Reported(s)'
    BY <1>1, <1>3 DEF Reported
  <1> QED BY <1>2, <1>4, <1>5 DEF ServiceInv, Covered, Cleared

LEMMA WorkDeliver ==
    ASSUME StateInv, NEW s \in Services, ServiceInv(s), DeliverService(s)
    PROVE  ServiceInv(s)'
  <1> DEFINE q == feed[s]
             x == Head(q)
  <1>1. /\ q # <<>> /\ q \in Seq(Service)
        /\ cache'[s] = x /\ feed'[s] = Tail(q)
        /\ dirty' = IF (IF x = NoService THEN cache[s] ELSE x).np THEN dirty \cup {s} ELSE dirty
        /\ UNCHANGED <<svc, eps, rv, networked, wasNP, switched, lb, epNotice, task>>
    BY DEF DeliverService, enqueueService, StateInv, TypeOK, apiVars, types
  <1>2. /\ x = q[1] /\ Tail(q) \in Seq(Service) /\ Len(q) \in Nat \ {0}
        /\ Len(Tail(q)) = Len(q) - 1
        /\ \A i \in 1..Len(Tail(q)) : Tail(q)[i] = q[i + 1]
        /\ Tail(q) = <<>> <=> Len(q) = 1
    BY <1>1, TailFacts
  <1>3. svc[s] = q[Len(q)]
    BY <1>1 DEF StateInv, FeedInv
  <1>4. Untouched(s)'
    <2> SUFFICES ASSUME s \notin wasNP PROVE Untouched(s)'
      BY <1>1 DEF Untouched
    <2>1. /\ ~svc[s].np /\ ~cache[s].np /\ \A i \in 1..Len(q) : ~q[i].np
          /\ s \notin dirty /\ lb[s] = 0 /\ \A w \in Workers : task[w].key # s
      BY DEF ServiceInv, Untouched
    <2>2. ~cache'[s].np /\ s \notin dirty'
      BY <1>1, <1>2, <2>1
    <2>3. \A i \in 1..Len(feed'[s]) : ~feed'[s][i].np
      BY <1>1, <1>2, <2>1
    <2> QED BY <1>1, <2>1, <2>2, <2>3 DEF Untouched
  <1>5. Reported(s)'
    <2> SUFFICES ASSUME s \in wasNP, s \notin switched, svc[s] = NoService, Tail(q) # <<>>
                 PROVE  BeforeLast(s)'.np
      BY <1>1 DEF ServiceInv, Reported
    <2>0. Len(q) \in Nat /\ Len(q) > 1
      BY <1>1, <1>2
    <2>1. q[Len(q) - 1].np
      BY <1>1, <1>2 DEF ServiceInv, Reported, BeforeLast
    <2>2. feed'[s] = Tail(q) /\ cache'[s] = q[1] /\ Len(q) \in Nat /\ Len(Tail(q)) = Len(q) - 1
      BY <1>1, <1>2
    <2>3. \A i \in 1..(Len(q) - 1) : Tail(q)[i] = q[i + 1]
      BY <1>2
    <2>4. CASE Len(q) = 2
      <3>1. BeforeLast(s)' = q[1]
        BY <2>2, <2>4 DEF BeforeLast
      <3> QED BY <2>1, <2>4, <3>1
    <2>5. CASE Len(q) # 2
      <3>1. BeforeLast(s)' = Tail(q)[Len(q) - 2]
        <4>1. Len(feed'[s]) # 1 /\ Len(feed'[s]) - 1 = Len(q) - 2
          BY <2>0, <2>2, <2>5
        <4> QED BY <2>2, <4>1 DEF BeforeLast
      <3>2. Len(q) - 2 \in 1..(Len(q) - 1) /\ (Len(q) - 2) + 1 = Len(q) - 1
        <4>1. \A n \in Nat : n > 1 /\ n # 2 => n - 2 \in 1..(n - 1) /\ (n - 2) + 1 = n - 1
          OBVIOUS
        <4> QED BY <2>0, <2>5, <4>1, Zenon
      <3>3. Tail(q)[Len(q) - 2] = q[Len(q) - 1]
        BY <2>3, <3>2
      <3> QED BY <2>1, <3>1, <3>3
    <2> QED BY <2>4, <2>5
  <1>6. Covered(s)'
    <2> SUFFICES ASSUME Managed(s), Tail(q) = <<>> PROVE s \in dirty'
      BY <1>1 DEF Covered, Managed
    <2>1. x = svc[s] /\ x.np /\ x # NoService
      BY <1>2, <1>3 DEF Managed, NoService
    <2> QED BY <1>1, <2>1
  <1>7. Cleared(s)'
    <2> SUFFICES ASSUME svc[s] = NoService, s \notin switched, Tail(q) = <<>>, s \notin dirty'
                 PROVE  lb[s] = 0 /\ \A w \in Workers : task[w].key # s
      BY <1>1 DEF Cleared
    <2>1. x = NoService /\ BeforeLast(s) = cache[s]
      BY <1>2, <1>3 DEF BeforeLast
    <2>2. s \notin wasNP
      BY <1>1, <2>1 DEF ServiceInv, Reported
    <2> QED BY <2>2 DEF ServiceInv, Untouched
  <1> QED BY <1>4, <1>5, <1>6, <1>7 DEF ServiceInv

LEMMA WorkGet ==
    ASSUME StateInv, NEW s \in Services, ServiceInv(s), NEW w \in Workers, Get(w, s)
    PROVE  ServiceInv(s)'
  <1>1. /\ s \in dirty /\ dirty' = dirty \ {s}
        /\ \A v \in Workers : task[v].key # s
        /\ task'[w].at = "lookup" /\ task'[w].key = s
        /\ \A v \in Workers : v # w => task'[v] = task[v]
        /\ UNCHANGED <<svc, eps, rv, networked, wasNP, switched, lb, cache, feed, epNotice>>
    BY DEF Get, StateInv, TypeOK, Task, apiVars, types, informerVars
  <1>2. s \in wasNP
    BY <1>1 DEF ServiceInv, Untouched
  <1>3. Covered(s)'
    BY <1>1 DEF Covered, OnCourse
  <1>4. Reported(s)'
    BY <1>1 DEF ServiceInv, Reported, BeforeLast
  <1>5. Cleared(s)'
    BY <1>1 DEF Cleared
  <1> QED BY <1>1, <1>2, <1>3, <1>4, <1>5 DEF ServiceInv, Untouched

(* Without faults, the steps of the worker that holds s.                   *)
LEMMA WorkWorker ==
    ASSUME StateInv, Faultless', NEW w \in Workers, NEW s \in Services, task[w].key = s,
           ServiceInv(s), SyncService(w)
    PROVE  ServiceInv(s)'
  <1> USE DEF StateInv
  <1>1. ~Fails
    BY DEF Fails, Faultless, TypeOK
  <1>2. /\ s \in wasNP
        /\ \A v \in Workers : v # w => task[v].key # s
        /\ task[w] \in Task
    BY ConstantsFit DEF ServiceInv, Untouched, TaskInv, TypeOK
  <1>3. ASSUME NEW t, Moves(w, t), t = Idle \/ t.key = s,
               UNCHANGED <<svc, eps, networked, feed, epNotice, dirty, types>>, Same(cache[s], cache'[s]),
               feed[s] = <<>> /\ Managed(s) /\ OnCourse(w, s) =>
                   IF t = Idle THEN Right(s)' ELSE OnCourse(w, s)',
               feed[s] = <<>> /\ svc[s] = NoService /\ task[w].at \in {"lookup", "deletelb"} =>
                   IF t = Idle THEN lb'[s] = 0 ELSE t.at \in {"lookup", "deletelb"}
        PROVE  ServiceInv(s)'
    <2>1. /\ \A v \in Workers : v # w => task'[v].key # s
          /\ task'[w] = t /\ (t = Idle => task'[w].key # s)
      BY <1>2, <1>3, ConstantsFit DEF Moves, Idle
    <2>2. Untouched(s)' /\ Reported(s)'
      BY <1>2, <1>3 DEF ServiceInv, Untouched, Reported, BeforeLast, Same, types
    <2>3. Covered(s)'
      <3> SUFFICES ASSUME Managed(s), feed[s] = <<>>, ~epNotice[s], s \notin dirty
                   PROVE  IF t = Idle THEN Right(s)' ELSE OnCourse(w, s)'
        BY <1>3, <2>1 DEF Covered, Managed
      <3>1. OnCourse(w, s)
        BY DEF ServiceInv, Covered
      <3> QED BY <1>3, <3>1
    <2>4. Cleared(s)'
      <3> SUFFICES ASSUME svc[s] = NoService, s \notin switched, feed[s] = <<>>, s \notin dirty
                   PROVE  IF t = Idle THEN lb'[s] = 0 ELSE t.at \in {"lookup", "deletelb"}
        BY <1>3, <2>1 DEF Cleared, types
      <3>1. task[w].at \in {"lookup", "deletelb"}
        BY DEF ServiceInv, Cleared
      <3> QED BY <1>3, <3>1
    <2> QED BY <2>2, <2>3, <2>4 DEF ServiceInv
  <1>10. cache' = cache => Same(cache[s], cache'[s])
    BY DEF Same
  <1>4. CASE Lookup(w)
    <2>1. UNCHANGED <<svc, eps, networked, lb, cache, feed, epNotice, dirty, types>> /\ task[w].at = "lookup"
      BY <1>4 DEF Lookup, apiVars, informerVars
    <2>2. feed[s] = <<>> => Same(svc[s], cache[s])
      BY DEF FeedInv
    <2>3. CASE cache[s] = NoService /\ Moves(w, [task[w] EXCEPT !.at = "deletelb"])
      <3> DEFINE t == [task[w] EXCEPT !.at = "deletelb"]
      <3>1. t.key = s /\ t.at = "deletelb"
        BY <1>2 DEF Task
      <3> HIDE DEF t
      <3>2. Moves(w, t) /\ t # Idle
        BY <2>3, <3>1 DEF t, Idle
      <3>3. ~(feed[s] = <<>> /\ Managed(s))
        <4>1. feed[s] = <<>> => svc[s] = NoService
          BY <2>2, <2>3 DEF Same
        <4> QED BY <4>1 DEF Managed, NoService
      <3> QED BY <1>3, <1>10, <2>1, <3>1, <3>2, <3>3
    <2>4. CASE /\ cache[s] # NoService /\ cache[s].sel
               /\ Moves(w, [task[w] EXCEPT !.at = "getlb", !.obj = cache[s]])
      <3> DEFINE t == [task[w] EXCEPT !.at = "getlb", !.obj = cache[s]]
      <3>1. t.key = s /\ t.at = "getlb" /\ t.obj = cache[s]
        BY <1>2 DEF Task
      <3> HIDE DEF t
      <3>2. Moves(w, t)
        BY <2>4 DEF t
      <3>3. feed[s] = <<>> => OnCourse(w, s)'
        BY <2>1, <2>2, <3>1, <3>2 DEF OnCourse, Moves, Same
      <3>4. t # Idle
        BY <3>1 DEF Idle
      <3>5. ~(feed[s] = <<>> /\ svc[s] = NoService)
        BY <2>2, <2>4 DEF Same
      <3> QED BY <1>3, <1>10, <2>1, <3>1, <3>2, <3>3, <3>4, <3>5
    <2>5. CASE cache[s] # NoService /\ ~cache[s].sel /\ Moves(w, Idle)
      <3>1. ~(feed[s] = <<>> /\ (Managed(s) \/ svc[s] = NoService))
        BY <2>2, <2>5 DEF Managed, Same
      <3> QED BY <1>3, <1>10, <2>1, <2>5, <3>1
    <2> QED BY <1>4, <2>3, <2>4, <2>5, LookupMoves
  <1>5. CASE GetLoadBalancer(w)
    <2>1. UNCHANGED <<svc, eps, networked, lb, cache, feed, epNotice, dirty, types>> /\ task[w].at = "getlb"
      BY <1>5 DEF GetLoadBalancer, apiVars, informerVars
    <2>2. OnCourse(w, s) => task[w].obj.ext = svc[s].ext
      BY <2>1 DEF OnCourse
    <2>3. CASE task[w].obj.ext /\ Moves(w, [task[w] EXCEPT !.at = "endpoints", !.found = lb[s]])
      <3> DEFINE t == [task[w] EXCEPT !.at = "endpoints", !.found = lb[s]]
      <3>1. t.key = s /\ t.at = "endpoints"
        BY <1>2 DEF Task
      <3> HIDE DEF t
      <3>2. Moves(w, t) /\ t # Idle
        BY <2>3, <3>1 DEF t, Idle
      <3>3. OnCourse(w, s) => OnCourse(w, s)'
        BY <2>1, <2>2, <2>3, <3>1, <3>2 DEF OnCourse, Moves
      <3> QED BY <1>3, <1>10, <2>1, <3>1, <3>2, <3>3
    <2>4. CASE ~task[w].obj.ext /\ Moves(w, [task[w] EXCEPT !.at = "deletelb"])
      <3> DEFINE t == [task[w] EXCEPT !.at = "deletelb"]
      <3>1. t.key = s /\ t.at = "deletelb"
        BY <1>2 DEF Task
      <3> HIDE DEF t
      <3>2. Moves(w, t) /\ t # Idle
        BY <2>4, <3>1 DEF t, Idle
      <3>3. OnCourse(w, s) => OnCourse(w, s)'
        BY <2>1, <2>2, <2>4, <3>1, <3>2 DEF OnCourse, Moves
      <3> QED BY <1>3, <1>10, <2>1, <3>1, <3>2, <3>3
    <2>5. CASE ~task[w].obj.ext /\ lb[s] = 0 /\ Moves(w, Idle)
      <3>1. OnCourse(w, s) => Right(s)'
        BY <2>1, <2>2, <2>5 DEF Right
      <3> QED BY <1>3, <1>10, <2>1, <2>5, <3>1
    <2> QED BY <1>1, <1>5, <2>3, <2>4, <2>5, GetLoadBalancerMoves
  <1>6. CASE DeleteLoadBalancer(w)
    <2>1. UNCHANGED <<svc, eps, networked, cache, feed, epNotice, dirty, types>> /\ task[w].at = "deletelb"
      BY <1>6 DEF DeleteLoadBalancer, apiVars, informerVars
    <2>2. lb'[s] = 0 /\ Moves(w, Idle)
      BY <1>1, <1>6, DeleteLoadBalancerMoves DEF TypeOK
    <2>3. OnCourse(w, s) => Right(s)'
      BY <2>1, <2>2 DEF OnCourse, Right
    <2> QED BY <1>3, <1>10, <2>1, <2>2, <2>3
  <1>7. CASE GetEndpointHosts(w)
    <2>1. /\ UNCHANGED <<svc, eps, networked, lb, cache, feed, epNotice, dirty, types>>
          /\ task[w].at = "endpoints" /\ lb[s] = task[w].found
      BY <1>7 DEF GetEndpointHosts, apiVars, informerVars, TaskInv
    <2>2. OnCourse(w, s) => svc[s].ext
      BY <2>1 DEF OnCourse
    <2>3. CASE Moves(w, [task[w] EXCEPT !.at = "writelb", !.hosts = eps[s]])
      <3> DEFINE t == [task[w] EXCEPT !.at = "writelb", !.hosts = eps[s]]
      <3>1. t.key = s /\ t.at = "writelb" /\ t.hosts = eps[s]
        BY <1>2 DEF Task
      <3> HIDE DEF t
      <3>2. Moves(w, t) /\ t # Idle
        BY <2>3, <3>1 DEF t, Idle
      <3>3. OnCourse(w, s) => OnCourse(w, s)'
        BY <2>1, <2>2, <3>1, <3>2 DEF OnCourse, Moves
      <3> QED BY <1>3, <1>10, <2>1, <3>1, <3>2, <3>3
    <2>4. CASE eps[s] \in {0, task[w].found} /\ Moves(w, Idle)
      <3>1. OnCourse(w, s) => Right(s)'
        BY <2>1, <2>2, <2>4 DEF Right
      <3> QED BY <1>3, <1>10, <2>1, <2>4, <3>1
    <2> QED BY <1>1, <1>7, <2>3, <2>4, GetEndpointHostsMoves
  <1>8. CASE WriteLoadBalancer(w)
    <2>1. UNCHANGED <<svc, eps, networked, feed, epNotice, dirty, types>> /\ task[w].at = "writelb"
      BY <1>8 DEF WriteLoadBalancer, apiVars
    <2>2. Same(cache[s], cache'[s])
      BY <1>8, MarkedCache
    <2>3. CASE lb' = [lb EXCEPT ![s] = task[w].hosts] /\ Moves(w, Marked(w))
      <3>1. lb'[s] = task[w].hosts
        BY <2>3 DEF TypeOK
      <3>2. Marked(w).key = s /\ Marked(w).at = "status" /\ Marked(w) # Idle
        <4>1. Idle.at = "get"
          BY DEF Idle
        <4> QED BY <1>2, <4>1, MarkedFacts
      <3>3. OnCourse(w, s) => OnCourse(w, s)'
        BY <2>1, <2>3, <3>1, <3>2 DEF OnCourse, Moves, Right
      <3> QED BY <1>3, <2>1, <2>2, <2>3, <3>2, <3>3
    <2>4. CASE s \notin networked /\ Moves(w, Idle)
      <3>1. ~Managed(s)
        BY <2>4 DEF Managed
      <3> QED BY <1>3, <2>1, <2>2, <2>4, <3>1
    <2> QED BY <1>1, <1>8, <2>3, <2>4, WriteLoadBalancerMoves
  <1>9. CASE UpdateStatus(w)
    <2>1. UNCHANGED <<eps, networked, lb, cache, epNotice, dirty, types>> /\ task[w].at = "status"
      BY <1>9 DEF UpdateStatus
    <2> DEFINE x == [task[w].obj EXCEPT !.rv = rv + 1]
    <2>2. Moves(w, Idle)
      BY <1>1, <1>9, UpdateStatusMoves
    <2>3. CASE svc[s] # NoService /\ svc[s].rv = task[w].obj.rv /\ Store(s, x)
      <3>1. /\ x \in Service /\ x # NoService /\ x.np = task[w].obj.np
            /\ task[w].obj # NoService /\ Known(s, task[w].obj)
        BY <1>9, <2>1, UpdateStatusMoves DEF TaskInv, Looked, VersionInv
      <3>2. x.np = svc[s].np
        BY <2>3, <3>1 DEF Known, Same
      <3>3. s \notin switched => svc[s].np
        BY <1>2, <2>3 DEF ServiceInv, Reported
      <3>4. \A v \in Workers : task'[v].key = s => task[v].key = s
        BY <2>2, ConstantsFit DEF Moves, Idle
      <3> HIDE DEF x
      <3> QED BY <1>2, <2>1, <2>3, <3>1, <3>2, <3>3, <3>4, WorkStore DEF types
    <2>4. CASE UNCHANGED <<svc, feed, rv>>
      <3>1. OnCourse(w, s) => Right(s)'
        BY <2>1, <2>4 DEF OnCourse, Right
      <3> QED BY <1>3, <1>10, <2>1, <2>2, <2>4, <3>1
    <2> QED BY <1>9, <2>3, <2>4, UpdateStatusMoves
  <1> QED BY <1>4, <1>5, <1>6, <1>7, <1>8, <1>9 DEF SyncService

(* The faults are counted and never forgotten.                             *)
LEMMA FaultsStay ==
    ASSUME TypeOK, [Next]_vars, Faultless'
    PROVE  /\ Faultless /\ ~Fails /\ ~Restart
           /\ \A s \in Services : ~RelistServices(s) /\ ~RelistEndpoints(s)
  <1>1. failures \in Nat /\ relists \in Nat /\ restarts \in Nat
    BY ConstantsFit DEF TypeOK
  <1>2. ~Fails /\ ~Restart /\ \A s \in Services : ~RelistServices(s) /\ ~RelistEndpoints(s)
    BY <1>1 DEF Fails, Restart, RelistServices, RelistEndpoints, Faultless
  <1>3. UNCHANGED faultVars
    BY <1>2 DEF Next, WriteService, RemoveService, WriteEndpoints, DeliverService, ResyncService,
        DeliverEndpoints, addEndpoint, startUp, Get, SyncService, Lookup, GetLoadBalancer, GiveUp,
        DeleteLoadBalancer, GetEndpointHosts, WriteLoadBalancer, UpdateStatus, vars
  <1> QED BY <1>2, <1>3 DEF Faultless, faultVars

\* Every step keeps each service reconciled, or in the queue, or in a worker.
LEMMA WorkStep == StateInv /\ WorkInv /\ [Next]_vars => WorkInv'
  <1> SUFFICES ASSUME StateInv, WorkInv, [Next]_vars, Faultless', NEW s \in Services
               PROVE  ServiceInv(s)'
    BY DEF WorkInv
  <1> USE DEF StateInv
  <1>1. /\ ~Fails /\ ~Restart
        /\ \A t \in Services : ~RelistServices(t) /\ ~RelistEndpoints(t)
        /\ ServiceInv(s)
    BY FaultsStay DEF WorkInv
  <1>2. ASSUME NEW t \in Services, NEW np \in BOOLEAN, NEW sel \in BOOLEAN, NEW ext \in BOOLEAN,
               WriteService(t, np, sel, ext)
        PROVE  ServiceInv(s)'
    <2> DEFINE x == [np |-> np, sel |-> sel, ext |-> ext, vip |-> svc[t].vip, rv |-> rv + 1]
    <2>1. x \in Service /\ x.np = np /\ x.rv = rv + 1
      BY DEF TypeOK, Service
    <2>2. x # NoService
      BY DEF TypeOK, NoService
    <2> HIDE DEF x
    <2>3. /\ Store(t, x) /\ UNCHANGED <<eps, networked, lb, cache, epNotice, dirty, task>>
          /\ wasNP' = IF np THEN wasNP \cup {t} ELSE wasNP
          /\ switched' = IF ~np /\ t \in wasNP THEN switched \cup {t} ELSE switched
      BY <1>2 DEF WriteService, x
    <2>4. CASE t = s
      <3>1. s \notin wasNP' => ~x.np
        BY <2>1, <2>3, <2>4
      <3>2. s \in wasNP' /\ s \notin switched' => x.np
        BY <2>1, <2>3, <2>4
      <3> QED BY <1>1, <2>1, <2>2, <2>3, <2>4, <3>1, <3>2, WorkStore
    <2>5. CASE t # s
      <3>1. svc'[s] = svc[s] /\ feed'[s] = feed[s]
        BY <2>3, <2>5 DEF Store, TypeOK
      <3> QED BY <1>1, <2>3, <2>5, <3>1, WorkFrame
    <2> QED BY <2>4, <2>5
  <1>3. ASSUME NEW t \in Services, RemoveService(t) PROVE ServiceInv(s)'
    <2>1. Store(t, NoService) /\ svc[t] # NoService /\ ~NoService.np
      BY <1>3 DEF RemoveService, NoService
    <2>2. UNCHANGED <<eps, networked, lb, cache, epNotice, dirty, task, wasNP, switched>>
      BY <1>3 DEF RemoveService, types
    <2>3. CASE t = s
      <3>1. s \in wasNP /\ s \notin switched => svc[s].np
        BY <1>1, <2>1, <2>3 DEF ServiceInv, Reported
      <3> QED BY <1>1, <2>1, <2>2, <2>3, <3>1, WorkStore, NoServiceType
    <2>4. CASE t # s
      <3>1. svc'[s] = svc[s] /\ feed'[s] = feed[s]
        BY <2>1, <2>4 DEF Store, TypeOK
      <3> QED BY <1>1, <2>2, <3>1, WorkFrame
    <2> QED BY <2>3, <2>4
  <1>4. ASSUME NEW t \in Services, NEW h \in Hosts, WriteEndpoints(t, h) PROVE ServiceInv(s)'
    <2>1. /\ UNCHANGED <<svc, networked, lb, cache, feed, dirty, task, wasNP, switched>>
          /\ eps' = [eps EXCEPT ![t] = h] /\ epNotice' = [epNotice EXCEPT ![t] = TRUE]
      BY <1>4 DEF WriteEndpoints, types
    <2>2. CASE t = s
      <3>1. epNotice'[s]
        BY <2>1, <2>2 DEF TypeOK
      <3>2. Untouched(s)' /\ Reported(s)' /\ Cleared(s)'
        BY <1>1, <2>1 DEF ServiceInv, Untouched, Reported, Cleared, BeforeLast
      <3> QED BY <3>1, <3>2 DEF ServiceInv, Covered
    <2>3. CASE t # s
      <3>1. eps'[s] = eps[s] /\ epNotice'[s] = epNotice[s]
        BY <2>1, <2>3 DEF TypeOK
      <3> QED BY <1>1, <2>1, <3>1, WorkFrame
    <2> QED BY <2>2, <2>3
  <1>5. ASSUME NEW t \in Services, DeliverService(t) PROVE ServiceInv(s)'
    <2>1. CASE t = s
      BY <1>1, <1>5, <2>1, WorkDeliver
    <2>2. CASE t # s
      <3>1. /\ UNCHANGED <<svc, eps, networked, lb, epNotice, task, wasNP, switched>>
            /\ cache'[s] = cache[s] /\ feed'[s] = feed[s] /\ (s \in dirty' <=> s \in dirty)
        BY <1>5, <2>2 DEF DeliverService, enqueueService, TypeOK, apiVars, types
      <3> QED BY <1>1, <3>1, WorkFrame
    <2> QED BY <2>1, <2>2
  <1>6. ASSUME NEW t \in Services, ResyncService(t) PROVE ServiceInv(s)'
    <2>1. /\ UNCHANGED <<svc, eps, networked, lb, epNotice, task, wasNP, switched, cache, feed>>
          /\ dirty' = IF cache[t].np THEN dirty \cup {t} ELSE dirty
      BY <1>6 DEF ResyncService, enqueueService, apiVars, types, informerVars
    <2>2. s \in dirty' => s \in dirty \/ s \in wasNP
      BY <1>1, <2>1 DEF ServiceInv, Untouched
    <2> QED BY <1>1, <2>1, <2>2, WorkFrame
  <1>7. ASSUME NEW t \in Services, DeliverEndpoints(t) PROVE ServiceInv(s)'
    <2>1. /\ UNCHANGED <<svc, eps, networked, lb, task, wasNP, switched, cache, feed>>
          /\ epNotice' = [epNotice EXCEPT ![t] = FALSE]
          /\ dirty' = IF svc[t] # NoService /\ svc[t].np THEN dirty \cup {t} ELSE dirty
      BY <1>1, <1>7 DEF DeliverEndpoints, addEndpoint, enqueueService, apiVars, types
    <2>2. s \in dirty' => s \in dirty \/ s \in wasNP
      BY <1>1, <2>1 DEF ServiceInv, Untouched
    <2>3. epNotice[s] /\ ~epNotice'[s] /\ Managed(s) => s \in dirty'
      <3>1. CASE t = s
        BY <2>1, <3>1 DEF Managed, NoService
      <3>2. CASE t # s
        BY <2>1, <3>2 DEF TypeOK
      <3> QED BY <3>1, <3>2
    <2> QED BY <1>1, <2>1, <2>2, <2>3, WorkFrame
  <1>8. CASE startUp
    <2>1. /\ UNCHANGED <<svc, eps, networked, lb, task, wasNP, switched, cache, feed, epNotice>>
          /\ dirty' = dirty \cup {t \in Services : eps[t] # 0 /\ svc[t].np}
      BY <1>1, <1>8 DEF startUp, apiVars, types, informerVars
    <2>2. s \in dirty' => s \in dirty \/ s \in wasNP
      BY <1>1, <2>1 DEF ServiceInv, Untouched
    <2> QED BY <1>1, <2>1, <2>2, WorkFrame
  <1>9. ASSUME NEW t \in Services, NEW w \in Workers, Get(w, t) PROVE ServiceInv(s)'
    <2>1. CASE t = s
      BY <1>1, <1>9, <2>1, WorkGet
    <2>2. CASE t # s
      <3>1. /\ UNCHANGED <<svc, eps, networked, lb, wasNP, switched, cache, feed, epNotice>>
            /\ (s \in dirty' <=> s \in dirty)
        BY <1>9, <2>2 DEF Get, apiVars, types, informerVars
      <3>2. /\ task[w].key # s /\ task'[w].key = t
            /\ \A v \in Workers : v # w => task'[v] = task[v]
        BY <1>9, <2>2, ConstantsFit DEF Get, TypeOK, Task, Idle
      <3> QED BY <1>1, <2>2, <3>1, <3>2, WorkFrame
    <2> QED BY <2>1, <2>2
  <1>10. ASSUME NEW w \in Workers, SyncService(w) PROVE ServiceInv(s)'
    <2>1. CASE task[w].key = s
      BY <1>1, <1>10, <2>1, WorkWorker
    <2>2. CASE task[w].key # s
      <3> DEFINE t == task[w].key
      <3>1. t \in Services /\ UNCHANGED <<eps, networked, epNotice, dirty, types>>
        <4>1. task[w].at # "get"
          BY <1>10 DEF SyncService, Lookup, GetLoadBalancer, DeleteLoadBalancer, GetEndpointHosts,
                 WriteLoadBalancer, UpdateStatus
        <4> QED BY <1>10, <4>1, Busy
              DEF SyncService, Lookup, GetLoadBalancer, DeleteLoadBalancer, GetEndpointHosts,
                  WriteLoadBalancer, UpdateStatus, apiVars, informerVars
      <3>4. cache'[s] = cache[s]
        <4>1. CASE WriteLoadBalancer(w)
          BY <2>2, <4>1, MarkedCache
        <4> QED BY <1>10, <4>1
              DEF SyncService, Lookup, GetLoadBalancer, DeleteLoadBalancer, GetEndpointHosts,
                  UpdateStatus, informerVars
      <3>2. svc'[s] = svc[s] /\ feed'[s] = feed[s] /\ lb'[s] = lb[s]
        BY <1>10, <2>2
        DEF SyncService, Lookup, GetLoadBalancer, DeleteLoadBalancer, GetEndpointHosts,
            WriteLoadBalancer, UpdateStatus, apiVars, informerVars, Store, TypeOK
      <3>3. /\ task'[w].key # s
            /\ \A v \in Workers : v # w => task'[v] = task[v]
        <4>1. PICK r : Moves(w, r) /\ (r = Idle \/ r.key = t)
          <5>1. task[w] \in Task
            BY DEF TypeOK
          <5>2. CASE Lookup(w)
            <6>1. /\ [task[w] EXCEPT !.at = "deletelb"].key = t
                  /\ [task[w] EXCEPT !.at = "getlb", !.obj = cache[t]].key = t
              BY <5>1 DEF Task
            <6> QED BY <5>2, <6>1, LookupMoves, Zenon
          <5>3. CASE GetLoadBalancer(w)
            <6>1. /\ [task[w] EXCEPT !.at = "deletelb"].key = t
                  /\ [task[w] EXCEPT !.at = "endpoints", !.found = lb[t]].key = t
              BY <5>1 DEF Task
            <6> QED BY <5>3, <6>1, GetLoadBalancerMoves, Zenon
          <5>4. CASE DeleteLoadBalancer(w)
            BY <5>4, DeleteLoadBalancerMoves
          <5>5. CASE GetEndpointHosts(w)
            <6>1. [task[w] EXCEPT !.at = "writelb", !.hosts = eps[t]].key = t
              BY <5>1 DEF Task
            <6> QED BY <5>5, <6>1, GetEndpointHostsMoves, Zenon
          <5>6. CASE WriteLoadBalancer(w)
            <6>1. Marked(w).key = t
              BY <5>1, MarkedFacts
            <6> QED BY <5>6, <6>1, WriteLoadBalancerMoves, Zenon
          <5>7. CASE UpdateStatus(w)
            <6>1. [task[w] EXCEPT !.tries = @ + 1].key = t
              BY <5>1 DEF Task
            <6> QED BY <5>7, <6>1, UpdateStatusMoves, Zenon
          <5> QED BY <1>10, <5>2, <5>3, <5>4, <5>5, <5>6, <5>7 DEF SyncService
        <4> QED BY <2>2, <4>1, ConstantsFit DEF Moves, Idle
      <3> QED BY <1>1, <2>2, <3>1, <3>2, <3>3, <3>4, WorkFrame DEF types
    <2> QED BY <2>1, <2>2
  <1>11. CASE UNCHANGED vars
    <2>1. UNCHANGED <<svc, eps, networked, lb, task, wasNP, switched, cache, feed, epNotice, dirty>>
      BY <1>11 DEF vars, apiVars, types, informerVars
    <2> QED BY <1>1, <2>1, WorkFrame
  <1> QED
    BY <1>1, <1>2, <1>3, <1>4, <1>5, <1>6, <1>7, <1>8, <1>9, <1>10, <1>11 DEF Next

LEMMA WorkInvHolds == Spec => []WorkInv
  <1>1. WorkInv /\ StateInv /\ [Next]_vars => WorkInv'
    BY WorkStep
  <1> QED BY <1>1, WorkInit, StateInvHolds, PTL DEF Spec

(* Without faults a service that nothing is under way for has the load     *)
(* balancer it asks for: a worker that acts on what is stale by now always *)
(* leaves its key in the queue, or an event that will put it there         *)
(* (enqueueService, addEndpoint, syncService).                             *)
THEOREM SettledServicesAreReconciled == Spec => []SettledIsReconciled
  <1>1. WorkInv => SettledIsReconciled
    <2> SUFFICES ASSUME WorkInv, Faultless, NEW s \in Services, Settled(s), Managed(s)
                 PROVE  Right(s)
      BY DEF SettledIsReconciled, Right
    <2> QED BY DEF WorkInv, ServiceInv, Covered, Settled
  <1> QED BY <1>1, WorkInvHolds, PTL

(* Without faults the load balancer of a service that is gone is deleted   *)
(* in the end, if the service kept to its type: its deletion is reported   *)
(* with that type and enqueued behind whatever a worker is still doing     *)
(* (enqueueService, deleteLoadBalancer).                                   *)
THEOREM NoneIsLeaked == Spec => []NoLoadBalancerLeaked
  <1>1. WorkInv => NoLoadBalancerLeaked
    BY DEF WorkInv, ServiceInv, Cleared, Settled, NoLoadBalancerLeaked, GoneIsCleared
  <1> QED BY <1>1, WorkInvHolds, PTL
=============================================================================
