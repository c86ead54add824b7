------------------------- MODULE NetworkController -------------------------
(***************************************************************************)
(* Hypernetes' network controller                                          *)
(* (pkg/controller/network/network_controller.go), the part that keeps one *)
(* load balancer of the network provider for each service of type          *)
(* NetworkProvider.  The service and the endpoints informer put keys into  *)
(* a work queue; workers take them and reconcile in several remote calls,  *)
(* between which the API objects may change.                               *)
(*                                                                         *)
(* A service is [np, sel, ext, vip, rv]: of type NetworkProvider, with a   *)
(* selector, with ExternalIPs, with a load balancer in its status, and its *)
(* resource version.  The hosts behind a service are a number, 0 for none; *)
(* a load balancer is the hosts it forwards to, 0 for none.  The work      *)
(* queue is the set dirty of module WorkQueue: a key that a worker holds   *)
(* is not handed out again.  The queue's order does not matter here.       *)
(***************************************************************************)
EXTENDS Naturals, Sequences, FiniteSets

CONSTANTS
    Services,           \* keys of services and of their endpoints
    Workers,            \* the worker goroutines
    None,               \* no service
    MaxHosts,           \* the host lists are 1..MaxHosts
    MaxRV,              \* bound on the changes the users make
    MaxFailures,        \* bound on the remote calls that fail
    MaxRelists,         \* bound on the broken watches
    MaxRestarts,        \* bound on the restarts of the controller
    ClientRetryCount    \* clientRetryCount

ASSUME ConstantsFit ==
    /\ None \notin Services
    /\ {MaxHosts, MaxRV, MaxFailures, MaxRelists, MaxRestarts} \subseteq Nat
    /\ ClientRetryCount \in Nat \ {0}

VARIABLES
    svc, eps, rv,               \* the API server: services, endpoints, version
    networked,                  \* the services whose namespace has a network
    lb,                         \* the provider: load balancers
    cache, feed,                \* service informer: store, undelivered events
    epSeen, epNotice,           \* endpoints informer: store, an event is due
    dirty,                      \* the work queue
    task,                       \* of each worker: its call of syncService
    started,                    \* startUp has run
    failures, relists, restarts,
    wasNP,                      \* history: services that were once of type NetworkProvider
    switched                    \* history: those that were of another type after that

types == <<wasNP, switched>>
apiVars == <<svc, eps, rv, networked, types>>
informerVars == <<cache, feed, epSeen, epNotice>>
faultVars == <<failures, relists, restarts>>
vars == <<apiVars, lb, informerVars, dirty, task, started, faultVars>>

NoService == [np |-> FALSE, sel |-> FALSE, ext |-> FALSE, vip |-> FALSE, rv |-> 0]
Service == [np : BOOLEAN, sel : BOOLEAN, ext : BOOLEAN, vip : BOOLEAN, rv : Nat]
Hosts == 0..MaxHosts
Places == {"get", "lookup", "getlb", "deletelb", "endpoints", "writelb", "status"}

\* A worker's place, and inside syncService its key, the service from the
\* cache, the load balancer found, the hosts to write, the failed status writes.
Task == [at : Places, key : Services \cup {None}, obj : Service, found : Hosts,
         hosts : Hosts, tries : 0..(ClientRetryCount - 1)]
Idle == [at |-> "get", key |-> None, obj |-> NoService, found |-> 0, hosts |-> 0, tries |-> 0]

TypeOK ==
    /\ svc \in [Services -> Service] /\ eps \in [Services -> Hosts] /\ rv \in Nat
    /\ networked \subseteq Services
    /\ lb \in [Services -> Hosts]
    /\ cache \in [Services -> Service] /\ feed \in [Services -> Seq(Service)]
    /\ epSeen \in [Services -> Hosts] /\ epNotice \in [Services -> BOOLEAN]
    /\ dirty \subseteq Services
    /\ task \in [Workers -> Task]
    /\ started \in BOOLEAN
    /\ failures \in 0..MaxFailures /\ relists \in 0..MaxRelists /\ restarts \in 0..MaxRestarts
    /\ wasNP \subseteq Services /\ switched \subseteq Services

\* What a controller that has just been started knows: the informers' first
\* lists report everything that exists as added.
Fresh ==
    /\ cache' = [s \in Services |-> NoService]
    /\ feed' = [s \in Services |-> IF svc[s] = NoService THEN <<>> ELSE <<svc[s]>>]
    /\ epSeen' = [s \in Services |-> 0]
    /\ epNotice' = [s \in Services |-> eps[s] # 0]
    /\ dirty' = {}
    /\ task' = [w \in Workers |-> Idle]
    /\ started' = FALSE

Init ==
    /\ svc = [s \in Services |-> NoService] /\ eps = [s \in Services |-> 0] /\ rv = 0
    /\ networked \in SUBSET Services
    /\ lb = [s \in Services |-> 0]
    /\ cache = [s \in Services |-> NoService] /\ feed = [s \in Services |-> <<>>]
    /\ epSeen = [s \in Services |-> 0] /\ epNotice = [s \in Services |-> FALSE]
    /\ dirty = {}
    /\ task = [w \in Workers |-> Idle]
    /\ started = FALSE
    /\ failures = 0 /\ relists = 0 /\ restarts = 0
    /\ wasNP = {} /\ switched = {}

-----------------------------------------------------------------------------
(* The users and the endpoint controller, through the API server.          *)

Store(s, x) ==
    /\ svc' = [svc EXCEPT ![s] = x]
    /\ feed' = [feed EXCEPT ![s] = Append(@, x)]
    /\ rv' = rv + 1

\* A service is created, or its type, selector or ExternalIPs change.
WriteService(s, np, sel, ext) ==
    /\ rv < MaxRV
    /\ Store(s, [np |-> np, sel |-> sel, ext |-> ext, vip |-> svc[s].vip, rv |-> rv + 1])
    /\ wasNP' = IF np THEN wasNP \cup {s} ELSE wasNP
    /\ switched' = IF ~np /\ s \in wasNP THEN switched \cup {s} ELSE switched
    /\ UNCHANGED <<eps, networked, lb, cache, epSeen, epNotice, dirty, task, started, faultVars>>

RemoveService(s) ==
    /\ rv < MaxRV
    /\ svc[s] # NoService
    /\ Store(s, NoService)
    /\ UNCHANGED <<eps, networked, types, lb, cache, epSeen, epNotice, dirty, task, started, faultVars>>

WriteEndpoints(s, h) ==
    /\ rv < MaxRV
    /\ h # eps[s]
    /\ eps' = [eps EXCEPT ![s] = h]
    /\ epNotice' = [epNotice EXCEPT ![s] = TRUE]
    /\ rv' = rv + 1
    /\ UNCHANGED <<svc, networked, types, lb, cache, feed, epSeen, dirty, task, started, faultVars>>

Fails ==
    /\ failures < MaxFailures
    /\ failures' = failures + 1
    /\ UNCHANGED <<relists, restarts>>

-----------------------------------------------------------------------------
(* The event handlers, which run in the informers' goroutines.             *)

\* Deviation: a service that is being synced is not enqueued again.
enqueueIfIdle(s, x, known) ==
    dirty' = IF (x.np \/ ~known) /\ \A w \in Workers : task[w].key # s THEN dirty \cup {s} ELSE dirty

\* enqueueService with the object x the handler is given.  A marker for an
\* unknown final state (known = FALSE) is not a *Service: no type check.
enqueueService(s, x, known) == dirty' = IF x.np \/ ~known THEN dirty \cup {s} ELSE dirty

\* A watch event of service s; a deletion carries the last state.
DeliverService(s) ==
    /\ feed[s] # <<>>
    /\ LET x == Head(feed[s])
       IN  /\ cache' = [cache EXCEPT ![s] = x]
           /\ enqueueService(s, IF x = NoService THEN cache[s] ELSE x, TRUE)
    /\ feed' = [feed EXCEPT ![s] = Tail(@)]
    /\ UNCHANGED <<apiVars, lb, epSeen, epNotice, task, started, faultVars>>

\* The watch breaks and the services are listed anew: the states in between
\* are not seen, and a deletion is reported with an unknown final state.
RelistServices(s) ==
    /\ feed[s] # <<>>
    /\ relists < MaxRelists /\ relists' = relists + 1
    /\ cache' = [cache EXCEPT ![s] = svc[s]]
    /\ feed' = [feed EXCEPT ![s] = <<>>]
    /\ IF svc[s] = NoService /\ cache[s] = NoService THEN UNCHANGED dirty
       ELSE enqueueService(s, svc[s], svc[s] # NoService)
    /\ UNCHANGED <<apiVars, lb, epSeen, epNotice, task, started, failures, restarts>>

\* Deviation: the informer does not resync.
ResyncNever(s) == cache[s] # NoService /\ FALSE

\* The service informer's periodic resync reports an update of what it has.
ResyncService(s) ==
    /\ cache[s] # NoService
    /\ enqueueService(s, cache[s], TRUE)
    /\ UNCHANGED <<apiVars, lb, informerVars, task, started, faultVars>>

\* addEndpoint: the service is read from the API server, not from the cache;
\* when that fails or finds nothing no key is enqueued.
addEndpoint(s) ==
    \/ /\ IF svc[s] = NoService THEN UNCHANGED dirty ELSE enqueueService(s, svc[s], TRUE)
       /\ UNCHANGED faultVars
    \/ Fails /\ UNCHANGED dirty

DeliverEndpoints(s) ==
    /\ epNotice[s]
    /\ addEndpoint(s)
    /\ epNotice' = [epNotice EXCEPT ![s] = FALSE]
    /\ epSeen' = [epSeen EXCEPT ![s] = eps[s]]
    /\ UNCHANGED <<apiVars, lb, cache, feed, task, started>>

\* After a relist updateEndpoint compares with the last state the informer
\* saw: endpoints that are back where they were go unnoticed.
RelistEndpoints(s) ==
    /\ epNotice[s]
    /\ epSeen[s] = eps[s]
    /\ relists < MaxRelists /\ relists' = relists + 1
    /\ epNotice' = [epNotice EXCEPT ![s] = FALSE]
    /\ UNCHANGED <<apiVars, lb, cache, feed, epSeen, dirty, task, started, failures, restarts>>

\* startUp, five minutes after the start.  The keys of the listed services
\* are computed from Service values, which keyFunc rejects ("obj must be a
\* pointer"): only the endpoints put keys into the queue.
startUp ==
    /\ ~started
    /\ started' = TRUE
    /\ \/ /\ dirty' = dirty \cup {s \in Services : eps[s] # 0 /\ svc[s].np}
          /\ UNCHANGED faultVars
       \/ Fails /\ UNCHANGED dirty
    /\ UNCHANGED <<apiVars, lb, informerVars, task>>

\* The controller's process ends, at any point, and is started again.
Restart ==
    /\ restarts < MaxRestarts
    /\ restarts' = restarts + 1
    /\ Fresh
    /\ UNCHANGED <<apiVars, lb, failures, relists>>

-----------------------------------------------------------------------------
(* syncService, step by step.                                              *)

\* Deviation: a key is handed out although a worker has it.
GetHeld(w, s) ==
    /\ task[w] = Idle
    /\ s \in dirty
    /\ dirty' = dirty \ {s}
    /\ task' = [task EXCEPT ![w].at = "lookup", ![w].key = s]
    /\ UNCHANGED <<apiVars, lb, informerVars, started, faultVars>>

\* queue.Get.
Get(w, s) ==
    /\ task[w] = Idle
    /\ s \in dirty
    /\ \A v \in Workers : task[v].key # s
    /\ dirty' = dirty \ {s}
    /\ task' = [task EXCEPT ![w].at = "lookup", ![w].key = s]
    /\ UNCHANGED <<apiVars, lb, informerVars, started, faultVars>>

\* syncService returns; queue.Done.
Return(w) == task' = [task EXCEPT ![w] = Idle]

\* A remote call fails: the error is logged and syncService returns.
GiveUp(w) == Fails /\ Return(w)

Lookup(w) ==
    /\ task[w].at = "lookup"
    /\ LET x == cache[task[w].key]
       IN  \/ x = NoService /\ task' = [task EXCEPT ![w].at = "deletelb"]
           \/ x # NoService /\ x.sel /\ task' = [task EXCEPT ![w].at = "getlb", ![w].obj = x]
           \/ x # NoService /\ ~x.sel /\ Return(w)
    /\ UNCHANGED <<apiVars, lb, informerVars, dirty, started, faultVars>>

\* GetLoadBalancer, and what syncService does with what it finds.
GetLoadBalancer(w) ==
    /\ task[w].at = "getlb"
    /\ \/ /\ LET b == lb[task[w].key]
                 ext == task[w].obj.ext
             IN  \/ ext /\ task' = [task EXCEPT ![w].at = "endpoints", ![w].found = b]
                 \/ ~ext /\ b # 0 /\ task' = [task EXCEPT ![w].at = "deletelb"]
                 \/ ~ext /\ b = 0 /\ Return(w)
          /\ UNCHANGED faultVars
       \/ GiveUp(w)
    /\ UNCHANGED <<apiVars, lb, informerVars, dirty, started>>

\* Deviation: the load balancer of a deleted service is kept.
DeleteLoadBalancerOfLive(w) ==
    /\ task[w].at = "deletelb"
    /\ lb' = IF task[w].obj = NoService THEN lb ELSE [lb EXCEPT ![task[w].key] = 0]
    /\ Return(w)
    /\ UNCHANGED <<apiVars, informerVars, dirty, started, faultVars>>

\* The deletion may fail, before or after it took effect; it is not retried.
DeleteLoadBalancer(w) ==
    LET deleted == [lb EXCEPT ![task[w].key] = 0]
    IN  /\ task[w].at = "deletelb"
        /\ \/ lb' = deleted /\ Return(w) /\ UNCHANGED faultVars
           \/ lb' \in {lb, deleted} /\ GiveUp(w)
        /\ UNCHANGED <<apiVars, informerVars, dirty, started>>

\* getEndpointHosts reads the API server.  Without hosts, or with the hosts the
\* load balancer has, there is nothing to do.
GetEndpointHosts(w) ==
    /\ task[w].at = "endpoints"
    /\ LET h == eps[task[w].key]
           nothingToDo == h \in {0, task[w].found}
       IN  \/ /\ ~nothingToDo
              /\ task' = [task EXCEPT ![w].at = "writelb", ![w].hosts = h]
              /\ UNCHANGED faultVars
           \/ nothingToDo /\ Return(w) /\ UNCHANGED faultVars
           \/ GiveUp(w)
    /\ UNCHANGED <<apiVars, lb, informerVars, dirty, started>>

\* The status is put into the informer's own object, if the informer has not
\* replaced it since.
SetStatus(w) ==
    LET s == task[w].key
    IN  /\ task' = [task EXCEPT ![w].at = "status", ![w].obj.vip = TRUE]
        /\ cache' = IF cache[s].rv = task[w].obj.rv THEN [cache EXCEPT ![s].vip = TRUE] ELSE cache

\* createLoadBalancer (with its reads of the namespace and the network, without
\* which there is nothing to do) or updateLoadBalancer.
WriteLoadBalancer(w) ==
    LET s         == task[w].key
        noNetwork == task[w].found = 0 /\ s \notin networked
        written   == [lb EXCEPT ![s] = task[w].hosts]
    IN  /\ task[w].at = "writelb"
        /\ \/ ~noNetwork /\ lb' = written /\ SetStatus(w) /\ UNCHANGED faultVars
           \/ noNetwork /\ Return(w) /\ UNCHANGED <<lb, cache, faultVars>>
           \/ /\ lb' \in IF noNetwork THEN {lb} ELSE {lb, written}
              /\ GiveUp(w)
              /\ UNCHANGED cache
        /\ UNCHANGED <<apiVars, feed, epSeen, epNotice, dirty, started>>

\* Deviation: the status is written over whatever the service is by now.
UpdateStatusBlindly(w) ==
    LET s == task[w].key
    IN  /\ task[w].at = "status"
        /\ \/ svc[s] # NoService /\ Store(s, [task[w].obj EXCEPT !.rv = rv + 1])
           \/ svc[s] = NoService /\ UNCHANGED <<svc, feed, rv>>
        /\ Return(w)
        /\ UNCHANGED <<eps, networked, types, lb, cache, epSeen, epNotice, dirty, started, faultVars>>

\* updateService: a service that is gone or has changed is left alone, any
\* other failure is retried.  A write that fails may have taken effect.
UpdateStatus(w) ==
    LET s == task[w].key
        current == svc[s] # NoService /\ svc[s].rv = task[w].obj.rv
        write == current /\ Store(s, [task[w].obj EXCEPT !.rv = rv + 1])
        noWrite == UNCHANGED <<svc, feed, rv>>
    IN  /\ task[w].at = "status"
        /\ \/ write /\ Return(w) /\ UNCHANGED faultVars
           \/ ~current /\ noWrite /\ Return(w) /\ UNCHANGED faultVars
           \/ /\ Fails
              /\ write \/ noWrite
              /\ IF task[w].tries + 1 < ClientRetryCount
                 THEN task' = [task EXCEPT ![w].tries = @ + 1]
                 ELSE Return(w)
        /\ UNCHANGED <<eps, networked, types, lb, cache, epSeen, epNotice, dirty, started>>

SyncService(w) ==
    \/ Lookup(w) \/ GetLoadBalancer(w) \/ DeleteLoadBalancer(w)
    \/ GetEndpointHosts(w) \/ WriteLoadBalancer(w) \/ UpdateStatus(w)

Next ==
    \/ \E s \in Services :
          \/ \E np, sel, ext \in BOOLEAN : WriteService(s, np, sel, ext)
          \/ RemoveService(s)
          \/ \E h \in Hosts : WriteEndpoints(s, h)
          \/ DeliverService(s) \/ RelistServices(s) \/ ResyncService(s)
          \/ DeliverEndpoints(s) \/ RelistEndpoints(s)
          \/ \E w \in Workers : Get(w, s)
    \/ startUp \/ Restart
    \/ \E w \in Workers : SyncService(w)

Spec == Init /\ [][Next]_vars

\* The informers deliver and resync, workers run on, and the queue hands out
\* its keys in order.
Fairness ==
    /\ \A s \in Services :
          /\ WF_vars(DeliverService(s)) /\ WF_vars(DeliverEndpoints(s)) /\ WF_vars(ResyncService(s))
          /\ SF_vars(\E w \in Workers : Get(w, s))
    /\ \A w \in Workers : WF_vars(SyncService(w))
FairSpec == Spec /\ Fairness

-----------------------------------------------------------------------------
\* Nothing is under way for service s.
Settled(s) ==
    /\ feed[s] = <<>> /\ ~epNotice[s]
    /\ s \notin dirty
    /\ \A w \in Workers : task[w].key # s

Managed(s) == svc[s].np /\ svc[s].sel /\ s \in networked

\* No call has failed, no watch has broken and the controller has not restarted.
Faultless == failures = 0 /\ relists = 0 /\ restarts = 0

\* The workqueue "guarantees that they will not end up processing the same
\* service at the same time" (worker): a worker that has found no load
\* balancer still finds none when it creates one, several remote calls later.
CreatesOnlyAbsent ==
    \A w \in Workers : task[w].at = "writelb" => lb[task[w].key] = task[w].found

\* Without faults nothing is forgotten: once no event, key or worker is left
\* for a service, its load balancer has the service's hosts, whatever the order
\* in which services, endpoints and workers moved.
SettledIsReconciled ==
    Faultless => \A s \in Services : Settled(s) /\ Managed(s) =>
        IF svc[s].ext THEN eps[s] \in {0, lb[s]} ELSE lb[s] = 0

\* A service that is gone has no load balancer left behind, unless it was of
\* another type after it was of type NetworkProvider, in the same life or in a
\* later one: enqueueService then ignores its deletion.
GoneIsCleared ==
    \A s \in Services : Settled(s) /\ svc[s] = NoService /\ s \notin switched => lb[s] = 0

\* Without faults no load balancer is leaked.
NoLoadBalancerLeaked == Faultless => GoneIsCleared

\* A status write never takes back what a user has changed since the worker
\* looked the service up.
StatusKeepsSpec ==
    [][\A w \in Workers : task[w].at = "status" /\ task'[w] # task[w] =>
          LET s == task[w].key
          IN  \A f \in {"np", "sel", "ext"} : svc'[s][f] = svc[s][f]]_vars

\* With faults of every kind, the resync repairs what exists: after the last
\* change and the last fault every service has the load balancer it wants.
LoadBalancersConverge ==
    <>[](\A s \in Services : Managed(s) =>
            IF svc[s].ext THEN eps[s] \in {0, lb[s]} ELSE lb[s] = 0)
=============================================================================
