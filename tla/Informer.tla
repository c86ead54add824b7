------------------------------ MODULE Informer ------------------------------
(***************************************************************************)
(* An informer: a Reflector (pkg/client/cache/reflector.go) lists and      *)
(* watches the API server and feeds a DeltaFIFO, whose consumer keeps a    *)
(* store (pkg/controller/framework/controller.go).                         *)
(*                                                                         *)
(* The API server (external) is the sequence hist of the collections it    *)
(* went through: hist[r + 1] is the collection at resource version r.  A   *)
(* list with ResourceVersion "0" is served from the API server's watch     *)
(* cache: any collection not older than what this client has seen.  A      *)
(* watch delivers the changes after the client's resource version in order *)
(* and may be cut at any time; what is lost is the rest of the stream.     *)
(*                                                                         *)
(* ListAndWatch starts a goroutine that calls Resync when a timer fires    *)
(* and then arms a new timer.  The deferred cleanup stops the timer that   *)
(* was armed when ListAndWatch began, so a goroutine that re-armed its     *)
(* timer, or that has already received the tick, outlives ListAndWatch:    *)
(* orphans counts these.                                                   *)
(***************************************************************************)
EXTENDS DeltaFIFO

CONSTANTS
    MaxRV,          \* bound on the number of writes to the collection
    MaxRelists,     \* bound on the number of times ListAndWatch returns
    MaxResyncs      \* bound on the number of resync timer ticks

ASSUME BoundsAreNaturals == MaxRV \in Nat /\ MaxRelists \in Nat /\ MaxResyncs \in Nat

VARIABLES
    hist,           \* the collections the API server went through
    watching,       \* ListAndWatch is in its watch loop
    resourceVersion,\* the reflector's position in hist
    timer,          \* of the current resync goroutine: "none", "first", "again"
    orphans,        \* resync goroutines with a timer, of earlier ListAndWatch calls
    relists, resyncs,
    unlisted,       \* history: keys of the first list that were not popped yet
    diverged        \* history: keys whose pending deltas lead away from the server

reflectorVars == <<watching, resourceVersion, timer, orphans, relists, resyncs>>
vars == <<fifoVars, reflectorVars, hist, unlisted, diverged>>

Collections == [Keys -> 0..MaxRV]
rv == Len(hist) - 1
Server == hist[Len(hist)]
Seen == hist[resourceVersion + 1]

TypeOK ==
    /\ items \in [Keys -> Seq(Delta)]
    /\ queue \in Seq(Keys)
    /\ populated \in BOOLEAN
    /\ initialPopulationCount \in Nat
    /\ clientState \in [Keys -> 0..MaxRV]
    /\ notified \in [Keys -> 0..MaxRV]
    /\ hist \in Seq(Collections) /\ hist # <<>>
    /\ watching \in BOOLEAN
    /\ resourceVersion \in 0..rv
    /\ timer \in {"none", "first", "again"}
    /\ orphans \in Nat
    /\ relists \in 0..MaxRelists
    /\ resyncs \in 0..MaxResyncs
    /\ unlisted \subseteq Keys
    /\ diverged \subseteq Keys

Init ==
    /\ FifoInit
    /\ hist = <<[k \in Keys |-> 0]>>
    /\ watching = FALSE
    /\ resourceVersion = 0
    /\ timer = "none"
    /\ orphans = 0
    /\ relists = 0 /\ resyncs = 0
    /\ unlisted = {}
    /\ diverged = {}

-----------------------------------------------------------------------------
\* The API server creates or updates object k, or deletes it.
Write(k) ==
    /\ rv < MaxRV
    /\ hist' = Append(hist, [Server EXCEPT ![k] = rv + 1])
    /\ UNCHANGED <<fifoVars, reflectorVars, unlisted, diverged>>

Remove(k) ==
    /\ rv < MaxRV
    /\ Server[k] # 0
    /\ hist' = Append(hist, [Server EXCEPT ![k] = 0])
    /\ UNCHANGED <<fifoVars, reflectorVars, unlisted, diverged>>

-----------------------------------------------------------------------------
\* The keys a Replace by list leads away from it: a pending creation of an
\* object that is not listed, and a pending deletion of one that is.
Replaced(list) ==
    {k \in Keys :
        \/ list[k] = 0 /\ clientState[k] = 0 /\ Pending(k) # 0
        \/ list[k] # 0 /\ EndsDeleted(items[k])}

\* ListAndWatch up to its watch loop: list, syncWith, start the resync
\* goroutine.
ListAndWatch ==
    /\ ~watching
    /\ \E r \in resourceVersion..rv :
          /\ Replace(hist[r + 1])
          /\ resourceVersion' = r
          /\ unlisted' = IF populated THEN unlisted ELSE {k \in Keys : hist[r + 1][k] # 0}
          /\ diverged' = Replaced(hist[r + 1])
    /\ watching' = TRUE
    /\ timer' = "first"
    /\ UNCHANGED <<hist, orphans, relists, resyncs>>

\* Deviation: an event of the watch does not advance the resource version.
WatchEventKeepsVersion ==
    /\ watching
    /\ resourceVersion < rv
    /\ LET next == hist[resourceVersion + 2]
       IN  \E k \in {j \in Keys : next[j] # Seen[j]} :
             /\ \/ next[k] = 0 /\ Delete(k, Seen[k])
                \/ next[k] # 0 /\ Seen[k] = 0 /\ Set(k, "Added", next[k])
                \/ next[k] # 0 /\ Seen[k] # 0 /\ Set(k, "Updated", next[k])
             /\ diverged' = diverged \ {k}
    /\ UNCHANGED <<reflectorVars, hist, unlisted>>

\* watchHandler takes the next event of the watch.
WatchEvent ==
    /\ watching
    /\ resourceVersion < rv
    /\ LET next == hist[resourceVersion + 2]
       IN  \E k \in {j \in Keys : next[j] # Seen[j]} :
             /\ \/ next[k] = 0 /\ Delete(k, Seen[k])
                \/ next[k] # 0 /\ Seen[k] = 0 /\ Set(k, "Added", next[k])
                \/ next[k] # 0 /\ Seen[k] # 0 /\ Set(k, "Updated", next[k])
             /\ diverged' = diverged \ {k}
    /\ resourceVersion' = resourceVersion + 1
    /\ UNCHANGED <<watching, timer, orphans, relists, resyncs, hist, unlisted>>

\* The watch ends with an error, or is refused: ListAndWatch returns, and
\* wait.Until calls it again.  The deferred cleanup stops the first timer,
\* unless its tick has already been taken.
WatchFails ==
    /\ watching
    /\ relists < MaxRelists
    /\ relists' = relists + 1
    /\ watching' = FALSE
    /\ \/ timer = "first" /\ UNCHANGED orphans
       \/ orphans' = orphans + 1
    /\ timer' = "none"
    /\ UNCHANGED <<fifoVars, resourceVersion, resyncs, hist, unlisted, diverged>>

\* The keys a Resync leads back to the version the store has.
Resynced ==
    {k \in Keys : /\ clientState[k] # 0
                  /\ ~EndsDeleted(items[k])
                  /\ Pending(k) # clientState[k]}

\* A resync goroutine receives its tick, calls Resync and arms a new timer.
ResyncTick ==
    /\ resyncs < MaxResyncs
    /\ resyncs' = resyncs + 1
    /\ \/ timer # "none" /\ timer' = "again"
       \/ orphans > 0 /\ UNCHANGED timer
    /\ Resync
    /\ diverged' = diverged \cup Resynced
    /\ UNCHANGED <<watching, resourceVersion, orphans, relists, hist, unlisted>>

\* processLoop.
Process ==
    /\ Pop
    /\ unlisted' = unlisted \ {Head(queue)}
    /\ UNCHANGED <<reflectorVars, hist, diverged>>

Next ==
    \/ \E k \in Keys : Write(k) \/ Remove(k)
    \/ ListAndWatch \/ WatchEvent \/ WatchFails \/ ResyncTick
    \/ Process

Spec == Init /\ [][Next]_vars

\* The reflector's goroutine lists again whenever it is not watching and
\* reads the watch whenever it has an event; processLoop never stops.
Fairness == WF_vars(ListAndWatch) /\ WF_vars(WatchEvent) /\ WF_vars(Process)
FairSpec == Spec /\ Fairness

-----------------------------------------------------------------------------
\* The API server changes one object per resource version.
OneChangePerVersion ==
    \A r \in 1..(Len(hist) - 1) : \A j, k \in Keys :
        hist[r + 1][j] # hist[r][j] /\ hist[r + 1][k] # hist[r][k] => j = k

\* Once the pending deltas are processed the store shows the collection at
\* the reflector's resource version: the only keys that may differ are those
\* for which a relist or a resync crossed a pending delta.
StoreFollowsServer ==
    \A k \in Keys \ diverged : Pending(k) = Seen[k]

\* The versions of k in the collections up to the reflector's position.
Passed(k) == {hist[r][k] : r \in 1..(resourceVersion + 1)}

\* Nothing is invented, mixed up between keys or taken from the future: what the
\* store holds for a key and what its handlers are told, be it listed, watched
\* or synced again, is a version of that key which the server had at or before
\* the resource version the next watch begins from.
ShowsThePast ==
    \A k \in Keys :
        /\ clientState[k] \in Passed(k) /\ notified[k] \in Passed(k)
        /\ \A i \in DOMAIN items[k] : items[k][i].obj \in Passed(k)

\* HasSynced is true only when every object of the first list was handed to
\* the consumer.
SyncedMeansListed == HasSynced => unlisted = {}

\* When the writes stop the store becomes equal to the server, and stays so,
\* on every key that did not diverge.
StoreConverges ==
    <>[](\A k \in Keys \ diverged : clientState[k] = Server[k])

\* Relists alone never lead the cache back behind a notification: it is at
\* least as fresh as every one handed out as long as no resync has happened.
FreshUntilResync == resyncs = 0 => CacheAtLeastAsFresh
=============================================================================
