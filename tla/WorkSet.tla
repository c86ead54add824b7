------------------------------ MODULE WorkSet ------------------------------
(***************************************************************************)
(* What the work queue promises its users, without queue, locks and        *)
(* wake-ups: the package comment of pkg/util/workqueue ("fair", "stingy",  *)
(* "multiple consumers and producers", "shutdown notifications") as a      *)
(* state machine over a set.  Controllers are written against this         *)
(* machine; module WorkQueue implements it.                                *)
(***************************************************************************)
CONSTANTS
    Items,      \* the keys that can be marked
    Workers,    \* the consumers
    None        \* the item of a worker that holds none

VARIABLES
    pending,    \* the items marked since they were last handed out
    holding,    \* the item in the hands of each worker
    closed,     \* shutdown was requested
    gone        \* the workers that were told to stop

vars == <<pending, holding, closed, gone>>

Held == {holding[w] : w \in Workers} \ {None}

Init ==
    /\ pending = {}
    /\ holding = [w \in Workers |-> None]
    /\ closed = FALSE
    /\ gone = {}

\* Marks collapse: an item is handed out once for any number of marks.
Mark(i) ==
    /\ ~closed
    /\ pending' = pending \cup {i}
    /\ UNCHANGED <<holding, closed, gone>>

\* An item that is in somebody's hands is not handed out again.
Take(w, i) ==
    /\ w \notin gone /\ holding[w] = None
    /\ i \in pending \ Held
    /\ pending' = pending \ {i}
    /\ holding' = [holding EXCEPT ![w] = i]
    /\ UNCHANGED <<closed, gone>>

Finish(w) ==
    /\ holding[w] # None
    /\ holding' = [holding EXCEPT ![w] = None]
    /\ UNCHANGED <<pending, closed, gone>>

Close ==
    /\ closed' = TRUE
    /\ UNCHANGED <<pending, holding, gone>>

\* A worker is told to stop only when nothing can be handed out any more.
Leave(w) ==
    /\ closed /\ pending \subseteq Held
    /\ holding[w] = None
    /\ gone' = gone \cup {w}
    /\ UNCHANGED <<pending, holding, closed>>

Next ==
    \/ \E i \in Items : Mark(i)
    \/ \E w \in Workers : (\E i \in Items : Take(w, i)) \/ Finish(w) \/ Leave(w)
    \/ Close

Spec == Init /\ [][Next]_vars

=============================================================================
