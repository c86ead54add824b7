---------------------------- MODULE Expectations ----------------------------
(***************************************************************************)
(* ControllerExpectations with UID tracking (pkg/controller/               *)
(* controller_utils.go) for one controller key: how many creations and     *)
(* deletions of its own the controller has not seen yet in its informer.   *)
(* Controllers share the store; each key has an entry of its own, which    *)
(* the informer's handlers lower while the key's worker sets and reads it. *)
(***************************************************************************)
EXTENDS Integers, FiniteSets

VARIABLES
    exp,        \* the ControlleeExpectations, absent at first
    uids        \* the UIDSet: deletions that are expected

expVars == <<exp, uids>>

NoExpectations == [exists |-> FALSE, add |-> 0, del |-> 0, expired |-> FALSE]

ExpectationsTypeOK(Uids) ==
    /\ exp \in [exists : BOOLEAN, add : Int, del : Int, expired : BOOLEAN]
    /\ uids \subseteq Uids

ExpectationsInit == exp = NoExpectations /\ uids = {}

SetExpectations(a, d) ==
    exp' = [exists |-> TRUE, add |-> a, del |-> d, expired |-> FALSE]

ExpectCreations(n) == SetExpectations(n, 0) /\ UNCHANGED uids

ExpectDeletions(keys) ==
    /\ uids' = keys
    /\ SetExpectations(0, Cardinality(keys))

\* LowerExpectations: the counters may fall below zero.
CreationObserved ==
    /\ exp' = IF exp.exists THEN [exp EXCEPT !.add = @ - 1] ELSE exp
    /\ UNCHANGED uids

\* Deviation (see module WorkQueue): a deletion counts each time it is seen.
DeletionCounted(key) ==
    /\ exp' = IF exp.exists THEN [exp EXCEPT !.del = @ - 1] ELSE exp
    /\ uids' = uids \ {key}

\* A deletion counts once, whether seen as an update or as a delete.
DeletionObserved(key) ==
    /\ exp' = IF exp.exists /\ key \in uids THEN [exp EXCEPT !.del = @ - 1] ELSE exp
    /\ uids' = uids \ {key}

DeleteExpectations == exp' = NoExpectations /\ uids' = {}

Fulfilled == exp.add <= 0 /\ exp.del <= 0

\* Deviation: expectations are for ever.
SatisfiedOnlyIfFulfilled == exp.exists => Fulfilled

SatisfiedExpectations == exp.exists => Fulfilled \/ exp.expired

\* ExpectationsTimeout has passed since they were set.
Expire ==
    /\ exp.exists /\ ~exp.expired
    /\ exp' = [exp EXCEPT !.expired = TRUE]
    /\ UNCHANGED uids
=============================================================================
