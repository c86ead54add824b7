---------------------------- MODULE MCScheduler ----------------------------
(* Scheduler for TLC, with two pods.                                        *)
EXTENDS Scheduler

CONSTANTS p1, p2

Untouched(p) ==
  /\ server[p] = Absent /\ news[p] = "none" /\ pending[p] = <<>> /\ seen[p] = NoNode
  /\ podStates[p] = NoNode
  /\ p \notin podQueue \cup waiting \cup fetched \cup {current.pod}

(* The pods are alike: the first one that is created is p1.  This takes the *)
(* place of symmetry, which a liveness property does not allow.             *)
InOrder == Untouched(p1) => Untouched(p2)

(* Once the cache has lapsed NoOvercommit claims nothing of a second pod;   *)
(* the other properties are about one pod, and are followed with one.       *)
OnePodOnceLapsed == lapsed => \E p \in Pods : Untouched(p)

(* A pod is created, deleted and created again, or two pods are created and *)
(* a binding fails: three changes and failures together.                    *)
FewUpsets == changes + failures =< 3 /\ InOrder /\ OnePodOnceLapsed
============================================================================
