--------------------------- MODULE MCAttachDetach ---------------------------
(* Instances of AttachDetach for TLC: pods that hand one volume on.        *)
EXTENDS AttachDetach, TLC

CONSTANTS p1, p2, v1

OneVolume == [p \in Pods |-> v1]

Symmetry == Permutations(Pods)

\* Nothing is said of a volume once it is crossed.
Uncrossed == crossed # Volumes

\* The wait for an unmount matters only to a detach that crosses the volume.
\* A failure takes the place of the second pod.
FewUpsets == Uncrossed /\ expired = {} /\ Len(log) + failures <= 3

\* A failure takes the place of the pod's deletion.
EarlyFailure == Uncrossed /\ Len(log) + failures <= 2
=============================================================================
