--------------------------- MODULE MCContentSync ---------------------------
(***************************************************************************)
(* Small instances of ContentSync for TLC.                                 *)
(***************************************************************************)
EXTENDS ContentSync, TLC

CONSTANTS n1, n2, n3

Set(p, s) == [primary |-> p, secondaries |-> s]

\* One replica set for good.
FixedReplicaSet == {Set(n1, {n2, n3})}

\* Two nodes of which either may be primary.
SwappedReplicaSets == {Set(n1, {n2}), Set(n2, {n1})}

\* Either of two nodes is primary, the other a secondary or left out.
MovingReplicaSets ==
    {Set(n1, {n2}), Set(n1, {}), Set(n2, {n1}), Set(n2, {})}

JobSymmetry ==
    Permutations(SyncJob) \cup Permutations(MergeJob) \cup Permutations(Entry)
=============================================================================
