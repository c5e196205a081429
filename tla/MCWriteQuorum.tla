--------------------------- MODULE MCWriteQuorum ---------------------------
(***************************************************************************)
(* Small instances of WriteQuorum for TLC.                                 *)
(***************************************************************************)
EXTENDS WriteQuorum, TLC

CONSTANTS n1, n2, n3

Set(p, s) == [primary |-> p, secondaries |-> s]

\* One replica set for good.
FixedReplicaSet == {Set(n1, {n2})}

\* The primary stays and its secondary is replaced.
ReplacedSecondary == {Set(n1, {n2}), Set(n1, {n3})}

\* A failover: two nodes swap roles.
SwappedReplicaSets == {Set(n1, {n2}), Set(n2, {n1})}

EntrySymmetry == Permutations(Entry)
=============================================================================
