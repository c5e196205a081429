------------------------- MODULE PrefixReplication -------------------------
(***************************************************************************)
(* What replication of a user's data promises while the replica set stays  *)
(* the same: the leader's log only grows, and every other node holds a     *)
(* prefix of it, which it extends in one step per import or loses as a     *)
(* whole when it is wiped.                                                 *)
(***************************************************************************)
EXTENDS Sequences, Naturals

CONSTANTS
    Replica,    \* the nodes
    Value       \* what the log holds

VARIABLES
    leader,     \* the node that takes writes
    log         \* per node, its copy of the log

vars == <<leader, log>>

Init ==
    /\ leader \in Replica
    /\ log = [r \in Replica |-> << >>]

\* The leader takes a write.
Write(v) ==
    /\ log' = [log EXCEPT ![leader] = Append(@, v)]
    /\ UNCHANGED leader

\* A follower advances to a longer prefix of the leader's log.
Copy(r) ==
    /\ r # leader
    /\ \E n \in Len(log[r]) + 1 .. Len(log[leader]) :
          log' = [log EXCEPT ![r] = SubSeq(log[leader], 1, n)]
    /\ UNCHANGED leader

\* A follower is wiped, to be copied again or not.
Wipe(r) ==
    /\ r # leader
    /\ log' = [log EXCEPT ![r] = << >>]
    /\ UNCHANGED leader

Next ==
    \/ \E v \in Value : Write(v)
    \/ \E r \in Replica : Copy(r) \/ Wipe(r)

Spec == Init /\ [][Next]_vars

(***************************************************************************)
(* Every node's log is a prefix of the leader's.                           *)
(***************************************************************************)
FollowersHoldPrefixes ==
    \A r \in Replica :
        /\ Len(log[r]) <= Len(log[leader])
        /\ log[r] = SubSeq(log[leader], 1, Len(log[r]))
=============================================================================
