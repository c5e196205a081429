---------------------------- MODULE WriteQuorum ----------------------------
(***************************************************************************)
(* The write quorum: after its transaction a write route asks the          *)
(* secondaries of its session to sync and answers once one of them reports *)
(* the primary's clock (issueAndWaitForSecondarySyncRequests), here with   *)
(* the quorum enforced. Requests go through the node's manual sync queue,  *)
(* which a deduplicator in redis is to keep free of duplicates.            *)
(*                                                                         *)
(* The module adds the route handlers, the queue and the deduplicator to   *)
(* the nodes, jobs and faults of ContentSync.                              *)
(***************************************************************************)
EXTENDS ContentSync

CONSTANT MaxManualSyncs   \* bound: waiting jobs per node and secondary

ASSUME WriteQuorumAssumption == MaxManualSyncs \in Nat

VARIABLES
    sessions,      \* per node, the secondaries in sessions of its writes
    replication,   \* per entry, what its write's handler does
    manualSyncs,   \* per node and secondary, waiting manual sync jobs
    recorded       \* the deduplicator's keys

quorumVars == <<sessions, replication, manualSyncs, recorded>>

allVars == <<vars, quorumVars>>

(***************************************************************************)
(* The deduplicator's key: the node whose redis it is in, the secondary,   *)
(* and the request's "immediate" flag as the key's text has it.            *)
(***************************************************************************)
Key == [node : Node, secondary : Node,
        immediate : {"true", "[object Object]"}]

KeyFor(n, s, flag) == [node |-> n, secondary |-> s, immediate |-> flag]

(***************************************************************************)
(* A handler: secondaries whose sync is still to be requested, those it    *)
(* polls, the clock it polls them for (once read), and the outcome of      *)
(* promiseAny.                                                             *)
(***************************************************************************)
NotWritten == [outcome |-> "none"]

Handler ==
    {NotWritten} \cup
    [outcome : {"committed", "pending", "confirmed", "failed"},
     clock : Nat \cup {-1}, unasked : SUBSET Node, polled : SUBSET Node]

QuorumTypeOK ==
    /\ TypeOK
    /\ sessions \in [Node -> SUBSET SUBSET Node]
    /\ replication \in [Entry -> Handler]
    /\ manualSyncs \in [Node -> [Node -> 0 .. MaxManualSyncs]]
    /\ recorded \in SUBSET Key

QuorumInit ==
    /\ Init
    /\ sessions = [n \in Node |-> {}]
    /\ replication = [e \in Entry |-> NotWritten]
    /\ manualSyncs = [n \in Node |-> [s \in Node |-> 0]]
    /\ recorded = {}

-----------------------------------------------------------------------------
(* The write *)

\* A session keeps the endpoints that ensurePrimaryMiddleware looked up.
Authorize(n) ==
    /\ AuthorizeWrite(n)
    /\ sessions' = [sessions EXCEPT ![n] = {replicaSet.secondaries}]
    /\ UNCHANGED <<replication, manualSyncs, recorded>>

\* Another write is let in beside the ones in flight.
AuthorizeAgain(n) ==
    /\ writing[n]
    /\ replicaSet.primary = n
    /\ replicaSet.secondaries \notin sessions[n]
    /\ sessions' =
         [sessions EXCEPT ![n] = @ \cup {replicaSet.secondaries}]
    /\ UNCHANGED <<vars, replication, manualSyncs, recorded>>

\* The route's transaction commits; then it waits for the quorum. The lookup
\* of a secondary's endpoint may have failed.
Commit(n, e) ==
    /\ CommitWrite(n, e)
    /\ \E S \in sessions[n] : \E known \in SUBSET S :
         replication' = [replication EXCEPT ![e] =
           [outcome |-> "committed", clock |-> -1, unasked |-> known,
            polled |-> {}]]
    /\ UNCHANGED <<sessions, manualSyncs, recorded>>

-----------------------------------------------------------------------------
(* The handler *)

At(e, outcome) == replication[e].outcome = outcome

Ended(h) == [h EXCEPT !.outcome = "failed", !.unasked = {}, !.polled = {}]

Confirmed(h) == [h EXCEPT !.outcome = "confirmed", !.polled = {}]

\* A resolved promiseAny does not look at further polls.
Asked(h, s) ==
    [h EXCEPT !.unasked = @ \ {s},
              !.polled = IF h.outcome = "pending" THEN @ \cup {s} ELSE {}]

TimedOut(h, s) ==
    IF h.unasked = {} /\ h.polled = {s}
      THEN Ended(h)
      ELSE [h EXCEPT !.polled = @ \ {s}]

\* The handler reads the primary's clock by a query of its own: it may find
\* later writes in it, or no user any more. No secondary makes no quorum.
ReadClock(e) ==
    /\ At(e, "committed")
    /\ LET c == db[writtenAt[e]].clock IN
       replication' = [replication EXCEPT ![e] =
         IF c > 0 /\ @.unasked # {}
           THEN [@ EXCEPT !.outcome = "pending", !.clock = c]
           ELSE Ended(@)]
    /\ UNCHANGED <<vars, sessions, manualSyncs, recorded>>

\* Variant: recordSync gets its arguments in the declared order.
RecordedInOrder(n, s) == KeyFor(n, s, "true")

\* recordSync(..., immediate, jobProps) is called with the job for immediate
\* and the flag for jobProps: the job's text becomes part of the key.
RecordedAs(n, s) == KeyFor(n, s, "[object Object]")

IsDuplicate(n, s) == KeyFor(n, s, "true") \in recorded

\* A waiting duplicate is taken for success without any polling. Otherwise
\* the sync is recorded and enqueued, and the secondary polled from now on.
\* Other secondaries are asked even after one has confirmed.
AskSecondary(e, s) ==
    /\ replication[e].outcome \in {"pending", "confirmed"}
    /\ s \in replication[e].unasked
    /\ LET n == writtenAt[e] IN
       \/ /\ IsDuplicate(n, s)
          /\ replication' =
               [replication EXCEPT ![e] = Confirmed(Asked(@, s))]
          /\ UNCHANGED <<manualSyncs, recorded>>
       \/ /\ ~IsDuplicate(n, s)
          /\ manualSyncs[n][s] < MaxManualSyncs
          /\ replication' = [replication EXCEPT ![e] = Asked(@, s)]
          /\ manualSyncs' = [manualSyncs EXCEPT ![n][s] = @ + 1]
          /\ recorded' = recorded \cup {RecordedAs(n, s)}
    /\ UNCHANGED <<vars, sessions>>

\* Variant: a secondary one record behind counts as well.
HasAlmostReached(e, s) == db[s].clock + 1 >= replication[e].clock

HasReached(e, s) == db[s].clock >= replication[e].clock

\* The secondary reports a clock that has reached the one read: promiseAny
\* resolves.
PollConfirms(e, s) ==
    /\ At(e, "pending")
    /\ s \in replication[e].polled
    /\ HasReached(e, s)
    /\ replication' = [replication EXCEPT ![e] = Confirmed(@)]
    /\ UNCHANGED <<vars, sessions, manualSyncs, recorded>>

\* Polling a secondary times out; the last one to do so fails the quorum.
PollTimesOut(e, s) ==
    /\ At(e, "pending")
    /\ s \in replication[e].polled
    /\ replication' = [replication EXCEPT ![e] = TimedOut(@, s)]
    /\ UNCHANGED <<vars, sessions, manualSyncs, recorded>>

-----------------------------------------------------------------------------
(* The manual sync queue *)

\* Variants: the endpoints are swapped, the type is sent for the mode.
ManualRequestSwapped(n, s) == [node |-> n, source |-> s, mode |-> "default"]

ManualRequestByType(n, s) == [node |-> s, source |-> n, mode |-> "manual"]

ManualRequest(n, s) == [node |-> s, source |-> n, mode |-> "default"]

\* A waiting job becomes active and its key is removed. It posts its request
\* unless the secondary failed too often today or the post fails. A failed
\* post or sync may enqueue the job again, without recording it.
RunManualSync(n, s) ==
    /\ manualSyncs[n][s] > 0
    /\ recorded' = recorded \ {KeyFor(n, s, "true")}
    /\ \/ UNCHANGED manualSyncs
       \/ manualSyncs' = [manualSyncs EXCEPT ![n][s] = @ - 1]
    /\ \/ /\ Cardinality(requests) < MaxRequests
          /\ requests' = requests \cup {ManualRequest(n, s)}
       \/ UNCHANGED requests
    /\ UNCHANGED <<replicaSet, everPrimary, db, writeLock, writing,
                   writtenAt, sync, merge, updates, faults, sessions,
                   replication>>

\* A restarting node drops its waiting jobs and clears its deduplicator;
\* clients that still wait for its answer get none.
Crash(n) ==
    /\ CrashRestart(n)
    /\ sessions' = [sessions EXCEPT ![n] = {}]
    /\ replication' = [e \in Entry |->
         IF writtenAt[e] = n /\ replication[e].outcome \in
                                  {"committed", "pending", "confirmed"}
           THEN [replication[e] EXCEPT
                   !.outcome = IF @ = "confirmed" THEN @ ELSE "failed",
                   !.unasked = {}, !.polled = {}]
           ELSE replication[e]]
    /\ manualSyncs' = [manualSyncs EXCEPT ![n] = [s \in Node |-> 0]]
    /\ recorded' = {k \in recorded : k.node # n}

-----------------------------------------------------------------------------

HandlerStep(e) ==
    \/ ReadClock(e)
    \/ \E s \in Node :
        \/ AskSecondary(e, s)
        \/ PollConfirms(e, s)
        \/ PollTimesOut(e, s)

\* The other steps of ContentSync; sessions last as long as their writes.
OtherStep ==
    /\ \/ \E n \in Node : CreateUser(n) \/ EndWrites(n) \/ LockExpires(n)
       \/ \E j \in SyncJob : SyncStep(j)
       \/ \E m \in MergeJob : MergeStep(m)
       \/ \E s \in Node : IssueSync(s)
       \/ \E r \in requests : LoseRequest(r)
       \/ \E rs \in ReplicaSet : UpdateReplicaSet(rs)
    /\ sessions' = [n \in Node |-> IF writing'[n] THEN sessions[n] ELSE {}]
    /\ UNCHANGED <<replication, manualSyncs, recorded>>

QuorumNext ==
    \/ \E n \in Node :
        \/ Authorize(n)
        \/ AuthorizeAgain(n)
        \/ \E e \in Entry : Commit(n, e)
        \/ \E s \in Node : RunManualSync(n, s)
        \/ Crash(n)
    \/ \E e \in Entry : HandlerStep(e)
    \/ OtherStep

QuorumSpec == QuorumInit /\ [][QuorumNext]_allVars

-----------------------------------------------------------------------------
(* Properties *)

(***************************************************************************)
(* "Await 2/3 write quorum (replicating data to at least 1 secondary)":    *)
(* when a handler confirms a write, a node other than the one that took it *)
(* has its entry by then. Handlers only compare clocks.                    *)
(***************************************************************************)
ConfirmsOnlyReplicated ==
    [][\A e \in Entry :
          ~At(e, "confirmed") /\ At(e, "confirmed")' =>
             \E s \in Node \ {writtenAt[e]} :
                e \in Entries(db[s].records)]_allVars

(***************************************************************************)
(* With a lasting replica set the nodes behave as ContentSync says: a      *)
(* handler's requests are among those it lets a primary issue.             *)
(***************************************************************************)
ImplementsContentSync == Spec
=============================================================================
