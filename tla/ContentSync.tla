---------------------------- MODULE ContentSync ----------------------------
(***************************************************************************)
(* Replication of one user's data between Content Nodes.                   *)
(*                                                                         *)
(* The user's replica set (a primary and secondaries, read from Discovery) *)
(* says which node takes the user's writes. Secondaries copy them in sync  *)
(* jobs (secondarySyncFromPrimary), one export page at a time; a primary   *)
(* recovers data that only another node has in merge jobs                  *)
(* (primarySyncFromSecondary) and then has that node wiped. A job holds    *)
(* the redis write lock of the wallet on the node it changes.              *)
(*                                                                         *)
(* Jobs are split at their network calls, so that client writes, replica   *)
(* set updates, other jobs, failures, lock expiry and crashes interleave  *)
(* with them. Each database transaction is one step.                       *)
(***************************************************************************)
EXTENDS ClockRecords

CONSTANTS
    Node,             \* Content Nodes
    SyncJob,          \* slots of running sync jobs, over all nodes
    MergeJob,         \* slots of running merge jobs, over all nodes
    ReplicaSet,       \* the replica sets the user may be given
    MaxRequests, MaxReplicaSetUpdates, MaxFaults, \* bounds of the model
    LockMayExpire,    \* whether a job may outlive its lock's 30 minutes
    StableDuringWipe  \* whether updates spare nodes that are about to wipe

ASSUME ContentSyncAssumption ==
    /\ ReplicaSet \subseteq [primary : Node, secondaries : SUBSET Node]
    /\ \A rs \in ReplicaSet : rs.primary \notin rs.secondaries
    /\ MaxRequests \in Nat
    /\ MaxReplicaSetUpdates \in Nat
    /\ MaxFaults \in Nat
    /\ LockMayExpire \in BOOLEAN
    /\ StableDuringWipe \in BOOLEAN

CONSTANT Nobody       \* the writer of an entry that is not written yet
ASSUME NobodyAssumption == Nobody \notin Node

VARIABLES
    replicaSet,       \* the user's replica set, as Discovery answers it
    everPrimary,      \* the primaries in Discovery's history of the user
    db,               \* per node, the user's rows
    writeLock,        \* per node, the holder type in WalletWriteLock's key
    writing,          \* per node, whether an authorised write is in flight
    writtenAt,        \* per entry, the node that acknowledged its write
    requests,         \* sync requests posted to nodes and not yet started
    sync,             \* per slot, the sync job in it
    merge,            \* per slot, the merge job in it
    updates, faults  \* replica set updates and faults so far

vars == <<replicaSet, everPrimary, db, writeLock, writing, writtenAt,
          requests, sync, merge, updates, faults>>

Mode == {"default", "forceResync", "forceWipe"}

Request == [node : Node, source : Node, mode : Mode]

LockHolder == {"none", "secondarySyncFromPrimary", "primarySyncFromSecondary"}

ExportPage == [clock : Nat \cup {-1}, records : SUBSET Record]

EmptyPage == [clock |-> -1, records |-> {}]

(***************************************************************************)
(* A sync job: its request, the secondaries of the replica set it read,    *)
(* the local clock it asked an export for, and the export. In its finally  *)
(* block only the node matters.                                            *)
(***************************************************************************)
Idle == [pc |-> "idle"]

SyncState ==
    {Idle} \cup [pc : {"releasing"}, node : Node] \cup
    [pc : {"locked", "checking", "wiping", "fetching", "importing"},
     node : Node, source : Node, mode : Mode, secondaries : SUBSET Node,
     localMax : Nat \cup {-1}, page : ExportPage]

(***************************************************************************)
(* A merge job: the primary it runs on, the node it merges and what to     *)
(* have that node do then, the secondaries at its start, the first clock   *)
(* of the page, the page, and whether the user had no row.                 *)
(***************************************************************************)
MergeState ==
    {Idle} \cup [pc : {"failed"}, node : Node] \cup
    [pc : {"locked", "fetching", "filtering", "saving", "merged",
           "requesting"},
     node : Node, secondary : Node, mode : Mode \ {"default"},
     secondaries : SUBSET Node, min : Nat, page : ExportPage,
     fresh : BOOLEAN]

TypeOK ==
    /\ replicaSet \in ReplicaSet
    /\ everPrimary \in SUBSET Node
    /\ db \in [Node -> User]
    /\ writeLock \in [Node -> LockHolder]
    /\ writing \in [Node -> BOOLEAN]
    /\ writtenAt \in [Entry -> Node \cup {Nobody}]
    /\ requests \in SUBSET Request
    /\ sync \in [SyncJob -> SyncState]
    /\ merge \in [MergeJob -> MergeState]
    /\ updates \in 0 .. MaxReplicaSetUpdates
    /\ faults \in 0 .. MaxFaults

Init ==
    /\ replicaSet \in ReplicaSet
    /\ everPrimary = {replicaSet.primary}
    /\ db = [n \in Node |-> NoUser]
    /\ writeLock = [n \in Node |-> "none"]
    /\ writing = [n \in Node |-> FALSE]
    /\ writtenAt = [e \in Entry |-> Nobody]
    /\ requests = {}
    /\ sync = [j \in SyncJob |-> Idle]
    /\ merge = [m \in MergeJob |-> Idle]
    /\ updates = 0
    /\ faults = 0

\* Network errors, failed transactions and crashes have a common bound.
Fault ==
    /\ faults < MaxFaults
    /\ faults' = faults + 1

-----------------------------------------------------------------------------
(* Clients *)

\* POST /users: any node creates the user's row if it has none.
CreateUser(n) ==
    /\ db[n] = NoUser
    /\ db' = [db EXCEPT ![n] = FreshUser]
    /\ UNCHANGED <<replicaSet, everPrimary, writeLock, writing, writtenAt,
                   requests, sync, merge, updates, faults>>

\* Variant: ensurePrimaryMiddleware is missing from a route.
AuthorizeAnywhere(n) ==
    /\ db[n] # NoUser
    /\ ~writing[n]
    /\ writing' = [writing EXCEPT ![n] = TRUE]
    /\ UNCHANGED <<replicaSet, everPrimary, db, writeLock, writtenAt,
                   requests, sync, merge, updates, faults>>

\* authMiddleware and ensurePrimaryMiddleware let a write in. The wallet's
\* write lock is not consulted.
AuthorizeWrite(n) ==
    /\ db[n] # NoUser
    /\ replicaSet.primary = n
    /\ ~writing[n]
    /\ writing' = [writing EXCEPT ![n] = TRUE]
    /\ UNCHANGED <<replicaSet, everPrimary, db, writeLock, writtenAt,
                   requests, sync, merge, updates, faults>>

\* The route's transaction commits the new data record. Other authorised
\* writes may still be in flight.
CommitWrite(n, e) ==
    /\ writing[n]
    /\ writtenAt[e] = Nobody
    /\ CanAppend(db[n])
    /\ db' = [db EXCEPT ![n] = Append1(@, e)]
    /\ writtenAt' = [writtenAt EXCEPT ![e] = n]
    /\ UNCHANGED <<replicaSet, everPrimary, writeLock, writing, requests,
                   sync, merge, updates, faults>>

\* No authorised write is left: each has committed or failed.
EndWrites(n) ==
    /\ writing[n]
    /\ writing' = [writing EXCEPT ![n] = FALSE]
    /\ UNCHANGED <<replicaSet, everPrimary, db, writeLock, writtenAt,
                   requests, sync, merge, updates, faults>>

-----------------------------------------------------------------------------
(* Sync requests *)

\* The primary asks a secondary to sync: after a write, or when its state
\* machine finds the secondary behind.
IssueSync(s) ==
    /\ s \in replicaSet.secondaries
    /\ Cardinality(requests) < MaxRequests
    /\ requests' = requests \cup
         {[node |-> s, source |-> replicaSet.primary, mode |-> "default"]}
    /\ UNCHANGED <<replicaSet, everPrimary, db, writeLock, writing,
                   writtenAt, sync, merge, updates, faults>>

\* The post fails, or the debounce timer is replaced by a later request's.
LoseRequest(r) ==
    /\ r \in requests
    /\ Fault
    /\ requests' = requests \ {r}
    /\ UNCHANGED <<replicaSet, everPrimary, db, writeLock, writing,
                   writtenAt, sync, merge, updates>>

-----------------------------------------------------------------------------
(* Sync jobs: handleSyncFromPrimary *)

SyncAt(j, pc) == sync[j].pc = pc

\* Every return and throw of handleSyncFromPrimary goes through its finally.
Releasing(n) == [pc |-> "releasing", node |-> n]

SyncFinish(j) == sync' = [sync EXCEPT ![j] = Releasing(@.node)]

\* A queue worker takes a request and tries to acquire the write lock.
SyncStart(j, r) ==
    /\ SyncAt(j, "idle")
    /\ r \in requests
    /\ requests' = requests \ {r}
    /\ \/ /\ writeLock[r.node] = "none"
          /\ writeLock' =
               [writeLock EXCEPT ![r.node] = "secondarySyncFromPrimary"]
          /\ sync' = [sync EXCEPT ![j] =
               [pc |-> "locked", node |-> r.node, source |-> r.source,
                mode |-> r.mode, secondaries |-> {}, localMax |-> -1,
                page |-> EmptyPage]]
       \/ /\ writeLock[r.node] # "none"   \* abort_sync_in_progress
          /\ sync' = [sync EXCEPT ![j] = Releasing(r.node)]
          /\ UNCHANGED writeLock
    /\ UNCHANGED <<replicaSet, everPrimary, db, writing, writtenAt, merge,
                   updates, faults>>

\* The replica set is fetched and its primary is the node to sync from,
\* which for a forced resync has signed the request.
SyncFromPrimary(j) ==
    /\ SyncAt(j, "locked")
    /\ replicaSet.primary = sync[j].source

\* An ordinary sync of a secondary asks for what follows its local clock.
SyncCheckDefault(j) ==
    /\ SyncFromPrimary(j)
    /\ sync[j].mode = "default"
    /\ sync[j].node \in replicaSet.secondaries
    /\ sync' = [sync EXCEPT ![j].pc = "fetching",
                            ![j].secondaries = replicaSet.secondaries,
                            ![j].localMax = db[sync[j].node].clock]
    /\ UNCHANGED <<replicaSet, everPrimary, db, writeLock, writing,
                   writtenAt, requests, merge, updates, faults>>

\* A forced sync is for a node that is not the user's primary.
SyncCheckForced(j) ==
    /\ SyncFromPrimary(j)
    /\ sync[j].mode # "default"
    /\ sync[j].node # replicaSet.primary
    /\ sync' = [sync EXCEPT ![j].pc = "checking",
                            ![j].secondaries = replicaSet.secondaries]
    /\ UNCHANGED <<replicaSet, everPrimary, db, writeLock, writing,
                   writtenAt, requests, merge, updates, faults>>

\* Variant: the guardrail is lifted.
SyncSkipHistory(j) ==
    /\ SyncAt(j, "checking")
    /\ sync' = [sync EXCEPT ![j].pc = "wiping"]
    /\ UNCHANGED <<replicaSet, everPrimary, db, writeLock, writing,
                   writtenAt, requests, merge, updates, faults>>

\* Discovery's history of the user tells that the node never was its primary.
SyncCheckHistory(j) ==
    /\ SyncAt(j, "checking")
    /\ sync[j].node \notin everPrimary
    /\ sync' = [sync EXCEPT ![j].pc = "wiping"]
    /\ UNCHANGED <<replicaSet, everPrimary, db, writeLock, writing,
                   writtenAt, requests, merge, updates, faults>>

\* deleteAllCNodeUserDataFromDB. Sessions go with the user, so writes that
\* were let in before fail. A forced wipe ends here, and so does a resync
\* of a node that is no secondary or whose files cannot be deleted.
SyncWipe(j) ==
    /\ SyncAt(j, "wiping")
    /\ LET n == sync[j].node IN
       /\ db' = [db EXCEPT ![n] = NoUser]
       /\ writing' = [writing EXCEPT ![n] = FALSE]
       /\ \/ /\ sync[j].mode = "forceResync"
             /\ n \in sync[j].secondaries
             /\ sync' = [sync EXCEPT ![j].pc = "fetching",
                                     ![j].localMax = -1]
          \/ SyncFinish(j)
    /\ UNCHANGED <<replicaSet, everPrimary, writeLock, writtenAt, requests,
                   merge, updates, faults>>

\* The source answers the export request with valid new data.
SyncFetchExport(j) ==
    /\ SyncAt(j, "fetching")
    /\ db[sync[j].source] # NoUser
    /\ LET x == Export(db[sync[j].source], sync[j].localMax + 1) IN
       /\ ValidImport(x, sync[j].localMax)
       /\ sync' = [sync EXCEPT ![j].pc = "importing", ![j].page = x]
    /\ UNCHANGED <<replicaSet, everPrimary, db, writeLock, writing,
                   writtenAt, requests, merge, updates, faults>>

\* The import transaction commits, on the rows as they are by now.
SyncImport(j) ==
    /\ SyncAt(j, "importing")
    /\ LET n == sync[j].node IN
       /\ HookAccepts(db[n].records, sync[j].page.records)
       /\ db' = [db EXCEPT ![n] = Import(@, sync[j].page)]
    /\ SyncFinish(j)
    /\ UNCHANGED <<replicaSet, everPrimary, writeLock, writing, writtenAt,
                   requests, merge, updates, faults>>

\* The checks that end a job: the source is not the primary, the node has
\* the wrong role, it was the primary once, the source does not know the
\* user, its export is not what was asked for (or holds nothing new), the
\* hook refuses the import, which rolls the transaction back.
SyncRefused(j) ==
    LET job == sync[j] IN
    \/ /\ job.pc = "locked"
       /\ \/ job.source # replicaSet.primary
          \/ job.mode = "default" /\ job.node \notin replicaSet.secondaries
          \/ job.mode # "default" /\ job.node = replicaSet.primary
    \/ /\ job.pc = "checking"
       /\ job.node \in everPrimary
    \/ /\ job.pc = "fetching"
       /\ \/ db[job.source] = NoUser
          \/ ~ValidImport(Export(db[job.source], job.localMax + 1),
                          job.localMax)
    \/ /\ job.pc = "importing"
       /\ ~HookAccepts(db[job.node].records, job.page.records)

SyncAbort(j) ==
    /\ SyncRefused(j)
    /\ SyncFinish(j)
    /\ UNCHANGED <<replicaSet, everPrimary, db, writeLock, writing,
                   writtenAt, requests, merge, updates, faults>>

\* A request or transaction of the job fails.
SyncFail(j) ==
    /\ sync[j].pc \notin {"idle", "releasing"}
    /\ Fault
    /\ SyncFinish(j)
    /\ UNCHANGED <<replicaSet, everPrimary, db, writeLock, writing,
                   writtenAt, requests, merge, updates>>

\* The finally block deletes the lock's key, whoever set it.
SyncRelease(j) ==
    /\ SyncAt(j, "releasing")
    /\ writeLock' = [writeLock EXCEPT ![sync[j].node] = "none"]
    /\ sync' = [sync EXCEPT ![j] = Idle]
    /\ UNCHANGED <<replicaSet, everPrimary, db, writing, writtenAt,
                   requests, merge, updates, faults>>

-----------------------------------------------------------------------------
(* Merge jobs: _handleIssueSyncRequest in the merge modes, around          *)
(* primarySyncFromSecondary                                                *)

MergeAt(m, pc) == merge[m].pc = pc

Failed(n) == [pc |-> "failed", node |-> n]

\* A secondary is merged and resynced, a node outside the replica set is
\* merged and wiped.
MergeTarget(s, mode) ==
    \/ mode = "forceResync" /\ s \in replicaSet.secondaries
    \/ mode = "forceWipe" /\ s \notin
         replicaSet.secondaries \cup {replicaSet.primary}

\* The primary checks the request against the replica set and tries to
\* acquire the write lock.
MergeStart(m, s, mode) ==
    /\ MergeAt(m, "idle")
    /\ MergeTarget(s, mode)
    /\ LET n == replicaSet.primary IN
       \/ /\ writeLock[n] = "none"
          /\ writeLock' =
               [writeLock EXCEPT ![n] = "primarySyncFromSecondary"]
          /\ merge' = [merge EXCEPT ![m] =
               [pc |-> "locked", node |-> n, secondary |-> s, mode |-> mode,
                secondaries |-> replicaSet.secondaries, min |-> 0,
                page |-> EmptyPage, fresh |-> FALSE]]
       \/ /\ writeLock[n] # "none"
          /\ merge' = [merge EXCEPT ![m] = Failed(n)]
          /\ UNCHANGED writeLock
    /\ UNCHANGED <<replicaSet, everPrimary, db, writing, writtenAt,
                   requests, sync, updates, faults>>

\* Holding the lock, it reads the replica set again.
MergeCheck(m) ==
    /\ MergeAt(m, "locked")
    /\ replicaSet.primary = merge[m].node
    /\ merge' = [merge EXCEPT ![m].pc = "fetching"]
    /\ UNCHANGED <<replicaSet, everPrimary, db, writeLock, writing,
                   writtenAt, requests, sync, updates, faults>>

\* A page of the secondary's data, unless it has no row for the user.
MergeFetchExport(m) ==
    /\ MergeAt(m, "fetching")
    /\ db[merge[m].secondary] # NoUser
    /\ merge' = [merge EXCEPT ![m].pc = "filtering",
                   ![m].page = Export(db[merge[m].secondary], merge[m].min)]
    /\ UNCHANGED <<replicaSet, everPrimary, db, writeLock, writing,
                   writtenAt, requests, sync, updates, faults>>

\* saveEntriesToDB opens its transaction and filters out what the user has.
\* Reads take no lock: other transactions may commit before this one does.
MergeFilter(m) ==
    /\ MergeAt(m, "filtering")
    /\ LET u == db[merge[m].node] IN
       merge' = [merge EXCEPT ![m].pc = "saving",
                   ![m].fresh = (u = NoUser),
                   ![m].page.records = Missing(u, @)]
    /\ UNCHANGED <<replicaSet, everPrimary, db, writeLock, writing,
                   writtenAt, requests, sync, updates, faults>>

\* The increments and inserts of the transaction succeed unless the user's
\* row appeared or went since, or a clock value is taken already.
MergeCanSave(m) ==
    LET u == db[merge[m].node]
        first == MergeBase(u).clock + 1
        last == first + Cardinality(merge[m].page.records) - 1
    IN /\ merge[m].fresh <=> u = NoUser
       /\ Clocks(u.records) \cap first .. last = {}

\* The transaction commits. A page whose clock does not reach the end of the
\* requested range is the last one.
MergeSave(m) ==
    /\ MergeAt(m, "saving")
    /\ MergeCanSave(m)
    /\ LET n == merge[m].node
           base == MergeBase(db[n])
       IN \E f \in Renumbering(merge[m].page.records, base.clock + 1) :
             db' = [db EXCEPT ![n] = Merge(base, f)]
    /\ LET last == RangeMax(merge[m].min) IN
       \/ /\ merge[m].page.clock < last
          /\ merge' = [merge EXCEPT ![m].pc = "merged",
                                    ![m].page = EmptyPage]
       \/ /\ merge[m].page.clock >= last
          /\ merge' = [merge EXCEPT ![m].pc = "fetching",
                                    ![m].page = EmptyPage,
                                    ![m].min = last + 1]
    /\ UNCHANGED <<replicaSet, everPrimary, writeLock, writing, writtenAt,
                   requests, sync, updates, faults>>

MergeRefused(m) ==
    \/ MergeAt(m, "locked") /\ merge[m].node # replicaSet.primary
    \/ MergeAt(m, "fetching") /\ db[merge[m].secondary] = NoUser
    \/ MergeAt(m, "saving") /\ ~MergeCanSave(m)

MergeAbort(m) ==
    /\ MergeRefused(m)
    /\ merge' = [merge EXCEPT ![m] = Failed(@.node)]
    /\ UNCHANGED <<replicaSet, everPrimary, db, writeLock, writing,
                   writtenAt, requests, sync, updates, faults>>

\* A request or transaction of the merge fails.
MergeFail(m) ==
    /\ merge[m].pc \in {"locked", "fetching", "filtering", "saving"}
    /\ Fault
    /\ merge' = [merge EXCEPT ![m] = Failed(@.node)]
    /\ UNCHANGED <<replicaSet, everPrimary, db, writeLock, writing,
                   writtenAt, requests, sync, updates>>

\* The finally block deletes the lock's key, also after a failed acquire.
MergeRelease(m) ==
    /\ merge[m].pc \in {"merged", "failed"}
    /\ writeLock' = [writeLock EXCEPT ![merge[m].node] = "none"]
    /\ merge' = IF MergeAt(m, "merged")
                  THEN [merge EXCEPT ![m].pc = "requesting"]
                  ELSE [merge EXCEPT ![m] = Idle]
    /\ UNCHANGED <<replicaSet, everPrimary, db, writing, writtenAt,
                   requests, sync, updates, faults>>

\* After a merge the primary has the other node wiped, and for a node
\* outside the replica set syncs the merged data to the secondaries. A
\* resync that cannot be posted is retried as an ordinary sync.
MergeRequest(m) ==
    /\ MergeAt(m, "requesting")
    /\ LET job == merge[m]
           ask(n, mode) ==
             [node |-> n, source |-> job.node, mode |-> mode]
           spread == IF job.mode = "forceWipe"
                       THEN {ask(n, "default") : n \in job.secondaries}
                       ELSE {}
           retry == IF job.mode = "forceResync"
                      THEN {ask(job.secondary, "default")}
                      ELSE {}
       IN \/ requests' = requests \cup spread
                                  \cup {ask(job.secondary, job.mode)}
          \/ requests' = requests \cup spread \cup retry
    /\ merge' = [merge EXCEPT ![m] = Idle]
    /\ UNCHANGED <<replicaSet, everPrimary, db, writeLock, writing,
                   writtenAt, sync, updates, faults>>

-----------------------------------------------------------------------------
(* Replica set updates, expiry and crashes *)

\* Discovery indexes another replica set for the user.
UpdateReplicaSet(rs) ==
    /\ updates < MaxReplicaSetUpdates
    /\ rs # replicaSet
    /\ StableDuringWipe =>
         \A j \in SyncJob : SyncAt(j, "wiping") => rs.primary # sync[j].node
    /\ replicaSet' = rs
    /\ everPrimary' = everPrimary \cup {rs.primary}
    /\ updates' = updates + 1
    /\ UNCHANGED <<db, writeLock, writing, writtenAt, requests, sync, merge,
                   faults>>

\* The lock's key expires under a job that is still running.
LockExpires(n) ==
    /\ LockMayExpire
    /\ writeLock[n] # "none"
    /\ writeLock' = [writeLock EXCEPT ![n] = "none"]
    /\ UNCHANGED <<replicaSet, everPrimary, db, writing, writtenAt,
                   requests, sync, merge, updates, faults>>

\* The node dies and restarts: open transactions roll back, write locks and
\* active jobs are cleared, waiting sync requests stay in the queue.
CrashRestart(n) ==
    /\ Fault
    /\ writeLock' = [writeLock EXCEPT ![n] = "none"]
    /\ writing' = [writing EXCEPT ![n] = FALSE]
    /\ sync' = [j \in SyncJob |->
                  IF sync[j] # Idle /\ sync[j].node = n
                    THEN Idle ELSE sync[j]]
    /\ merge' = [m \in MergeJob |->
                  IF merge[m] # Idle /\ merge[m].node = n
                    THEN Idle ELSE merge[m]]
    /\ UNCHANGED <<replicaSet, everPrimary, db, writtenAt, requests, updates>>

-----------------------------------------------------------------------------

ClientStep(n) ==
    \/ CreateUser(n)
    \/ AuthorizeWrite(n)
    \/ \E e \in Entry : CommitWrite(n, e)
    \/ EndWrites(n)

\* What a running job does when nothing fails.
SyncProgress(j) ==
    \/ SyncCheckDefault(j)
    \/ SyncCheckForced(j)
    \/ SyncCheckHistory(j)
    \/ SyncWipe(j)
    \/ SyncFetchExport(j)
    \/ SyncImport(j)
    \/ SyncAbort(j)
    \/ SyncRelease(j)

SyncStep(j) ==
    \/ \E r \in requests : SyncStart(j, r)
    \/ SyncProgress(j)
    \/ SyncFail(j)

MergeProgress(m) ==
    \/ MergeCheck(m)
    \/ MergeFetchExport(m)
    \/ MergeFilter(m)
    \/ MergeSave(m)
    \/ MergeAbort(m)
    \/ MergeRelease(m)
    \/ MergeRequest(m)

MergeStep(m) ==
    \/ \E s \in Node, mode \in Mode \ {"default"} : MergeStart(m, s, mode)
    \/ MergeProgress(m)
    \/ MergeFail(m)

Environment ==
    \/ \E s \in Node : IssueSync(s)
    \/ \E r \in requests : LoseRequest(r)
    \/ \E rs \in ReplicaSet : UpdateReplicaSet(rs)
    \/ \E n \in Node : LockExpires(n) \/ CrashRestart(n)

Next ==
    \/ \E n \in Node : ClientStep(n)
    \/ \E j \in SyncJob : SyncStep(j)
    \/ \E m \in MergeJob : MergeStep(m)
    \/ Environment

Spec == Init /\ [][Next]_vars

(***************************************************************************)
(* Scheduling. The primary's state machine looks at every user again and   *)
(* again (recurring monitorState jobs), so that it keeps asking secondaries*)
(* to sync and keeps merging nodes that have other data. The queue workers *)
(* of every node keep taking requests, and a running job goes on: its      *)
(* requests have timeouts, and faults are bounded.                         *)
(***************************************************************************)
SyncFairness ==
    /\ \A s \in Node : WF_vars(IssueSync(s))
    /\ \A j \in SyncJob :
        /\ \A n \in Node : SF_vars(\E r \in requests :
                                      r.node = n /\ SyncStart(j, r))
        /\ WF_vars(SyncProgress(j))

MergeFairness ==
    \A m \in MergeJob :
        /\ \A s \in Node, mode \in Mode \ {"default"} :
               SF_vars(MergeStart(m, s, mode))
        /\ WF_vars(MergeProgress(m))

FairSpec == Spec /\ SyncFairness /\ MergeFairness

-----------------------------------------------------------------------------
(* Properties *)

(***************************************************************************)
(* The ClockRecords of a user are numbered 1, 2, ... without gap or        *)
(* duplicate on every node, and a row's clock is the greatest of them or   *)
(* has been set back to 0. Imports, merges and client writes number rows   *)
(* from three different sources (the clock column, the table's maximum, an *)
(* export), so that none of them alone keeps this; it holds even when the  *)
(* lock is lost.                                                           *)
(***************************************************************************)
Contiguous(R) ==
    /\ Clocks(R) = 1 .. MaxClock(R)
    /\ \A r, q \in R : r.clock = q.clock => r = q

RecordsContiguous ==
    \A n \in Node :
        /\ Contiguous(db[n].records)
        /\ db[n] # NoUser => db[n].clock \in {0, MaxClock(db[n].records)}

(***************************************************************************)
(* A row's clock is its greatest ClockRecord's: what an export asserts and *)
(* what lets a primary compare clocks instead of data.                     *)
(***************************************************************************)
ClockMatchesRecords ==
    \A n \in Node :
        db[n] # NoUser => db[n].clock = MaxClock(db[n].records)

(***************************************************************************)
(* A write a node acknowledged stays on that node: no forced resync or     *)
(* wipe removes it, whatever replica sets come, because a node that ever   *)
(* was primary is spared.                                                  *)
(***************************************************************************)
Durable ==
    \A e \in Entry :
        writtenAt[e] # Nobody => e \in Entries(db[writtenAt[e]].records)

(***************************************************************************)
(* "Ensure we never wipe the data of a primary": no step of a sync job     *)
(* deletes the rows of the node that is the user's primary at that moment. *)
(***************************************************************************)
NeverWipePrimary ==
    [][\A n \in Node : db[n] # NoUser /\ db'[n] = NoUser
                          => n # replicaSet.primary]_vars

(***************************************************************************)
(* While the replica set stays, every other node holds a prefix of the     *)
(* primary's records: same clocks, same entries.                           *)
(***************************************************************************)
PrefixOfPrimary ==
    \A n \in Node :
        db[n].records = {r \in db[replicaSet.primary].records :
                            r.clock <= MaxClock(db[n].records)}

(***************************************************************************)
(* A node's clock goes back only when its rows are wiped, or to 0, by a    *)
(* job that found the node and the user new: it asked for an export before *)
(* the node had a row and was sent a user without records, and other jobs, *)
(* or writes of the node promoted meanwhile, came before its import. No    *)
(* other page is so old that importing it turns a clock back, whatever     *)
(* locks have expired and whichever node has become primary.               *)
(***************************************************************************)
StaleImport(j, n) ==
    /\ SyncImport(j)
    /\ sync[j].node = n
    /\ sync[j].localMax = -1
    /\ sync[j].page = FreshUser

ClockNeverRewinds ==
    [][\A n \in Node :
         db'[n] # NoUser /\ db'[n].clock < db[n].clock =>
           \E j \in SyncJob : StaleImport(j, n)]_vars

(***************************************************************************)
(* Data rows a merge copies are not written twice to the same node.        *)
(***************************************************************************)
NoDuplicates ==
    \A n \in Node : \A r, q \in db[n].records : r.entry = q.entry => r = q

(***************************************************************************)
(* Once the writes are over, every secondary of a lasting replica set gets *)
(* all records of the primary and keeps them, through failed syncs, lost   *)
(* requests and faults.                                                   *)
(***************************************************************************)
Converges ==
    <>[](\A s \in replicaSet.secondaries :
            db[s].records = db[replicaSet.primary].records)

(***************************************************************************)
(* Once replica sets settle, merges bring every acknowledged write to the  *)
(* node that is primary then, whichever primary had taken it.              *)
(***************************************************************************)
Recovered ==
    <>[](\A e \in Entry : writtenAt[e] # Nobody =>
            e \in Entries(db[replicaSet.primary].records))

-----------------------------------------------------------------------------
(***************************************************************************)
(* While the replica set stays, ContentSync implements PrefixReplication:  *)
(* a node's log is its entries in the order of their clocks.               *)
(***************************************************************************)
LogOf(R) ==
    [c \in 1 .. MaxClock(R) |-> (CHOOSE r \in R : r.clock = c).entry]

Abstract == INSTANCE PrefixReplication WITH
    Replica <- Node,
    Value <- Entry,
    leader <- replicaSet.primary,
    log <- [n \in Node |-> LogOf(db[n].records)]

\* Every step is a leader's write, a copy of a longer prefix, a wipe or none.
ImplementsPrefixReplication == Abstract!Spec
=============================================================================
