---------------------------- MODULE Availability ----------------------------
(***************************************************************************)
(* Tracks that the content nodes no longer serve                           *)
(* (tasks/update_track_is_available.py).                                   *)
(*                                                                         *)
(* A pass asks the content nodes it knows, one by one, for the tracks they *)
(* do not serve, keeps their answers in redis, in a set per node and one   *)
(* of all, and then takes down the tracks that no node of their owner's    *)
(* replica set serves.  The lock of a pass expires after half a minute,    *)
(* while a node has five to answer: passes of several workers may overlap. *)
(* A batch that fails is passed over, and a task may end at any point.     *)
(***************************************************************************)
EXTENDS ContentNodes

CONSTANTS
  Owner,            \* of each track
  InitialBlacklist, \* of each content node
  BatchSize,
  MaxPasses, MaxExpiries \* bounds

VARIABLES
  blacklist,   \* tracks each content node does not serve, by id
  tracks,      \* current rows of tracks, of [is_available, is_delete]
  unavailable, \* the sets unavailable_tracks_* in redis, by id
  all,         \* the set of all in redis
  lock,        \* the pass that holds update_track_is_available_lock, 0 if none does
  passes,      \* the passes; calm are those that no other overlaps and during which no
               \* replica set changes
  expiries,
  answers,     \* history: of each node, all answers with tracks
  told         \* history: the answers since a pass began
availVars == <<blacklist, tracks, unavailable, all, lock, passes, expiries, answers, told>>
vars == <<contentVars, availVars>>

TrackIds == DOMAIN Owner
NotAsked == [nodes |-> {}, asked |-> 0, answer |-> {}, step |-> "idle", batches |-> {},
             missed |-> {}, calm |-> TRUE]
PassIds == 1..MaxPasses

(* One after the other, in sets of at most BatchSize; the order is that of *)
(* redis.                                                                  *)
Batches(T) == {P \in SUBSET (SUBSET T) :
  /\ UNION P = T /\ {} \notin P
  /\ \A A, B \in P : A # B => A \cap B = {}
  /\ Cardinality({A \in P : Cardinality(A) < BatchSize}) <= 1
  /\ \A A \in P : Cardinality(A) <= BatchSize}

Running == {p \in PassIds : passes[p].step \notin {"idle", "over"}}
At(p, step) == passes[p].step = step

----------------------------------------------------------------------------
(* update_track_is_available: a pass that finds the lock taken does        *)
(* nothing.                                                                *)

Start(p, failing) ==
  /\ At(p, "idle") /\ lock = 0
  /\ \A q \in PassIds : q < p => ~At(q, "idle")
  /\ lock' = p
  /\ passes' = [q \in PassIds |->
       IF q = p THEN [NotAsked EXCEPT !.nodes = FetchAllRegistered(failing), !.step = "next",
                                      !.calm = Running = {}]
       ELSE [passes[q] EXCEPT !.calm = @ /\ q \notin Running]]
  /\ known' = Remembered(SpIds \ failing)
  /\ all' = {}
  /\ told' = [id \in {} |-> {}]
  /\ UNCHANGED <<registry, users, peers, changes, blacklist, tracks, unavailable, expiries, answers>>

(* fetch_unavailable_track_ids; a request that fails counts as no tracks.  *)
FetchUnavailableTrackIds(id) == {blacklist[id], {}}

(* The set of nodes has no order; that of their ids stands for any.         *)
IsNext(p, id) == id \in passes[p].nodes /\ \A x \in passes[p].nodes : id <= x

Ask(p, id, answer) ==
  /\ At(p, "next") /\ IsNext(p, id) /\ answer \in FetchUnavailableTrackIds(id)
  /\ passes' = [passes EXCEPT ![p].nodes = @ \ {id}, ![p].asked = id, ![p].answer = answer,
                             ![p].step = IF answer = {} THEN "next" ELSE "store"]
  /\ answers' = [answers EXCEPT ![id] = @ \cup answer]
  /\ told' = [x \in DOMAIN told \cup {id} |-> IF x = id THEN answer ELSE told[x]]
  /\ unavailable' = [unavailable EXCEPT ![id] = {}]
  /\ UNCHANGED <<blacklist, tracks, all, lock, expiries>>

StoreBatch(p) ==
  /\ At(p, "store")
  /\ LET id == passes[p].asked
         batch == FirstOf(passes[p].answer, BatchSize)
         rest == passes[p].answer \ batch
     IN /\ unavailable' = [unavailable EXCEPT ![id] = @ \cup batch]
        /\ all' = all \cup batch
        /\ passes' = [passes EXCEPT ![p].answer = rest,
                                    ![p].step = IF rest = {} THEN "next" ELSE @]
  /\ UNCHANGED <<blacklist, tracks, lock, expiries, answers, told>>

ReadAll(p) ==
  /\ At(p, "next") /\ passes[p].nodes = {}
  /\ \E batches \in Batches(all) :
       passes' = [passes EXCEPT ![p].step = "update", ![p].batches = batches]
  /\ UNCHANGED <<blacklist, tracks, unavailable, all, lock, expiries, answers, told>>

----------------------------------------------------------------------------
(* update_tracks_is_available_status, a batch at a time.                   *)

ReplicaSet(t) == users[Owner[t]].ids
\* Variant: one node that does not serve the track is enough.
CheckAnyNode(t) ==
  \A i \in DOMAIN ReplicaSet(t) : t \notin unavailable[ReplicaSet(t)[i]]
CheckTrackIsAvailable(t) ==
  ReplicaSet(t) # <<>> => \E i \in DOMAIN ReplicaSet(t) : t \notin unavailable[ReplicaSet(t)[i]]

UpdateBatch(p) ==
  /\ At(p, "update")
  /\ \E batch \in passes[p].batches :
       /\ tracks' = [t \in TrackIds |->
            IF t \in batch /\ ~CheckTrackIsAvailable(t)
            THEN [is_available |-> FALSE, is_delete |-> TRUE] ELSE tracks[t]]
       /\ passes' = [passes EXCEPT ![p].batches = @ \ {batch}]
  /\ UNCHANGED <<blacklist, unavailable, all, lock, expiries, answers, told>>

(* A batch whose queries fail is rolled back, and the pass continues.      *)
FailBatch(p) ==
  /\ At(p, "update")
  /\ \E batch \in passes[p].batches :
       passes' = [passes EXCEPT ![p].batches = @ \ {batch}, ![p].missed = @ \cup batch]
  /\ UNCHANGED <<blacklist, tracks, unavailable, all, lock, expiries, answers, told>>

(* Releasing a lock that has expired raises an error, which ends the task  *)
(* as well.                                                                *)
Finish(p) ==
  /\ At(p, "update") /\ passes[p].batches = {}
  /\ lock' = IF lock = p THEN 0 ELSE lock
  /\ passes' = [passes EXCEPT ![p].step = "over"]
  /\ UNCHANGED <<blacklist, tracks, unavailable, all, expiries, answers, told>>

(* An error outside the batches ends the task; a worker that dies leaves   *)
(* its lock to expire.                                                     *)
Fail(p) ==
  /\ p \in Running
  /\ lock' \in {lock, IF lock = p THEN 0 ELSE lock}
  /\ passes' = [passes EXCEPT ![p].step = "over"]
  /\ UNCHANGED <<blacklist, tracks, unavailable, all, expiries, answers, told>>

LockExpires ==
  /\ lock # 0 /\ expiries < MaxExpiries
  /\ lock' = 0 /\ expiries' = expiries + 1
  /\ UNCHANGED <<blacklist, tracks, unavailable, all, passes, answers, told>>

(* On the content nodes. *)
SetBlacklist(id, T) ==
  /\ Change /\ blacklist[id] # T
  /\ blacklist' = [blacklist EXCEPT ![id] = T]
  /\ UNCHANGED <<tracks, unavailable, all, lock, passes, expiries, answers, told>>

----------------------------------------------------------------------------
Init ==
  /\ NodesInit
  /\ blacklist = InitialBlacklist
  /\ tracks = [t \in TrackIds |-> [is_available |-> TRUE, is_delete |-> FALSE]]
  /\ unavailable = [id \in SpIds |-> {}] /\ all = {}
  /\ lock = 0 /\ passes = [p \in PassIds |-> NotAsked] /\ expiries = 0
  /\ answers = [id \in SpIds |-> {}] /\ told = [id \in {} |-> {}]

Pass(p) ==
  \/ \E id \in passes[p].nodes, answer \in SUBSET TrackIds : Ask(p, id, answer)
  \/ StoreBatch(p) \/ ReadAll(p) \/ UpdateBatch(p) \/ FailBatch(p)
  \/ Finish(p) \/ Fail(p)

UsersMove ==
  /\ \E u \in UserIds, ids \in NewReplicas : UpdateUserReplicaSet(u, ids)
  /\ passes' = [p \in PassIds |-> [passes[p] EXCEPT !.calm = @ /\ p \notin Running]]
  /\ UNCHANGED <<blacklist, tracks, unavailable, all, lock, expiries, answers, told>>

Next ==
  /\ UNCHANGED walkVars
  /\ \/ \E p \in PassIds, failing \in Failing : Start(p, failing)
     \/ \E p \in PassIds : Pass(p) /\ UNCHANGED nodeVars
     \/ LockExpires /\ UNCHANGED nodeVars
     \/ \E id \in SpIds, T \in SUBSET TrackIds :
          SetBlacklist(id, T) /\ UNCHANGED <<registry, known, users, peers>>
     \/ \E id \in SpIds : Deregister(id) /\ UNCHANGED availVars
     \/ changes < MaxChanges /\ (\E id \in DOMAIN known : ExpireInfo(id)) /\ UNCHANGED availVars
     \/ UsersMove

Spec == Init /\ [][Next]_vars

TypeOK ==
  /\ NodesTypeOK
  /\ \A t \in TrackIds : tracks[t].is_delete = ~tracks[t].is_available
  /\ all \subseteq TrackIds
  /\ lock \in 0..MaxPasses
  /\ \A p \in PassIds : passes[p].nodes \subseteq SpIds

(* A track is taken down only if every node of its owner's replica set has *)
(* said that it does not serve it, and a node that a pass which nothing    *)
(* disturbs has asked, in its answer to that pass.  When such a pass       *)
(* completes, every track that the whole replica set told it does not      *)
(* serve is down, but for those of batches that failed                     *)
(* (update_tracks_is_available_status): answers fail, replica sets change, *)
(* sets of nodes that left stay in redis, passes outlast their lock.       *)
TakenDownForCause == \A t \in TrackIds :
  tracks[t].is_available /\ ~tracks'[t].is_available =>
    /\ Len(ReplicaSet(t)) = 3
    /\ \A i \in 1..3 : t \in answers[ReplicaSet(t)[i]]
    /\ \A p \in Running : passes'[p] # passes[p] /\ passes[p].calm =>
         \A i \in 1..3 : ReplicaSet(t)[i] \in DOMAIN told => t \in told[ReplicaSet(t)[i]]
AllTakenDown == \A p \in PassIds :
  At(p, "update") /\ passes[p].batches = {} /\ At(p, "over")' /\ passes[p].calm =>
    \A t \in TrackIds \ passes[p].missed :
      ReplicaSet(t) # <<>> /\ (\A i \in 1..3 : ReplicaSet(t)[i] \in DOMAIN told /\ t \in told[ReplicaSet(t)[i]]) =>
        ~tracks[t].is_available
=============================================================================
